------------------------------- MODULE Frames -------------------------------
(***************************************************************************)
(* A frame on its way up and down the stack: EtherFrameProvider hands it   *)
(* to the handler of its type, InternetProtocolProvider to that of its     *)
(* protocol, and InternetControlMessageProtocol answers a ping; an answer  *)
(* is written into the frame itself, which each level readdresses on the   *)
(* way back.  All of that is one interrupt.  RequestEchoReply is called by *)
(* the main loop.                                                          *)
(*                                                                         *)
(* The other machines are external.  A frame has the bytes its checksums   *)
(* are made of; the ARP table and the card are in modules of their own.    *)
(***************************************************************************)
EXTENDS Integers, Sequences

CONSTANTS
  Macs, OurMac, Broadcast, \* hardware addresses
  Ips, OurIp, Gateway,     \* addresses, four bytes each
  MacOf,       \* what Resolve of the ARP module answers, by address
  Contents,    \* what a message may carry behind its header: sequences of bytes
  Protocols,   \* values of the protocol field; 1 is ICMP
  Options,     \* 32-bit words of options an IP header may have
  MinPayload   \* payload of the shortest Ethernet frame: 46

ASSUME FramesAssumption ==
  /\ OurMac \in Macs /\ Broadcast \in Macs /\ OurMac # Broadcast
  /\ OurIp \in Ips /\ Gateway \in Ips
  /\ Ips \subseteq [1 .. 4 -> 0 .. 255]
  /\ MacOf \in [Ips -> Macs] /\ Contents \subseteq Seq(0 .. 255)
  /\ \A content \in Contents : Len(content) <= 1432  \* at most 1500 in a packet
  /\ 1 \in Protocols /\ Protocols \subseteq 0 .. 255
  /\ Options \subseteq 0 .. 10 /\ MinPayload \in Nat

VARIABLES
  frame,   \* the frame in the card's buffer
  level,   \* who has it, on the way up or back; "out" when the card has the answer
  back,    \* what the level above returned: the buffer is to be sent back
  given,   \* the size a protocol was handed
  sent,    \* the frame that left last
  cause    \* the frame it answers, or the address it was sent to

frameVars == <<frame, level, back, given, sent, cause>>

-----------------------------------------------------------------------------
(***************************************************************************)
(* Checksum, on bytes.  It adds 16-bit words, big end first, and an odd    *)
(* last byte as the high one of a word: as a signed char, so that a byte   *)
(* from 128 on fills the bits above the word, which are then added too.    *)
(***************************************************************************)
Word(high, low) == high * 256 + low

OddByte(b) == IF b < 128 THEN Word(b, 0) ELSE Word(b, 0) + 255 * 65536

\* The sum of the words behind the first i, up to the j-th, by halves.
SumOfWords(data) ==
  LET words == Len(data) \div 2
      sum[r \in (0 .. words) \X (0 .. words)] ==
        LET half == (r[1] + r[2]) \div 2 IN
        IF r[1] = r[2] THEN 0
        ELSE IF r[1] + 1 = r[2] THEN Word(data[2*r[2] - 1], data[2*r[2]])
        ELSE sum[<<r[1], half>>] + sum[<<half, r[2]>>]
  IN  sum[<<0, words>>] + (IF Len(data) % 2 = 1 THEN OddByte(data[Len(data)]) ELSE 0)

Fold(n) ==
  LET fold[i \in 0 .. 3] ==
        IF i = 0 THEN n ELSE (fold[i-1] % 65536) + (fold[i-1] \div 65536)
  IN  fold[3]

Checksum(data) == 65535 - Fold(SumOfWords(data))

\* What other machines do, for whom an odd byte has a zero behind it: all
\* words, the checksum among them, add up to ones.
Even(data) == IF Len(data) % 2 = 1 THEN Append(data, 0) ELSE data

Verifies(data, checksum) == Fold(SumOfWords(Even(data)) + checksum) = 65535

-----------------------------------------------------------------------------
(* The IP header: a frame's fields as the bytes of the checksum. *)

NoFrame == [dst |-> OurMac]

HeaderLength(f) == 5 + f.options

HeaderBytes(f) ==
  <<64 + HeaderLength(f), 0, f.total \div 256, f.total % 256, 0, 0, 0, 0, f.ttl, f.protocol, 0, 0>>
    \o f.srcIp \o f.dstIp \o [i \in 1 .. 4 * f.options |-> 1]

\* An ICMP message: type and code, and four bytes; behind them, what it carries.
IcmpBytes(f) == <<f.icmpType, 0>> \o f.icmpData

Stamped(f) == [f EXCEPT !.ipSum = Checksum(HeaderBytes(f))]

\* The frame of a message, as its sender makes it.
Made(dst, src, dstIp, srcIp, protocol, options, type, content) ==
  LET f == [dst |-> dst, src |-> src, etherType |-> "ip", options |-> options,
            total |-> 4 * (5 + options) + 8 + Len(content), ttl |-> 64,
            protocol |-> protocol, ipSum |-> 0, srcIp |-> srcIp, dstIp |-> dstIp,
            icmpType |-> type, icmpData |-> <<18, 52, 200, 1>>, icmpSum |-> 0,
            content |-> content]
  IN  Stamped([f EXCEPT !.icmpSum = Checksum(Even(IcmpBytes(f) \o content))])

\* What the card hands on: short packets are filled up.
Size(f) == IF f.total < MinPayload THEN MinPayload ELSE f.total

-----------------------------------------------------------------------------
(* The way up. *)

FramesInit ==
  /\ frame = NoFrame /\ level = "none" /\ back = FALSE /\ given = 0
  /\ sent = NoFrame /\ cause = NoFrame

Arrive ==
  /\ level = "none"
  /\ \E dst, src \in Macs, dstIp, srcIp \in Ips, protocol \in Protocols,
        options \in Options, type \in {0, 8}, content \in Contents,
        etherType \in {"ip", "other"}, ttl \in {57, 64} :
       /\ src \notin {OurMac, Broadcast} /\ srcIp # OurIp
       /\ frame' = Stamped(
            [Made(dst, src, dstIp, srcIp, protocol, options, type, content)
               EXCEPT !.etherType = etherType, !.ttl = ttl])
       /\ cause' = frame'
  /\ level' = "ether"
  /\ UNCHANGED <<back, given, sent>>

\* A frame for another machine, or of a type without a handler, goes no further.
EtherReceived ==
  /\ level = "ether"
  /\ level' = IF frame.dst \in {OurMac, Broadcast} /\ frame.etherType = "ip"
              THEN "ip" ELSE "etherBack"
  /\ UNCHANGED <<frame, back, given, sent, cause>>

\* The total length is taken as it stands, its bytes in the wrong order.
Swapped(n) == (n % 256) * 256 + (n \div 256)

\* A difference below zero, as an unsigned number of 32 bits.
Huge == 1073741824
Unsigned(n) == IF n < 0 THEN Huge ELSE n

\* The length not compared with what has arrived, for a mutant.
Unlimited(f) == Unsigned(Swapped(f.total) - 4 * HeaderLength(f))

PayloadSize(f) ==
  LET length == IF Swapped(f.total) > Size(f) THEN Size(f) ELSE Swapped(f.total)
  IN  Unsigned(length - 4 * HeaderLength(f))

\* What UDP and TCP do with a packet is in their modules.
IpReceived ==
  /\ level = "ip"
  /\ IF frame.dstIp # OurIp THEN level' = "ipBack" /\ UNCHANGED given
     ELSE /\ given' = PayloadSize(frame)
          /\ level' = IF frame.protocol = 1 THEN "icmp" ELSE "ipBack"
  /\ UNCHANGED <<frame, back, sent, cause>>

-----------------------------------------------------------------------------
(* And back. *)

\* A ping becomes its own answer; the checksum covers the header only.
IcmpReceived ==
  /\ level = "icmp"
  /\ IF given >= 8 /\ frame.icmpType = 8
     THEN /\ frame' = LET f == [frame EXCEPT !.icmpType = 0]
                      IN  [f EXCEPT !.icmpSum = Checksum(IcmpBytes(f))]
          /\ back' = TRUE
     ELSE UNCHANGED <<frame, back>>
  /\ level' = "ipBack"
  /\ UNCHANGED <<given, sent, cause>>

\* The checksum before the time to live is set again, for a mutant.
StampedEarly(f) ==
  [Stamped([f EXCEPT !.dstIp = f.srcIp, !.srcIp = f.dstIp]) EXCEPT !.ttl = 64]

\* The addresses first, and then the checksum, for which its field is zero.
Returned(f) ==
  Stamped([f EXCEPT !.dstIp = f.srcIp, !.srcIp = f.dstIp, !.ttl = 64])

IpBack ==
  /\ level = "ipBack"
  /\ frame' = IF back THEN Returned(frame) ELSE frame
  /\ level' = "etherBack"
  /\ UNCHANGED <<back, given, sent, cause>>

EtherBack ==
  /\ level = "etherBack"
  /\ sent' = IF back THEN [frame EXCEPT !.dst = frame.src, !.src = OurMac] ELSE sent
  /\ level' = "out"
  /\ UNCHANGED <<frame, back, given, cause>>

-----------------------------------------------------------------------------
(* InternetProtocolProvider::Send, called by RequestEchoReply. *)

Network(ip) == SubSeq(ip, 1, 3)

Route(dstIp) == IF Network(dstIp) # Network(OurIp) THEN Gateway ELSE dstIp

\* The main loop shares nothing with the interrupt here, so a ping may as
\* well be sent between two frames.
RequestEchoReply ==
  /\ level = "none"
  /\ \E ip \in Ips \ {OurIp} :
       /\ sent' = Made(MacOf[Route(ip)], OurMac, ip, OurIp, 1, 0, 8, <<>>)
       /\ cause' = ip
  /\ level' = "out"
  /\ UNCHANGED <<frame, back, given>>

\* The card takes what leaves, and its buffer is free again.
Leaves ==
  /\ level = "out"
  /\ level' = "none"
  /\ frame' = NoFrame /\ back' = FALSE /\ given' = 0
  /\ sent' = NoFrame /\ cause' = NoFrame

FramesNext ==
  \/ Arrive \/ EtherReceived \/ IpReceived \/ IcmpReceived \/ IpBack \/ EtherBack
  \/ RequestEchoReply \/ Leaves

FramesSpec == FramesInit /\ [][FramesNext]_frameVars

-----------------------------------------------------------------------------
(***************************************************************************)
(* A protocol is handed all of the sender's payload and nothing from       *)
(* behind the frame, unless the length is less when its bytes are swapped; *)
(* with the bytes that fill up a short frame.                              *)
(***************************************************************************)
PayloadInFrame ==
  given # 0 /\ Swapped(cause.total) >= cause.total =>
    LET before == 4 * HeaderLength(cause) IN
    cause.total - before <= given /\ given <= Size(cause) - before

\* A ping for this machine, of which what the code takes for its length
\* leaves the header of the message.
AskedHere(f) ==
  /\ f.dst \in {OurMac, Broadcast} /\ f.etherType = "ip"
  /\ f.dstIp = OurIp /\ f.protocol = 1 /\ f.icmpType = 8
  /\ Swapped(f.total) \notin 4 * HeaderLength(f) .. 4 * HeaderLength(f) + 7

(***************************************************************************)
(* A ping for this machine, from whatever network, is answered to whoever  *)
(* sent it, with its content and with a header whose checksum is right     *)
(* after all that was changed in it; nothing else is answered.  The        *)
(* message's own checksum is right if the ping carried nothing.            *)
(***************************************************************************)
PingsAnswered ==
  level = "out" /\ frame # NoFrame =>
    /\ back <=> AskedHere(cause)
    /\ back =>
         /\ sent.dst = cause.src /\ sent.src = OurMac
         /\ sent.dstIp = cause.srcIp /\ sent.srcIp = OurIp
         /\ sent.icmpType = 0 /\ sent.content = cause.content
         /\ Verifies(HeaderBytes(sent), sent.ipSum)
         /\ sent.content = <<>> => Verifies(IcmpBytes(sent), sent.icmpSum)
=============================================================================
