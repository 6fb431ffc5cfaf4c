-------------------------------- MODULE Jbuf --------------------------------
(***************************************************************************)
(* The receive side of a stream: its handler of RTP packets                *)
(* (baresip/src/stream.c) and the jitter buffer the packets go through     *)
(* (re/src/jbuf/jbuf.c).  Every packet is put into the buffer, which sorts *)
(* by sequence number modulo 2^16, and then at most one is taken out.      *)
(*                                                                         *)
(* The senders and the network are the environment: packets of a source    *)
(* are lost, duplicated and overtaken, and two sources may alternate.      *)
(***************************************************************************)
EXTENDS Integers, Sequences, SequencesExt

CONSTANTS
  MinFrames,   \* jbuf_del.min (3): what stays in the buffer
  MaxFrames,   \* jbuf_del.max (6): all the frames there are
  Modulus,      \* 2^16
  Base,        \* the sequence number before a source's first one
  Sources,     \* the SSRCs
  MaxSent,     \* a bound on the packets of a source
  Overtaken,   \* by how many packets the network lets one be overtaken
  Lost         \* how many packets in a row it loses

ASSUME FramesAssumption ==
  MinFrames \in Nat /\ MaxFrames \in Nat /\ 0 < MinFrames /\ MinFrames < MaxFrames
ASSUME SeqAssumption == Modulus \in Nat \ {0} /\ Base \in 0..(Modulus - 1)
ASSUME NetworkAssumption ==
  /\ Sources \subseteq Nat \ {0}
  /\ MaxSent \in Nat /\ Overtaken \in Nat /\ Lost \in Nat
  /\ 2 * (MaxFrames + Overtaken + Lost + 1) < Modulus

VARIABLES
  jb,        \* struct jbuf
  ssrc,      \* s->ssrc_rx, 0 before the first packet
  started,   \* s->jbuf_started: underflows are told to the decoder
  top,       \* environment: the last packet of each source that has arrived
  first,     \* ghost: the first packet since the buffer was flushed, 0 for none
  played,    \* ghost: the latest packet that was played since then, 0 for none
  inorder,   \* ghost: since then new packets came, each the one after its predecessor
  replayed   \* ghost: a packet was played after itself or a later one

jbufvars == <<jb, ssrc, started, top, first, played, inorder, replayed>>

\* A packet is known by its source and its place in the stream; hdr.seq is 16 bits of it.
Packet(s, k) == [src |-> s, k |-> k]
Seq16(f) == (Base + f.k) % Modulus

(***************************************************************************)
(* jbuf.c                                                                  *)
(***************************************************************************)
\* (int16_t)(x - y) < 0
SeqLess(x, y) == (x - y) % Modulus >= Modulus \div 2

Empty == [framel |-> <<>>, n |-> 0, seqPut |-> 0, running |-> FALSE]

\* Mutant: the frames stay where they are.
FlushedCount(b) == [b EXCEPT !.n = 0, !.running = FALSE]

Flushed(b) == [b EXCEPT !.framel = <<>>, !.n = 0, !.running = FALSE]

\* Mutant: the numbers are compared as they are.
LateUnwrapped(b, f) == b.running /\ Seq16(f) + b.n < b.seqPut

\* Too late to be put into the buffer; seq + n wraps like seq.
Late(b, f) == b.running /\ SeqLess((Seq16(f) + b.n) % Modulus, b.seqPut)

\* frame_alloc: from the pool, or else the oldest frame gives way.
Room(b) ==
  IF Len(b.framel) < MaxFrames THEN [b EXCEPT !.n = @ + 1]
  ELSE [b EXCEPT !.framel = Tail(@)]

\* The last frame that is not later than f, 0 for none.
Position(framel, f) ==
  LET seq == Seq16(f)
      earlier == {i \in DOMAIN framel :
                    SeqLess(Seq16(framel[i]), seq) \/ Seq16(framel[i]) = seq}
  IN  IF earlier = {} THEN 0 ELSE CHOOSE i \in earlier : \A j \in earlier : j <= i

\* jbuf_put: a duplicate is found only after a frame was made free for it.
Put(b, f) ==
  LET r == Room(b)
      p == Position(r.framel, f)
  IN  IF Late(b, f) THEN b
      ELSE IF p > 0 /\ Seq16(r.framel[p]) = Seq16(f) THEN [r EXCEPT !.n = @ - 1]
      ELSE [r EXCEPT !.framel = InsertAt(@, p + 1, f),
                     !.seqPut = Seq16(f),
                     !.running = TRUE]

\* jbuf_get, when there is something to get, and what it leaves.
CanGet(b) == b.n > MinFrames /\ b.framel # <<>>
Got(b) == [b EXCEPT !.framel = Tail(@), !.n = @ - 1]

(***************************************************************************)
(* stream.c                                                                *)
(***************************************************************************)
\* rtp_recv: a packet of another source flushes the buffer.
Receive(f) ==
  LET flush == ssrc # 0 /\ ssrc # f.src
      fresh == flush \/ first = 0
      b     == Put(IF flush THEN Flushed(jb) ELSE jb, f)
      prior == IF fresh THEN 0 ELSE played
  IN  /\ ssrc' = f.src
      /\ top' = [top EXCEPT ![f.src] = IF f.k > @ THEN f.k ELSE @]
      /\ first' = IF fresh THEN f.k ELSE first
      /\ inorder' = IF fresh THEN f.k > top[f.src]
                    ELSE inorder /\ f.k = top[f.src] + 1
      /\ IF CanGet(b)
         THEN LET k == Head(b.framel).k
              IN  /\ jb' = Got(b)
                  /\ started' = TRUE
                  /\ played' = IF k > prior THEN k ELSE prior
                  /\ replayed' = (replayed \/ k <= prior)
         ELSE /\ jb' = b
              /\ played' = prior
              /\ UNCHANGED <<started, replayed>>

\* What the network may deliver next of source s.
Arrivals(s) ==
  {k \in 1..MaxSent : k >= top[s] - Overtaken /\ k <= top[s] + 1 + Lost}

RtpRecv == \E s \in Sources : \E k \in Arrivals(s) : Receive(Packet(s, k))

\* stream_reset, when the call is established.
Reset ==
  /\ jb' = Flushed(jb)
  /\ first' = 0
  /\ played' = 0
  /\ inorder' = TRUE
  /\ UNCHANGED <<ssrc, started, top, replayed>>

-----------------------------------------------------------------------------
JbufInit ==
  /\ jb = Empty
  /\ ssrc = 0
  /\ started = FALSE
  /\ top = [s \in Sources |-> 0]
  /\ first = 0
  /\ played = 0
  /\ inorder = TRUE
  /\ replayed = FALSE

JbufNext == RtpRecv \/ Reset

JbufSpec == JbufInit /\ [][JbufNext]_jbufvars

-----------------------------------------------------------------------------
(***************************************************************************)
(* Properties.                                                             *)
(***************************************************************************)
\* The buffer holds packets of the present source only, each once and in the order they
\* were sent, and its count is the number it holds, across wrapped numbers and duplicates
\* that are found late.  More than the frames kept for the delay never stay in it, and so
\* none ever has to give way.
BufferTrue ==
  /\ jb.n = Len(jb.framel) /\ jb.n <= MinFrames
  /\ \A i \in DOMAIN jb.framel : jb.framel[i].src = ssrc
  /\ \A i, j \in DOMAIN jb.framel : i < j => jb.framel[i].k < jb.framel[j].k

\* A source whose packets arrive in order, each once, is played without a gap: all of
\* it but the frames that are kept for the delay has been played, in order.
InOrderKept ==
  (inorder /\ first # 0) =>
    LET next == IF played = 0 THEN first ELSE played + 1
    IN  /\ Len(jb.framel) <= MinFrames
        /\ \A i \in DOMAIN jb.framel : jb.framel[i].k = next + i - 1
        /\ next + Len(jb.framel) = top[ssrc] + 1

\* No packet is played twice or after a later one: what jbuf_put says of packets that
\* are too late.
PlayedInOrder == ~replayed
=============================================================================
