---------------------------- MODULE NotifyProofs ----------------------------
(***************************************************************************)
(* What _on_notify does, for any bytes in any cuts and for any content of  *)
(* the unit's blocks: the two halves of it, FrameStream up to the frames   *)
(* and Telemetry from the frames to .data.                                 *)
(*                                                                         *)
(* FrameStream.  The step that matters is DecodingGoesOn: decoding b and   *)
(* then x gives the frames of b and those of what b leaves followed by x.  *)
(* It, and what the loop finds (LoopFinds), are inductions from the end of *)
(* the buffer back, because the loop at a position is defined by what      *)
(* comes of it at later ones; InductionDown is that induction, said of a   *)
(* set of positions.                                                       *)
(*                                                                         *)
(* Telemetry.  The step that matters is TruncationOnlyOmits: the decoding  *)
(* of a payload that was cut short is a part of the decoding of the whole  *)
(* one.  What .data says then comes from full blocks, because every        *)
(* frame's does.                                                           *)
(***************************************************************************)
EXTENDS FrameStream, Telemetry, TLAPS, SequenceTheorems, WellFoundedInduction

-----------------------------------------------------------------------------
(* FrameStream: induction over positions *)

(* A set of natural numbers has a least one.                                   *)
LEMMA Least ==
    ASSUME NEW T, T \subseteq Nat, T # {}
    PROVE  \E x \in T : \A y \in T : x =< y
<1> DEFINE R == OpToRel(<, Nat)
<1>1. \E x \in T : \A y \in T : <<y, x>> \notin R
  <2> HIDE DEF R
  <2>1. IsWellFoundedOn(R, Nat)
    BY NatLessThanWellFounded DEF R
  <2> QED
    BY <2>1, WFMin
<1>2. PICK x \in T : \A y \in T : <<y, x>> \notin R
  BY <1>1
<1>3. \A y \in T : ~(y < x)
  BY <1>2 DEF OpToRel
<1> QED
  BY <1>3

(* Induction, said of a set: what holds of 0, and of n + 1 when it holds of n, *)
(* holds of every natural number.                                              *)
LEMMA Induction ==
    ASSUME NEW S, 0 \in S, \A n \in Nat : n \in S => n + 1 \in S
    PROVE  Nat \subseteq S
<1> SUFFICES ASSUME Nat \ S # {} PROVE FALSE
  OBVIOUS
<1>1. PICK x \in Nat \ S : \A y \in Nat \ S : x =< y
  BY Least
<1>2. x - 1 \in Nat /\ x - 1 \in S
  BY <1>1
<1> QED
  BY <1>1, <1>2

(* The same from the other end: what holds of n, and of i when it holds of all *)
(* that lies between i and n, holds of everything up to n.                     *)
LEMMA InductionDown ==
    ASSUME NEW n \in Nat, NEW S,
           \A i \in 0 .. n : (\A j \in i + 1 .. n : j \in S) => i \in S
    PROVE  \A i \in 0 .. n : i \in S
<1> DEFINE T == {k \in Nat : \A j \in 0 .. n : j > n - k => j \in S}
<1>1. 0 \in T
  OBVIOUS
<1>2. ASSUME NEW k \in Nat, k \in T PROVE k + 1 \in T
  <2> SUFFICES ASSUME NEW j \in 0 .. n, j > n - (k + 1) PROVE j \in S
    OBVIOUS
  <2>1. \A h \in j + 1 .. n : h \in 0 .. n /\ h > n - k
    OBVIOUS
  <2> QED
    BY <1>2, <2>1
<1>3. Nat \subseteq T
  <2> HIDE DEF T
  <2> QED
    BY <1>1, <1>2, Induction
<1>4. n + 1 \in T
  BY <1>3
<1> QED
  BY <1>4

-----------------------------------------------------------------------------
(* FrameStream: what decode_stream does at a position *)

Buffers == Seq(Bytes)

(* What the bytes say at a header all of whose frame is there.                *)
LEMMA AtAHeader ==
    ASSUME NEW b \in Buffers, NEW i \in 0 .. Len(b), HeaderAt(b, i)
    PROVE  /\ i < Len(b) - 1
           /\ ~Partial(b, i) => /\ LengthAt(b, i) \in Nat
                                /\ TotalAt(b, i) \in Nat
           /\ ~Partial(b, i) /\ ~Incomplete(b, i) =>
                /\ AfterFrame(b, i) \in i + 1 .. Len(b)
                /\ DataAt(b, i) \in Seq(Bytes)
                /\ FrameAt(b, i) \in [data : Seq(Bytes), ok : BOOLEAN]
<1>1. Len(b) \in Nat /\ \A k \in 1 .. Len(b) : b[k] \in Bytes /\ b[k] \in Nat
  <2>1. Len(b) \in Nat /\ b \in [1 .. Len(b) -> Bytes]
    BY LenProperties DEF Buffers
  <2> QED
    BY <2>1, ByteAssumption
<1>2. i < Len(b) - 1
  BY <1>1 DEF HeaderAt
<1>3. ASSUME ~Partial(b, i)
      PROVE  LengthAt(b, i) \in Nat /\ TotalAt(b, i) \in Nat
  BY <1>1, <1>3 DEF Partial, LengthAt, TotalAt, Lead, Around
<1>4. ASSUME ~Partial(b, i), ~Incomplete(b, i)
      PROVE  /\ AfterFrame(b, i) \in i + 1 .. Len(b)
             /\ DataAt(b, i) \in Seq(Bytes)
             /\ FrameAt(b, i) \in [data : Seq(Bytes), ok : BOOLEAN]
  <2>1. i + LengthAt(b, i) + Around =< Len(b) /\ LengthAt(b, i) \in Nat
    BY <1>1, <1>3, <1>4 DEF Incomplete, TotalAt, Around
  <2>2. AfterFrame(b, i) \in i + 1 .. Len(b)
    BY <1>1, <2>1 DEF AfterFrame, TotalAt, Around
  <2>3. \A k \in i + Lead + 1 .. i + Lead + LengthAt(b, i) : b[k] \in Bytes
    BY <1>1, <2>1 DEF Lead, Around
  <2>4. DataAt(b, i) \in Seq(Bytes)
    <3>1. i + Lead + 1 \in Int /\ i + Lead + LengthAt(b, i) \in Int
      BY <2>1 DEF Lead
    <3> QED
      BY <3>1, <2>3, SubSeqProperties DEF DataAt
  <2> QED
    BY <2>2, <2>4 DEF FrameAt, CrcAt
<1> QED
  BY <1>2, <1>3, <1>4

(* A round looks at what comes of later positions only.                        *)
LEMMA RoundLooksAhead ==
    ASSUME NEW b \in Buffers, NEW i \in 0 .. Len(b), NEW f, NEW g,
           \A j \in i + 1 .. Len(b) : f[j] = g[j]
    PROVE  Round(b, f, i) = Round(b, g, i)
<1>1. Len(b) \in Nat
  BY DEF Buffers
<1>2. CASE ~HeaderAt(b, i)
  BY <1>1, <1>2 DEF Round
<1>3. CASE HeaderAt(b, i) /\ (Partial(b, i) \/ (~Impossible(b, i) /\ Incomplete(b, i)))
  BY <1>1, <1>3, AtAHeader DEF Round
<1>4. CASE HeaderAt(b, i) /\ ~Partial(b, i) /\ Impossible(b, i)
  <2>1. i + 1 \in i + 1 .. Len(b)
    BY <1>1, <1>4, AtAHeader
  <2> QED
    BY <1>1, <1>4, <2>1, AtAHeader DEF Round
<1>5. CASE HeaderAt(b, i) /\ ~Partial(b, i) /\ ~Impossible(b, i) /\ ~Incomplete(b, i)
  <2>1. AfterFrame(b, i) \in i + 1 .. Len(b)
    BY <1>5, AtAHeader
  <2> QED
    BY <1>1, <1>5, <2>1, AtAHeader DEF Round
<1> QED
  BY <1>2, <1>3, <1>4, <1>5

(* So there is a function that the recursive definition of Loop describes.     *)
LEMMA LoopEquation ==
    ASSUME NEW b \in Buffers
    PROVE  Loop(b) = [i \in 0 .. Len(b) |-> Round(b, Loop(b), i)]
<1> DEFINE n == Len(b)
           Upto(k, f) == f = [i \in n - k .. n |-> Round(b, f, i)]
           S == {k \in Nat : k =< n => \E f : Upto(k, f)}
<1>0. n \in Nat
  BY DEF Buffers
<1>1. 0 \in S
  <2> DEFINE f == [i \in n - 0 .. n |-> Round(b, <<>>, i)]
  <2>1. \A i \in n - 0 .. n : Round(b, f, i) = Round(b, <<>>, i)
    BY <1>0, RoundLooksAhead
  <2>2. Upto(0, f)
    BY <2>1
  <2> HIDE DEF f
  <2> QED
    BY <2>2
<1>2. ASSUME NEW k \in Nat, k \in S PROVE k + 1 \in S
  <2> SUFFICES ASSUME k + 1 =< n PROVE \E g : Upto(k + 1, g)
    OBVIOUS
  <2>1. PICK f : Upto(k, f)
    BY <1>0, <1>2
  <2> DEFINE g == [i \in n - (k + 1) .. n |-> IF i = n - (k + 1) THEN Round(b, f, i) ELSE f[i]]
  <2>2. \A i \in n - k .. n : g[i] = f[i]
    BY <1>0
  <2>3. \A i \in n - (k + 1) .. n : Round(b, g, i) = Round(b, f, i)
    <3> HIDE DEF g
    <3> TAKE i \in n - (k + 1) .. n
    <3>1. \A j \in i + 1 .. n : g[j] = f[j]
      BY <1>0, <2>2
    <3>2. i \in 0 .. n
      BY <1>0
    <3> QED
      BY <3>1, <3>2, RoundLooksAhead
  <2>4. \A i \in n - k .. n : f[i] = Round(b, f, i)
    BY <2>1
  <2>5. \A i \in n - (k + 1) .. n : g[i] = Round(b, f, i)
    BY <1>0, <2>4
  <2>6. Upto(k + 1, g)
    BY <2>3, <2>5
  <2> HIDE DEF g
  <2> QED
    BY <2>6
<1>3. n \in S
  <2> HIDE DEF S
  <2> QED
    BY <1>0, <1>1, <1>2, Induction
<1>4. \E f : f = [i \in 0 .. n |-> Round(b, f, i)]
  <2>1. PICK f : Upto(n, f)
    BY <1>0, <1>3
  <2>2. n - n = 0
    BY <1>0
  <2> QED
    BY <2>1, <2>2
<1>5. Loop(b) = CHOOSE f : f = [i \in 0 .. n |-> Round(b, f, i)]
  BY DEF Loop
<1> QED
  BY <1>4, <1>5

Frame == [data : Seq(Bytes), ok : BOOLEAN]

(* What decode_stream comes to in each of the cases it tells apart.           *)
LEMMA LoopCases ==
    ASSUME NEW b \in Buffers, NEW i \in 0 .. Len(b)
    PROVE  /\ ~HeaderAt(b, i) /\ i >= Len(b) - 1 => Loop(b)[i] = Nothing
           /\ ~HeaderAt(b, i) /\ i < Len(b) - 1 => Loop(b)[i] = Loop(b)[i + 1]
           /\ Waiting(b, i) => Loop(b)[i] = Nothing
           /\ HeaderAt(b, i) /\ ~Partial(b, i) /\ Impossible(b, i) =>
                Loop(b)[i] = Consuming(i + 1, Loop(b)[i + 1])
           /\ Whole(b, i) =>
                Loop(b)[i] = Emitting(FrameAt(b, i),
                                 Consuming(AfterFrame(b, i), Loop(b)[AfterFrame(b, i)]))
<1>1. Len(b) \in Nat
  BY DEF Buffers
<1>2. Loop(b)[i] = Round(b, Loop(b), i)
  BY LoopEquation
<1>3. HeaderAt(b, i) => i < Len(b) - 1
  BY AtAHeader
<1> QED
  BY <1>1, <1>2, <1>3 DEF Round, Waiting, Whole

(* One of the five is always the case.                                         *)
LEMMA CasesOfAPosition ==
    ASSUME NEW b \in Buffers, NEW i \in 0 .. Len(b)
    PROVE  \/ ~HeaderAt(b, i)
           \/ Waiting(b, i)
           \/ HeaderAt(b, i) /\ ~Partial(b, i) /\ Impossible(b, i)
           \/ Whole(b, i)
BY DEF Waiting, Whole

(* The loop gives frames, and `consumed' behind the position where a header    *)
(* was passed.                                                                 *)
LEMMA LoopTyped ==
    ASSUME NEW b \in Buffers, NEW i \in 0 .. Len(b)
    PROVE  /\ Loop(b)[i] \in [frames : Seq(Frame), consumed : 0 .. Len(b)]
           /\ Loop(b)[i].consumed = 0 \/ Loop(b)[i].consumed > i
<1> DEFINE n == Len(b)
           S == {k \in 0 .. n : /\ Loop(b)[k] \in [frames : Seq(Frame), consumed : 0 .. n]
                                /\ Loop(b)[k].consumed = 0 \/ Loop(b)[k].consumed > k}
<1>1. n \in Nat
  BY DEF Buffers
<1>2. ASSUME NEW k \in 0 .. n, \A j \in k + 1 .. n : j \in S
      PROVE  k \in S
  <2>1. Nothing \in [frames : Seq(Frame), consumed : 0 .. n] /\ Nothing.consumed = 0
    BY <1>1 DEF Nothing
  <2>2. ASSUME NEW j \in k + 1 .. n
        PROVE  /\ Consuming(j, Loop(b)[j]) \in [frames : Seq(Frame), consumed : 0 .. n]
               /\ Consuming(j, Loop(b)[j]).consumed > k
    BY <1>1, <1>2, <2>2 DEF Consuming
  <2>3. CASE ~HeaderAt(b, k) /\ k >= n - 1
    BY <2>1, <2>3, LoopCases
  <2>4. CASE ~HeaderAt(b, k) /\ k < n - 1
    <3>1. k + 1 \in S /\ Loop(b)[k] = Loop(b)[k + 1]
      BY <1>1, <1>2, <2>4, LoopCases
    <3> QED
      BY <3>1
  <2>5. CASE Waiting(b, k)
    BY <2>1, <2>5, LoopCases
  <2>6. CASE HeaderAt(b, k) /\ ~Partial(b, k) /\ Impossible(b, k)
    <3>1. k + 1 \in k + 1 .. n
      BY <1>1, <2>6, AtAHeader
    <3>2. Loop(b)[k] = Consuming(k + 1, Loop(b)[k + 1])
      BY <2>6, LoopCases
    <3> QED
      BY <2>2, <3>1, <3>2
  <2>7. CASE Whole(b, k)
    <3> DEFINE next == AfterFrame(b, k)
               c == Consuming(next, Loop(b)[next])
    <3>1. next \in k + 1 .. n /\ FrameAt(b, k) \in Frame
      BY <2>7, AtAHeader DEF Whole, Frame
    <3>2. Loop(b)[k] = [c EXCEPT !.frames = <<FrameAt(b, k)>> \o c.frames]
      BY <2>7, LoopCases DEF Emitting
    <3>3. c \in [frames : Seq(Frame), consumed : 0 .. n] /\ c.consumed > k
      BY <2>2, <3>1
    <3> HIDE DEF c
    <3>4. <<FrameAt(b, k)>> \o c.frames \in Seq(Frame)
      BY <3>1, <3>3
    <3> QED
      BY <3>2, <3>3, <3>4
  <2> QED
    BY <2>3, <2>4, <2>5, <2>6, <2>7, CasesOfAPosition
<1>3. \A k \in 0 .. n : k \in S
  <2> HIDE DEF S
  <2> QED
    BY <1>1, <1>2, InductionDown
<1> QED
  BY <1>3

-----------------------------------------------------------------------------
(* FrameStream: cutting the stream *)

(* How far the loop has come with position i behind it: `consumed', or i.     *)
Reached(b, i) == IF Loop(b)[i].consumed > i THEN Loop(b)[i].consumed ELSE i

(* What a round adds, and how far it comes.                                    *)
LEMMA Rounds ==
    ASSUME NEW b \in Buffers, NEW i \in 0 .. Len(b)
    PROVE  /\ Reached(b, i) \in i .. Len(b)
           /\ Loop(b)[i].frames \in Seq(Frame)
           /\ ~HeaderAt(b, i) /\ i < Len(b) => Loop(b)[i].frames = Loop(b)[i + 1].frames
           /\ ~HeaderAt(b, i) /\ i < Len(b) - 1 =>
                Reached(b, i + 1) = IF Reached(b, i) = i THEN i + 1 ELSE Reached(b, i)
           /\ ~HeaderAt(b, i) /\ i >= Len(b) - 1 => Loop(b)[i].frames = <<>> /\ Reached(b, i) = i
           /\ Waiting(b, i) => Loop(b)[i].frames = <<>> /\ Reached(b, i) = i
           /\ HeaderAt(b, i) /\ ~Partial(b, i) /\ Impossible(b, i) =>
                /\ Loop(b)[i].frames = Loop(b)[i + 1].frames
                /\ Reached(b, i) = Reached(b, i + 1)
           /\ Whole(b, i) =>
                /\ Loop(b)[i].frames = <<FrameAt(b, i)>> \o Loop(b)[AfterFrame(b, i)].frames
                /\ Reached(b, i) = Reached(b, AfterFrame(b, i))
<1> DEFINE n == Len(b)
<1>1. n \in Nat
  BY DEF Buffers
<1>2. Reached(b, i) \in i .. n /\ Loop(b)[i].frames \in Seq(Frame)
  BY <1>1, LoopTyped DEF Reached
<1>3. ASSUME ~HeaderAt(b, i), i >= n - 1
      PROVE  Loop(b)[i].frames = <<>> /\ Reached(b, i) = i
  BY <1>1, <1>3, LoopCases DEF Nothing, Reached
<1>4. ASSUME Waiting(b, i)
      PROVE  Loop(b)[i].frames = <<>> /\ Reached(b, i) = i
  BY <1>1, <1>4, LoopCases DEF Nothing, Reached
<1>5. ASSUME ~HeaderAt(b, i), i < n - 1
      PROVE  /\ Loop(b)[i].frames = Loop(b)[i + 1].frames
             /\ Reached(b, i + 1) = IF Reached(b, i) = i THEN i + 1 ELSE Reached(b, i)
  <2>1. i + 1 \in 0 .. n /\ Loop(b)[i] = Loop(b)[i + 1]
    BY <1>1, <1>5, LoopCases
  <2>2. /\ Loop(b)[i + 1].consumed \in 0 .. n
        /\ Loop(b)[i + 1].consumed = 0 \/ Loop(b)[i + 1].consumed > i + 1
    BY <2>1, LoopTyped
  <2> QED
    BY <1>1, <2>1, <2>2 DEF Reached
<1>6. ASSUME ~HeaderAt(b, i), i < n
      PROVE  Loop(b)[i].frames = Loop(b)[i + 1].frames
  <2>1. CASE i < n - 1
    BY <1>5, <1>6, <2>1
  <2>2. CASE i = n - 1
    <3>1. i + 1 \in 0 .. n /\ i + 1 >= n - 1 /\ ~HeaderAt(b, i + 1)
      BY <1>1, <2>2 DEF HeaderAt
    <3> QED
      BY <1>1, <1>6, <2>2, <3>1, LoopCases
  <2> QED
    BY <1>1, <1>6, <2>1, <2>2
<1>7. ASSUME NEW j \in i + 1 .. n
      PROVE  /\ Consuming(j, Loop(b)[j]).frames = Loop(b)[j].frames
             /\ Consuming(j, Loop(b)[j]).consumed = Reached(b, j)
             /\ Consuming(j, Loop(b)[j]) \in [frames : Seq(Frame), consumed : 0 .. n]
             /\ Reached(b, j) >= j
  <2>1. Loop(b)[j] \in [frames : Seq(Frame), consumed : 0 .. n]
    BY <1>1, LoopTyped
  <2> QED
    BY <1>1, <2>1 DEF Consuming, Reached
<1>8. ASSUME HeaderAt(b, i), ~Partial(b, i), Impossible(b, i)
      PROVE  /\ Loop(b)[i].frames = Loop(b)[i + 1].frames
             /\ Reached(b, i) = Reached(b, i + 1)
  <2>1. i + 1 \in i + 1 .. n
    BY <1>1, <1>8, AtAHeader
  <2>2. Loop(b)[i] = Consuming(i + 1, Loop(b)[i + 1])
    BY <1>8, LoopCases
  <2>3. Loop(b)[i].consumed = Reached(b, i + 1) /\ Reached(b, i + 1) > i
    BY <1>7, <2>1, <2>2
  <2> QED
    BY <1>7, <2>1, <2>2, <2>3 DEF Reached
<1>9. ASSUME Whole(b, i)
      PROVE  /\ Loop(b)[i].frames = <<FrameAt(b, i)>> \o Loop(b)[AfterFrame(b, i)].frames
             /\ Reached(b, i) = Reached(b, AfterFrame(b, i))
  <2> DEFINE next == AfterFrame(b, i)
             c == Consuming(next, Loop(b)[next])
  <2>1. next \in i + 1 .. n
    BY <1>9, AtAHeader DEF Whole
  <2>2. Loop(b)[i] = [c EXCEPT !.frames = <<FrameAt(b, i)>> \o c.frames]
    BY <1>9, LoopCases DEF Emitting
  <2>3. /\ c \in [frames : Seq(Frame), consumed : 0 .. n]
        /\ c.consumed = Reached(b, next)
        /\ c.frames = Loop(b)[next].frames
        /\ Reached(b, next) > i
    BY <1>7, <2>1
  <2> HIDE DEF c, next
  <2>4. Loop(b)[i].frames = <<FrameAt(b, i)>> \o c.frames /\ Loop(b)[i].consumed = c.consumed
    BY <2>2, <2>3
  <2> QED
    BY <2>3, <2>4 DEF Reached, next
<1> QED
  BY <1>2, <1>3, <1>4, <1>5, <1>6, <1>8, <1>9

(* What is dropped in front of the first header, and what is when there is     *)
(* none.                                                                       *)
LEMMA TrimmedCases ==
    ASSUME NEW b \in Buffers, NEW c \in 0 .. Len(b)
    PROVE  /\ Trimmed(b, c) \in c .. Len(b)
           /\ \A i \in c .. Trimmed(b, c) - 1 : ~HeaderAt(b, i)
           /\ HeaderAt(b, Trimmed(b, c)) \/
                /\ \A i \in c .. Len(b) : ~HeaderAt(b, i)
                /\ Trimmed(b, c) = IF c < Len(b) /\ b[Len(b)] = H1 THEN Len(b) - 1 ELSE Len(b)
<1> DEFINE headers == {i \in c .. Len(b) : HeaderAt(b, i)}
<1>1. Len(b) \in Nat
  BY DEF Buffers
<1>2. CASE headers = {}
  <2>1. Trimmed(b, c) = IF c < Len(b) /\ b[Len(b)] = H1 THEN Len(b) - 1 ELSE Len(b)
    BY <1>2 DEF Trimmed
  <2>2. \A i \in c .. Len(b) : ~HeaderAt(b, i)
    BY <1>2
  <2> QED
    BY <1>1, <2>1, <2>2
<1>3. CASE headers # {}
  <2>1. Trimmed(b, c) = CHOOSE i \in headers : \A j \in headers : i =< j
    BY <1>3 DEF Trimmed
  <2>2. \E i \in headers : \A j \in headers : i =< j
    <3>1. headers \subseteq Nat
      BY <1>1
    <3> HIDE DEF headers
    <3> QED
      BY <1>3, <3>1, Least
  <2>3. Trimmed(b, c) \in headers /\ \A j \in headers : Trimmed(b, c) =< j
    <3> HIDE DEF headers
    <3> QED
      BY <2>1, <2>2
  <2> QED
    BY <1>1, <2>3
<1> QED
  BY <1>2, <1>3

(* Behind `consumed', the first header there is waits for its bytes.           *)
LEMMA WhatIsKeptWaits ==
    ASSUME NEW b \in Buffers
    PROVE  LET c == DecodeStream(b).consumed
           IN  /\ c \in 0 .. Len(b)
               /\ Waiting(b, c) \/ c >= Len(b) - 1
<1> DEFINE n == Len(b)
           S == {i \in 0 .. n : \A h \in Reached(b, i) .. n :
                   /\ HeaderAt(b, h)
                   /\ \A j \in Reached(b, i) .. h - 1 : ~HeaderAt(b, j)
                   => Waiting(b, h)}
<1>1. n \in Nat
  BY DEF Buffers
<1>2. ASSUME NEW i \in 0 .. n, \A j \in i + 1 .. n : j \in S
      PROVE  i \in S
  <2>1. Reached(b, i) \in i .. n
    BY Rounds
  <2>2. CASE ~HeaderAt(b, i) /\ i >= n - 1
    <3>1. \A h \in i .. n : ~HeaderAt(b, h)
      BY <1>1, <2>2 DEF HeaderAt
    <3> QED
      BY <1>1, <2>1, <3>1
  <2>3. CASE ~HeaderAt(b, i) /\ i < n - 1
    <3>1. i + 1 \in S
      BY <1>1, <1>2, <2>3
    <3>2. Reached(b, i + 1) = IF Reached(b, i) = i THEN i + 1 ELSE Reached(b, i)
      BY <2>3, Rounds
    <3>3. CASE Reached(b, i) # i
      BY <3>1, <3>2, <3>3
    <3>4. CASE Reached(b, i) = i
      <4>1. Reached(b, i + 1) = i + 1
        BY <3>2, <3>4
      <4> SUFFICES ASSUME NEW h \in i .. n, HeaderAt(b, h), \A j \in i .. h - 1 : ~HeaderAt(b, j)
                   PROVE  Waiting(b, h)
        BY <3>4
      <4>2. h \in i + 1 .. n
        BY <1>1, <2>3
      <4> QED
        BY <1>1, <3>1, <4>1, <4>2
    <3> QED
      BY <3>3, <3>4
  <2>4. CASE Waiting(b, i)
    <3>1. Reached(b, i) = i /\ HeaderAt(b, i)
      BY <2>4, Rounds DEF Waiting
    <3> SUFFICES ASSUME NEW h \in i .. n, HeaderAt(b, h), \A j \in i .. h - 1 : ~HeaderAt(b, j)
                 PROVE  Waiting(b, h)
      BY <3>1
    <3>2. h = i
      BY <1>1, <3>1
    <3> QED
      BY <2>4, <3>2
  <2>5. CASE HeaderAt(b, i) /\ ~Partial(b, i) /\ Impossible(b, i)
    <3>1. i + 1 \in S
      BY <1>1, <1>2, <2>5, AtAHeader
    <3>2. Reached(b, i) = Reached(b, i + 1)
      BY <2>5, Rounds
    <3> QED
      BY <3>1, <3>2
  <2>6. CASE Whole(b, i)
    <3>1. AfterFrame(b, i) \in S
      BY <1>2, <2>6, AtAHeader DEF Whole
    <3>2. Reached(b, i) = Reached(b, AfterFrame(b, i))
      BY <2>6, Rounds
    <3> QED
      BY <3>1, <3>2
  <2> QED
    BY <2>2, <2>3, <2>4, <2>5, <2>6, CasesOfAPosition
<1>3. 0 \in S
  <2>1. \A i \in 0 .. n : i \in S
    <3> HIDE DEF S
    <3> QED
      BY <1>1, <1>2, InductionDown
  <2> QED
    BY <1>1, <2>1
<1>4. /\ Reached(b, 0) = Loop(b)[0].consumed
      /\ Reached(b, 0) \in 0 .. n
  BY <1>1, LoopTyped, Rounds DEF Reached
<1> DEFINE c == Trimmed(b, Reached(b, 0))
<1>5. DecodeStream(b).consumed = c
  BY <1>4 DEF DecodeStream
<1>6. /\ c \in Reached(b, 0) .. n
      /\ \A i \in Reached(b, 0) .. c - 1 : ~HeaderAt(b, i)
      /\ HeaderAt(b, c) \/ c >= n - 1
  BY <1>1, <1>4, TrimmedCases
<1> HIDE DEF c
<1>7. HeaderAt(b, c) => Waiting(b, c)
  BY <1>3, <1>6
<1> QED
  BY <1>1, <1>4, <1>5, <1>6, <1>7

(* A slice of a buffer.                                                        *)
LEMMA Slice ==
    ASSUME NEW b \in Buffers, NEW i \in Nat, NEW l \in Nat, i + l =< Len(b)
    PROVE  LET d == SubSeq(b, i + 1, i + l)
           IN  d \in Buffers /\ Len(d) = l /\ \A k \in 1 .. l : d[k] = b[i + k]
<1>1. Len(b) \in Nat /\ \A k \in 1 .. Len(b) : b[k] \in Bytes
  BY ElementOfSeq DEF Buffers
<1>2. \A k \in i + 1 .. i + l : b[k] \in Bytes
  BY <1>1
<1>3. i + 1 \in Int /\ i + l \in Int
  OBVIOUS
<1> DEFINE d == SubSeq(b, i + 1, i + l)
<1>4. /\ d \in Buffers
      /\ Len(d) = IF i + 1 <= i + l THEN i + l - (i + 1) + 1 ELSE 0
      /\ \A k \in 1 .. i + l - (i + 1) + 1 : d[k] = b[i + 1 + k - 1]
  BY <1>2, <1>3, SubSeqProperties DEF Buffers
<1> HIDE DEF d
<1>5. \A k \in 1 .. l : i + 1 + k - 1 = i + k
  OBVIOUS
<1>6. i + l - (i + 1) + 1 = l
  OBVIOUS
<1> QED
  BY <1>4, <1>5, <1>6 DEF d

(* What decoding leaves, and how long it can be.                               *)
Rest(b) == SubSeq(b, DecodeStream(b).consumed + 1, Len(b))

LEMMA RestIsShort ==
    ASSUME NEW b \in Buffers
    PROVE  /\ Rest(b) \in Buffers
           /\ Len(Rest(b)) = Len(b) - DecodeStream(b).consumed
           /\ Len(Rest(b)) < MaxDataLength + Around
<1> DEFINE n == Len(b)
           c == DecodeStream(b).consumed
<1>1. n \in Nat /\ c \in 0 .. n
  BY WhatIsKeptWaits DEF Buffers
<1>2. Rest(b) \in Buffers /\ Len(Rest(b)) = n - c
  <2>1. c \in Nat /\ n - c \in Nat /\ c + (n - c) = n /\ c + (n - c) =< Len(b)
    BY <1>1
  <2>2. Rest(b) = SubSeq(b, c + 1, c + (n - c))
    BY <2>1 DEF Rest
  <2>3. \A i, l \in Nat : i + l =< Len(b) =>
          SubSeq(b, i + 1, i + l) \in Buffers /\ Len(SubSeq(b, i + 1, i + l)) = l
    BY Slice
  <2> HIDE DEF c
  <2> QED
    BY <2>1, <2>2, <2>3
<1>3. n - c < MaxDataLength + Around
  <2>1. CASE c >= n - 1
    BY <1>1, <2>1, LengthAssumption DEF Around
  <2>2. CASE Waiting(b, c) /\ Partial(b, c)
    BY <1>1, <2>2, LengthAssumption DEF Partial, Lead, Around
  <2>3. CASE Waiting(b, c) /\ ~Partial(b, c)
    <3>1. LengthAt(b, c) \in Nat
      BY <1>1, <2>3, AtAHeader DEF Waiting
    <3>2. LengthAt(b, c) =< MaxDataLength /\ c + (LengthAt(b, c) + Around) > n
      BY <2>3, <3>1, LengthAssumption DEF Waiting, Impossible, Incomplete, TotalAt
    <3> HIDE DEF c
    <3> QED
      BY <1>1, <3>1, <3>2, LengthAssumption DEF Around
  <2> QED
    BY <2>1, <2>2, <2>3, WhatIsKeptWaits
<1> QED
  BY <1>2, <1>3

(* Where bytes are the same, decode_stream finds the same: t is a window of s, *)
(* c bytes on.                                                                 *)
LEMMA Window ==
    ASSUME NEW s \in Buffers, NEW t \in Buffers, NEW c \in Nat, c + Len(t) =< Len(s),
           \A k \in 1 .. Len(t) : t[k] = s[c + k],
           NEW i \in 0 .. Len(t)
    PROVE  /\ HeaderAt(t, i) => HeaderAt(s, c + i)
           /\ HeaderAt(s, c + i) /\ i + 2 =< Len(t) => HeaderAt(t, i)
           /\ HeaderAt(t, i) /\ ~Partial(t, i) =>
                /\ ~Partial(s, c + i)
                /\ LengthAt(t, i) = LengthAt(s, c + i)
                /\ Impossible(t, i) <=> Impossible(s, c + i)
           /\ Whole(t, i) => /\ Whole(s, c + i)
                             /\ FrameAt(t, i) = FrameAt(s, c + i)
                             /\ c + AfterFrame(t, i) = AfterFrame(s, c + i)
<1> DEFINE n == Len(s)
           m == Len(t)
<1>1. n \in Nat /\ m \in Nat
  BY DEF Buffers
<1>2. HeaderAt(t, i) => HeaderAt(s, c + i)
  <2> SUFFICES ASSUME HeaderAt(t, i) PROVE HeaderAt(s, c + i)
    OBVIOUS
  <2>1. i + 1 \in 1 .. m /\ i + 2 \in 1 .. m
    BY <1>1 DEF HeaderAt
  <2>2. c + (i + 1) = (c + i) + 1 /\ c + (i + 2) = (c + i) + 2
    BY <1>1
  <2>3. t[i + 1] = s[(c + i) + 1] /\ t[i + 2] = s[(c + i) + 2]
    BY <2>1, <2>2
  <2> QED
    BY <1>1, <2>1, <2>3 DEF HeaderAt
<1>3. HeaderAt(s, c + i) /\ i + 2 =< m => HeaderAt(t, i)
  BY <1>1 DEF HeaderAt
<1>4. ASSUME HeaderAt(t, i), ~Partial(t, i)
      PROVE  /\ ~Partial(s, c + i)
             /\ LengthAt(t, i) = LengthAt(s, c + i)
             /\ Impossible(t, i) <=> Impossible(s, c + i)
  <2>1. ~Partial(s, c + i)
    BY <1>1, <1>4 DEF Partial, Lead
  <2>2. LengthAt(t, i) = LengthAt(s, c + i)
    BY <1>1, <1>4 DEF Partial, Lead, LengthAt
  <2> QED
    BY <2>1, <2>2 DEF Impossible
<1>5. ASSUME Whole(t, i)
      PROVE  /\ Whole(s, c + i)
             /\ FrameAt(t, i) = FrameAt(s, c + i)
             /\ c + AfterFrame(t, i) = AfterFrame(s, c + i)
  <2> DEFINE len == LengthAt(t, i)
  <2>1. len \in Nat /\ len = LengthAt(s, c + i)
    BY <1>4, <1>5, AtAHeader DEF Whole
  <2>2. i + (len + Around) =< m
    BY <1>1, <1>5, <2>1 DEF Whole, Incomplete, TotalAt, Around
  <2> HIDE DEF len
  <2>3. DataAt(t, i) = DataAt(s, c + i)
    <3>1. /\ DataAt(t, i) \in Buffers
          /\ Len(DataAt(t, i)) = len
          /\ \A k \in 1 .. len : DataAt(t, i)[k] = t[(i + Lead) + k]
      <4>1. i + Lead \in Nat /\ (i + Lead) + len =< Len(t)
        BY <1>3, <2>1, <2>2 DEF Lead, Around
      <4> QED
        BY <2>1, <4>1, Slice DEF DataAt, len
    <3>2. /\ DataAt(s, c + i) \in Buffers
          /\ Len(DataAt(s, c + i)) = len
          /\ \A k \in 1 .. len : DataAt(s, c + i)[k] = s[((c + i) + Lead) + k]
      <4>1. (c + i) + Lead \in Nat /\ ((c + i) + Lead) + len =< n
        BY <1>1, <2>1, <2>2 DEF Lead, Around
      <4> QED
        BY <2>1, <4>1, Slice DEF DataAt
    <3>3. \A k \in 1 .. len : DataAt(t, i)[k] = DataAt(s, c + i)[k]
      <4> SUFFICES ASSUME NEW k \in 1 .. len PROVE DataAt(t, i)[k] = DataAt(s, c + i)[k]
        OBVIOUS
      <4>1. (i + Lead) + k \in 1 .. m
        BY <1>1, <2>1, <2>2 DEF Lead, Around
      <4>2. c + ((i + Lead) + k) = ((c + i) + Lead) + k
        BY <1>1, <2>1 DEF Lead
      <4> QED
        BY <3>1, <3>2, <4>1, <4>2
    <3> QED
      BY <3>1, <3>2, <3>3, SeqEqual DEF Buffers
  <2>4. CrcAt(t, i) <=> CrcAt(s, c + i)
    <3>1. TotalAt(t, i) = len + Around /\ TotalAt(s, c + i) = len + Around
      BY <2>1 DEF TotalAt, len
    <3>2. i + (len + Around) \in 1 .. m
      BY <1>1, <2>1, <2>2 DEF Around
    <3>3. c + (i + (len + Around)) = (c + i) + (len + Around)
      BY <1>1, <2>1 DEF Around
    <3> QED
      BY <2>3, <3>1, <3>2, <3>3 DEF CrcAt
  <2>5. FrameAt(t, i) = FrameAt(s, c + i)
    BY <2>3, <2>4 DEF FrameAt, CrcAt
  <2>6. c + AfterFrame(t, i) = AfterFrame(s, c + i)
    BY <1>1, <2>1, <2>4 DEF AfterFrame, TotalAt, Around, len
  <2>7. Whole(s, c + i)
    BY <1>1, <1>2, <1>4, <1>5, <2>1, <2>2 DEF Whole, Incomplete, TotalAt, Around
  <2> QED
    BY <2>5, <2>6, <2>7
<1> QED
  BY <1>2, <1>3, <1>4, <1>5

(* Decoding from a position on gives what decoding the bytes from there on     *)
(* gives.                                                                      *)
LEMMA Shifted ==
    ASSUME NEW s \in Buffers, NEW c \in 0 .. Len(s)
    PROVE  LET t == SubSeq(s, c + 1, Len(s))
           IN  Loop(s)[c].frames = Loop(t)[0].frames
<1> DEFINE n == Len(s)
           t == SubSeq(s, c + 1, n)
           m == n - c
<1>1. n \in Nat /\ c \in Nat /\ m \in Nat
  BY DEF Buffers
<1>2. \A i \in 1 .. n : s[i] \in Bytes
  BY ElementOfSeq DEF Buffers
<1>3. t \in Buffers /\ Len(t) = m /\ \A i \in 1 .. m : t[i] = s[c + i]
  <2>1. c + m = n /\ c + m =< Len(s)
    BY <1>1
  <2>2. t = SubSeq(s, c + 1, c + m)
    BY <2>1
  <2> HIDE DEF m, t
  <2> QED
    BY <1>1, <2>1, <2>2, Slice
<1> HIDE DEF t
<1>4. ASSUME NEW i \in 0 .. m
      PROVE  /\ HeaderAt(t, i) <=> HeaderAt(s, c + i)
             /\ Waiting(t, i) <=> Waiting(s, c + i)
             /\ HeaderAt(t, i) /\ ~Partial(t, i) /\ Impossible(t, i) =>
                  ~Partial(s, c + i) /\ Impossible(s, c + i)
             /\ Whole(t, i) => /\ Whole(s, c + i)
                               /\ FrameAt(t, i) = FrameAt(s, c + i)
                               /\ c + AfterFrame(t, i) = AfterFrame(s, c + i)
  <2>0. /\ c \in Nat /\ c + Len(t) =< Len(s)
        /\ \A k \in 1 .. Len(t) : t[k] = s[c + k]
        /\ i \in 0 .. Len(t)
    BY <1>1, <1>3
  <2>1. HeaderAt(t, i) <=> HeaderAt(s, c + i)
    BY <1>1, <1>3 DEF HeaderAt
  <2>2. Partial(t, i) <=> Partial(s, c + i)
    BY <1>1, <1>3 DEF Partial, Lead
  <2>3. ASSUME HeaderAt(t, i), ~Partial(t, i)
        PROVE  /\ Impossible(t, i) <=> Impossible(s, c + i)
               /\ Incomplete(t, i) <=> Incomplete(s, c + i)
    <3>1. LengthAt(t, i) = LengthAt(s, c + i) /\ LengthAt(t, i) \in Nat
      <4>1. LengthAt(t, i) = LengthAt(s, c + i)
        BY <1>3, <2>0, <2>3, Window
      <4> QED
        BY <1>3, <2>0, <2>3, <4>1, AtAHeader
    <3> QED
      BY <1>1, <1>3, <3>1 DEF Impossible, Incomplete, TotalAt, Around
  <2>4. Waiting(t, i) <=> Waiting(s, c + i)
    BY <2>1, <2>2, <2>3 DEF Waiting
  <2>5. Whole(t, i) => /\ Whole(s, c + i)
                       /\ FrameAt(t, i) = FrameAt(s, c + i)
                       /\ c + AfterFrame(t, i) = AfterFrame(s, c + i)
    BY <1>3, <2>0, Window
  <2> QED
    BY <2>1, <2>2, <2>3, <2>4, <2>5
<1> DEFINE S == {i \in 0 .. m : Loop(s)[c + i].frames = Loop(t)[i].frames}
<1>5. ASSUME NEW i \in 0 .. m, \A j \in i + 1 .. m : j \in S
      PROVE  i \in S
  <2>1. c + i \in 0 .. n
    BY <1>1
  <2>2. CASE ~HeaderAt(t, i) /\ i < m
    <3>1. i + 1 \in S /\ c + i < n
      BY <1>1, <1>5, <2>2
    <3>2. Loop(s)[c + i].frames = Loop(s)[c + i + 1].frames
      BY <1>4, <2>1, <2>2, <3>1, Rounds
    <3>3. Loop(t)[i].frames = Loop(t)[i + 1].frames
      BY <1>3, <2>2, Rounds
    <3>4. c + i + 1 = c + (i + 1)
      BY <1>1
    <3> QED
      BY <3>1, <3>2, <3>3, <3>4
  <2>3. CASE ~HeaderAt(t, i) /\ i = m
    <3>1. i >= m - 1 /\ c + i >= n - 1
      BY <1>1, <2>3
    <3>2. Loop(t)[i].frames = <<>>
      BY <1>3, <2>3, <3>1, Rounds
    <3>3. Loop(s)[c + i].frames = <<>>
      BY <1>4, <2>1, <2>3, <3>1, Rounds
    <3> QED
      BY <3>2, <3>3
  <2>4. CASE Waiting(t, i)
    <3>1. Loop(t)[i].frames = <<>>
      BY <1>3, <2>4, Rounds
    <3>2. Loop(s)[c + i].frames = <<>>
      BY <1>4, <2>1, <2>4, Rounds
    <3> QED
      BY <3>1, <3>2
  <2>5. CASE HeaderAt(t, i) /\ ~Partial(t, i) /\ Impossible(t, i)
    <3>1. i + 1 \in S
      BY <1>1, <1>3, <1>5, <2>5, AtAHeader
    <3>2. Loop(s)[c + i].frames = Loop(s)[c + i + 1].frames
      BY <1>4, <2>1, <2>5, Rounds
    <3>3. Loop(t)[i].frames = Loop(t)[i + 1].frames
      BY <1>3, <2>5, Rounds
    <3>4. c + i + 1 = c + (i + 1)
      BY <1>1
    <3> QED
      BY <3>1, <3>2, <3>3, <3>4
  <2>6. CASE Whole(t, i)
    <3>1. AfterFrame(t, i) \in S
      BY <1>3, <1>5, <2>6, AtAHeader DEF Whole
    <3>2. Loop(t)[i].frames = <<FrameAt(t, i)>> \o Loop(t)[AfterFrame(t, i)].frames
      BY <1>3, <2>6, Rounds
    <3>3. Loop(s)[c + i].frames
            = <<FrameAt(s, c + i)>> \o Loop(s)[AfterFrame(s, c + i)].frames
      BY <1>4, <2>1, <2>6, Rounds
    <3> QED
      BY <1>4, <2>6, <3>1, <3>2, <3>3
  <2>7. i < m \/ i = m
    BY <1>1
  <2> QED
    BY <1>3, <2>2, <2>3, <2>4, <2>5, <2>6, <2>7, CasesOfAPosition
<1>6. 0 \in S
  <2>1. \A i \in 0 .. m : i \in S
    <3> HIDE DEF S, m
    <3> QED
      BY <1>1, <1>5, InductionDown
  <2> QED
    BY <1>1, <2>1
<1>7. c + 0 = c
  BY <1>1
<1> QED
  BY <1>6, <1>7 DEF t

(* More bytes change nothing about the frames decoded so far, and go on from   *)
(* what was left: decoding can be cut anywhere.                                *)
THEOREM DecodingGoesOn ==
    ASSUME NEW b \in Buffers, NEW x \in Buffers
    PROVE  DecodeStream(b \o x).frames
             = DecodeStream(b).frames \o DecodeStream(Rest(b) \o x).frames
<1> DEFINE n == Len(b)
           s == b \o x
           T(i) == Trimmed(b, Reached(b, i))
           P(i) == Loop(s)[i].frames = Loop(b)[i].frames \o Loop(s)[T(i)].frames
<1>1. n \in Nat /\ Len(x) \in Nat
  BY DEF Buffers
<1>2. s \in Buffers /\ Len(s) = n + Len(x) /\ \A k \in 1 .. n : s[k] = b[k]
  BY <1>1, ConcatProperties DEF Buffers
<1>3. \A k \in 1 .. Len(x) : s[n + k] = x[k]
  <2>1. \A k \in 1 .. Len(b) + Len(x) : (b \o x)[k] = IF k =< Len(b) THEN b[k] ELSE x[k - Len(b)]
    BY ConcatProperties DEF Buffers
  <2> QED
    BY <1>1, <2>1
<1> HIDE DEF s
<1>4. ASSUME NEW i \in 0 .. n
      PROVE  /\ HeaderAt(b, i) => HeaderAt(s, i)
             /\ HeaderAt(s, i) /\ i + 2 =< n => HeaderAt(b, i)
             /\ HeaderAt(b, i) /\ ~Partial(b, i) /\ Impossible(b, i) =>
                  HeaderAt(s, i) /\ ~Partial(s, i) /\ Impossible(s, i)
             /\ Whole(b, i) => /\ Whole(s, i)
                               /\ FrameAt(b, i) = FrameAt(s, i)
                               /\ AfterFrame(b, i) = AfterFrame(s, i)
  <2>1. 0 \in Nat /\ 0 + Len(b) =< Len(s) /\ \A k \in 1 .. Len(b) : b[k] = s[0 + k]
    BY <1>1, <1>2
  <2>2. /\ HeaderAt(b, i) => HeaderAt(s, 0 + i)
        /\ HeaderAt(s, 0 + i) /\ i + 2 =< Len(b) => HeaderAt(b, i)
        /\ HeaderAt(b, i) /\ ~Partial(b, i) =>
             /\ ~Partial(s, 0 + i)
             /\ LengthAt(b, i) = LengthAt(s, 0 + i)
             /\ Impossible(b, i) <=> Impossible(s, 0 + i)
        /\ Whole(b, i) => /\ Whole(s, 0 + i)
                          /\ FrameAt(b, i) = FrameAt(s, 0 + i)
                          /\ 0 + AfterFrame(b, i) = AfterFrame(s, 0 + i)
    BY <1>2, <2>1, Window
  <2>3. 0 + i = i
    OBVIOUS
  <2>4. Whole(b, i) => 0 + AfterFrame(b, i) = AfterFrame(b, i)
    BY <1>1, AtAHeader DEF Whole
  <2> QED
    BY <2>2, <2>3, <2>4
<1>5. ASSUME NEW i \in 0 .. n
      PROVE  /\ i \in 0 .. Len(s)
             /\ Reached(b, i) \in i .. n
             /\ Reached(b, i) \in 0 .. n
             /\ T(i) \in i .. n
             /\ T(i) \in 0 .. Len(s)
             /\ Loop(s)[i].frames \in Seq(Frame)
             /\ Loop(b)[i].frames \in Seq(Frame)
  <2>1. i \in 0 .. Len(s)
    BY <1>1, <1>2
  <2>2. Reached(b, i) \in i .. n
    BY Rounds
  <2>3. Reached(b, i) \in 0 .. n
    BY <1>1, <2>2
  <2>4. T(i) \in Reached(b, i) .. n
    BY <2>3, TrimmedCases
  <2>5. T(i) \in i .. n /\ T(i) \in 0 .. Len(s)
    BY <1>1, <1>2, <2>2, <2>4
  <2>6. Loop(s)[i].frames \in Seq(Frame) /\ Loop(b)[i].frames \in Seq(Frame)
    BY <1>2, <2>1, Rounds
  <2> QED
    BY <2>1, <2>2, <2>3, <2>5, <2>6
<1>6. ASSUME NEW i \in 0 .. n, Loop(b)[i].frames = <<>>, Loop(s)[i].frames = Loop(s)[T(i)].frames
      PROVE  P(i)
  <2>1. Loop(s)[i].frames \in Seq(Frame)
    BY <1>5
  <2>2. Loop(s)[i].frames = <<>> \o Loop(s)[i].frames
    BY <2>1, ConcatEmptySeq
  <2> QED
    BY <1>6, <2>2
<1> HIDE DEF P
<1>7. ASSUME NEW i \in 0 .. n, \A j \in i + 1 .. n : P(j)
      PROVE  P(i)
  <2>1. CASE ~HeaderAt(b, i) /\ i >= n - 1
    <3>1. Loop(b)[i].frames = <<>> /\ Reached(b, i) = i
      BY <2>1, Rounds
    <3>2. \A j \in i .. n : ~HeaderAt(b, j)
      BY <1>1, <2>1 DEF HeaderAt
    <3>3. ~HeaderAt(b, T(i)) /\ T(i) = IF i < n /\ b[n] = H1 THEN n - 1 ELSE n
      BY <1>5, <3>1, <3>2, TrimmedCases
    <3>4. CASE T(i) = i
      BY <1>6, <3>1, <3>4
    <3>5. CASE T(i) # i
      <4>1. i = n - 1 /\ T(i) = n /\ b[n] # H1
        BY <1>1, <2>1, <3>3, <3>5
      <4>2. ~HeaderAt(s, i)
        BY <1>1, <1>2, <4>1 DEF HeaderAt
      <4>3. i \in 0 .. Len(s) /\ i < Len(s) /\ i + 1 = n
        BY <1>1, <1>2, <4>1
      <4>4. Loop(s)[i].frames = Loop(s)[i + 1].frames
        BY <1>2, <4>2, <4>3, Rounds
      <4> QED
        BY <1>6, <3>1, <4>1, <4>3, <4>4
    <3> QED
      BY <3>4, <3>5
  <2>2. CASE ~HeaderAt(b, i) /\ i < n - 1
    <3>1. i + 1 \in 0 .. n /\ P(i + 1)
      <4>1. i + 1 \in i + 1 .. n /\ i + 1 \in 0 .. n
        BY <1>1, <2>2
      <4> QED
        BY <1>7, <4>1
    <3>2. ~HeaderAt(s, i) /\ i < Len(s)
      BY <1>1, <1>2, <1>4, <2>2
    <3>3. Loop(s)[i].frames = Loop(s)[i + 1].frames
      BY <1>2, <1>5, <3>2, Rounds
    <3>4. Loop(b)[i].frames = Loop(b)[i + 1].frames
      <4>1. i < n
        BY <1>1, <2>2
      <4> QED
        BY <2>2, <4>1, Rounds
    <3>5. T(i) = T(i + 1)
      <4>1. Reached(b, i + 1) = IF Reached(b, i) = i THEN i + 1 ELSE Reached(b, i)
        BY <2>2, Rounds
      <4>2. CASE Reached(b, i) # i
        BY <4>1, <4>2
      <4>3. CASE Reached(b, i) = i
        <5> DEFINE t == Trimmed(b, i)
                   u == Trimmed(b, i + 1)
        <5>1. i < n /\ i + 1 < n /\ i + 1 \in 0 .. n
          BY <1>1, <2>2
        <5>2. /\ t \in i .. n
              /\ \A j \in i .. t - 1 : ~HeaderAt(b, j)
              /\ HeaderAt(b, t) \/
                   /\ \A j \in i .. n : ~HeaderAt(b, j)
                   /\ t = IF i < n /\ b[n] = H1 THEN n - 1 ELSE n
          BY TrimmedCases
        <5>3. /\ u \in i + 1 .. n
              /\ \A j \in i + 1 .. u - 1 : ~HeaderAt(b, j)
              /\ HeaderAt(b, u) \/
                   /\ \A j \in i + 1 .. n : ~HeaderAt(b, j)
                   /\ u = IF i + 1 < n /\ b[n] = H1 THEN n - 1 ELSE n
          BY <5>1, TrimmedCases
        <5> HIDE DEF t, u
        <5>4. t = u
          BY <1>1, <2>2, <5>1, <5>2, <5>3
        <5> QED
          BY <4>1, <4>3, <5>4 DEF t, u
      <4> QED
        BY <4>2, <4>3
    <3> QED
      BY <3>1, <3>3, <3>4, <3>5 DEF P
  <2>3. CASE Waiting(b, i)
    <3>1. Loop(b)[i].frames = <<>> /\ Reached(b, i) = i
      BY <2>3, Rounds
    <3>2. T(i) = i
      <4>1. T(i) \in i .. n /\ \A j \in i .. T(i) - 1 : ~HeaderAt(b, j)
        BY <1>5, <3>1, TrimmedCases
      <4> QED
        BY <1>1, <2>3, <4>1 DEF Waiting
    <3> QED
      BY <1>6, <3>1, <3>2
  <2>4. CASE HeaderAt(b, i) /\ ~Partial(b, i) /\ Impossible(b, i)
    <3>1. P(i + 1)
      <4>1. i + 1 \in i + 1 .. n
        BY <1>1, <2>4, AtAHeader
      <4> QED
        BY <1>7, <4>1
    <3>2. Loop(s)[i].frames = Loop(s)[i + 1].frames
      BY <1>2, <1>4, <1>5, <2>4, Rounds
    <3>3. Loop(b)[i].frames = Loop(b)[i + 1].frames /\ Reached(b, i) = Reached(b, i + 1)
      BY <2>4, Rounds
    <3> QED
      BY <3>1, <3>2, <3>3 DEF P
  <2>5. CASE Whole(b, i)
    <3> DEFINE next == AfterFrame(b, i)
               f == FrameAt(b, i)
    <3>1. next \in 0 .. n /\ P(next) /\ f \in Frame
      <4>1. next \in i + 1 .. n /\ f \in Frame
        BY <2>5, AtAHeader DEF Whole, Frame
      <4> QED
        BY <1>1, <1>7, <4>1
    <3>2. Loop(s)[i].frames = <<f>> \o Loop(s)[next].frames
      <4>1. Whole(s, i) /\ FrameAt(s, i) = f /\ AfterFrame(s, i) = next /\ i \in 0 .. Len(s)
        BY <1>4, <1>5, <2>5
      <4>2. Loop(s)[i].frames = <<FrameAt(s, i)>> \o Loop(s)[AfterFrame(s, i)].frames
        BY <1>2, <4>1, Rounds
      <4> QED
        BY <4>1, <4>2
    <3>3. Loop(b)[i].frames = <<f>> \o Loop(b)[next].frames /\ Reached(b, i) = Reached(b, next)
      BY <2>5, Rounds
    <3> HIDE DEF next, f
    <3>4. Loop(s)[next].frames = Loop(b)[next].frames \o Loop(s)[T(i)].frames
      BY <3>1, <3>3 DEF P
    <3>5. /\ <<f>> \in Seq(Frame)
          /\ Loop(b)[next].frames \in Seq(Frame)
          /\ Loop(s)[T(i)].frames \in Seq(Frame)
      <4>1. <<f>> \in Seq(Frame) /\ Loop(b)[next].frames \in Seq(Frame)
        BY <1>5, <3>1
      <4>2. Loop(s)[T(i)].frames \in Seq(Frame)
        BY <1>2, <1>5, Rounds
      <4> QED
        BY <4>1, <4>2
    <3>6. (<<f>> \o Loop(b)[next].frames) \o Loop(s)[T(i)].frames
            = <<f>> \o (Loop(b)[next].frames \o Loop(s)[T(i)].frames)
      <4>1. \A u, v, w \in Seq(Frame) : (u \o v) \o w = u \o (v \o w)
        BY ConcatAssociative
      <4> HIDE DEF T
      <4> QED
        BY <3>5, <4>1
    <3> QED
      BY <3>2, <3>3, <3>4, <3>6 DEF P
  <2>6. i >= n - 1 \/ i < n - 1
    BY <1>1
  <2> QED
    BY <2>1, <2>2, <2>3, <2>4, <2>5, <2>6, CasesOfAPosition
<1>8. P(0)
  <2> DEFINE S == {i \in 0 .. n : P(i)}
  <2>1. \A i \in 0 .. n : (\A j \in i + 1 .. n : j \in S) => i \in S
    BY <1>1, <1>7
  <2>2. \A i \in 0 .. n : i \in S
    <3> HIDE DEF S
    <3> QED
      BY <1>1, <2>1, InductionDown
  <2> QED
    BY <1>1, <2>2
<1> DEFINE c == T(0)
<1>9. /\ DecodeStream(s).frames = Loop(s)[0].frames
      /\ DecodeStream(b).frames = Loop(b)[0].frames
      /\ DecodeStream(b).consumed = c
      /\ c \in 0 .. n
  <2>1. 0 \in 0 .. n
    BY <1>1
  <2>2. Reached(b, 0) = Loop(b)[0].consumed
    BY <1>1, <2>1, LoopTyped DEF Reached
  <2> QED
    BY <1>5, <2>1, <2>2 DEF DecodeStream
<1> HIDE DEF c
<1>10. SubSeq(s, c + 1, Len(s)) = Rest(b) \o x
  <2> DEFINE r == Rest(b)
             t == SubSeq(s, c + 1, Len(s))
  <2>1. r \in Buffers /\ Len(r) = n - c /\ \A k \in 1 .. n - c : r[k] = b[c + k]
    <3>1. c + (n - c) = n /\ n - c \in Nat /\ c \in Nat /\ c + (n - c) =< Len(b)
      BY <1>1, <1>9
    <3>2. r = SubSeq(b, c + 1, c + (n - c))
      BY <1>9, <3>1 DEF Rest
    <3> HIDE DEF r
    <3> QED
      BY <3>1, <3>2, Slice
  <2>2. t \in Buffers /\ Len(t) = Len(s) - c /\ \A k \in 1 .. Len(s) - c : t[k] = s[c + k]
    <3>1. /\ c + (Len(s) - c) = Len(s) /\ Len(s) - c \in Nat /\ c \in Nat
          /\ c + (Len(s) - c) =< Len(s)
      BY <1>1, <1>2, <1>9
    <3>2. t = SubSeq(s, c + 1, c + (Len(s) - c))
      BY <3>1
    <3> HIDE DEF t
    <3> QED
      BY <1>2, <3>1, <3>2, Slice
  <2> HIDE DEF r, t
  <2>3. /\ r \o x \in Buffers /\ Len(r \o x) = (n - c) + Len(x)
        /\ \A k \in 1 .. (n - c) + Len(x) : (r \o x)[k] = IF k =< n - c THEN r[k] ELSE x[k - (n - c)]
    BY <2>1, ConcatProperties DEF Buffers
  <2>4. Len(t) = Len(r \o x)
    BY <1>1, <1>2, <1>9, <2>2, <2>3
  <2>5. ASSUME NEW k \in 1 .. Len(t) PROVE t[k] = (r \o x)[k]
    <3>1. CASE k =< n - c
      <4>1. k \in 1 .. n - c /\ c + k \in 1 .. n
        BY <1>1, <1>2, <1>9, <2>2, <3>1
      <4>2. t[k] = s[c + k] /\ s[c + k] = b[c + k] /\ r[k] = b[c + k]
        BY <1>2, <2>1, <2>2, <4>1
      <4> QED
        BY <2>3, <2>4, <3>1, <4>2
    <3>2. CASE k > n - c
      <4>1. k - (n - c) \in 1 .. Len(x) /\ c + k = n + (k - (n - c))
        BY <1>1, <1>2, <1>9, <2>2, <3>2
      <4>2. t[k] = s[c + k] /\ s[c + k] = x[k - (n - c)]
        BY <1>3, <2>2, <4>1
      <4>3. ~(k =< n - c) /\ k \in 1 .. (n - c) + Len(x)
        BY <1>1, <1>9, <2>3, <2>4, <3>2
      <4> QED
        BY <2>3, <4>2, <4>3
    <3>3. k =< n - c \/ k > n - c
      BY <1>1, <1>2, <1>9, <2>2
    <3> QED
      BY <3>1, <3>2, <3>3
  <2> QED
    BY <2>2, <2>3, <2>4, <2>5, SeqEqual DEF Buffers, r, t
<1>11. Loop(s)[c].frames = DecodeStream(Rest(b) \o x).frames
  <2>1. c \in 0 .. Len(s)
    BY <1>1, <1>2, <1>9
  <2>2. Loop(s)[c].frames = Loop(SubSeq(s, c + 1, Len(s)))[0].frames
    BY <1>2, <2>1, Shifted
  <2> QED
    BY <1>10, <2>2 DEF DecodeStream
<1> QED
  BY <1>8, <1>9, <1>11 DEF s, c, P

(* Decoding nothing finds nothing.                                             *)
LEMMA NothingInNothing == <<>> \in Buffers /\ DecodeStream(<<>>).frames = <<>>
<1>1. <<>> \in Buffers /\ Len(<<>>) = 0
  BY EmptySeq DEF Buffers
<1>2. ~HeaderAt(<<>>, 0) /\ 0 \in 0 .. Len(<<>>) /\ 0 >= Len(<<>>) - 1
  BY <1>1 DEF HeaderAt
<1> QED
  BY <1>1, <1>2, LoopCases DEF DecodeStream, Nothing

(* The frames of a buffer are frames, and what it leaves holds none.           *)
LEMMA NothingInTheRest ==
    ASSUME NEW b \in Buffers
    PROVE  /\ DecodeStream(b).frames \in Seq(Frame)
           /\ DecodeStream(Rest(b)).frames = <<>>
<1>1. \A d \in Buffers : DecodeStream(d).frames \in Seq(Frame)
  <2> SUFFICES ASSUME NEW d \in Buffers PROVE DecodeStream(d).frames \in Seq(Frame)
    OBVIOUS
  <2>1. 0 \in 0 .. Len(d)
    BY DEF Buffers
  <2> QED
    BY <2>1, LoopTyped DEF DecodeStream
<1>2. <<>> \in Buffers /\ Rest(b) \in Buffers
  BY NothingInNothing, RestIsShort
<1>3. b \o <<>> = b /\ Rest(b) \o <<>> = Rest(b)
  BY <1>2, ConcatEmptySeq DEF Buffers
<1>4. DecodeStream(b).frames = DecodeStream(b).frames \o DecodeStream(Rest(b)).frames
  <2>1. DecodeStream(b \o <<>>).frames
          = DecodeStream(b).frames \o DecodeStream(Rest(b) \o <<>>).frames
    BY <1>2, DecodingGoesOn
  <2> QED
    BY <1>3, <2>1
<1>5. \A u, v \in Seq(Frame) : u = u \o v => v = <<>>
  BY ConcatEqualIffEmpty
<1> QED
  BY <1>1, <1>2, <1>4, <1>5

\* A notification is a piece of a stream.
LEMMA PayloadsAreBuffers ==
    ASSUME NEW payload \in Payloads
    PROVE  payload \in Buffers
BY LengthAssumption DEF Payloads, Buffers

(* The invariant of the stream: the buffer holds no frame, and whatever comes  *)
(* next is decoded behind it as it would be behind all that has been received. *)
StreamInv ==
    /\ received \in Buffers /\ buffer \in Buffers /\ frames \in Seq(Frame)
    /\ BufferIsBounded
    /\ DecodeStream(buffer).frames = <<>>
    /\ \A x \in Buffers :
         DecodeStream(received \o x).frames = frames \o DecodeStream(buffer \o x).frames

\* Nothing received leaves nothing decoded, at the start and after a reconnect.
LEMMA StreamStarts ==
    ASSUME received = <<>>, buffer = <<>>, frames = <<>>
    PROVE  StreamInv
<1>1. <<>> \in Buffers /\ <<>> \in Seq(Frame) /\ DecodeStream(<<>>).frames = <<>>
  BY NothingInNothing
<1>2. Len(buffer) < MaxDataLength + Around
  BY LengthAssumption DEF Around
<1>3. ASSUME NEW x \in Buffers
      PROVE  DecodeStream(received \o x).frames = frames \o DecodeStream(buffer \o x).frames
  <2>1. received \o x = x /\ buffer \o x = x
    BY ConcatEmptySeq DEF Buffers
  <2>2. DecodeStream(x).frames \in Seq(Frame)
    BY NothingInTheRest
  <2>3. <<>> \o DecodeStream(x).frames = DecodeStream(x).frames
    BY <2>2, ConcatEmptySeq
  <2> QED
    BY <2>1, <2>3
<1> QED
  BY <1>1, <1>2, <1>3 DEF StreamInv, BufferIsBounded

\* A notification: what is left of the buffer is short enough to be kept.
LEMMA BytesKeep ==
    ASSUME StreamInv, NEW payload \in Payloads, OnBytes(payload)
    PROVE  StreamInv'
<1> DEFINE b == buffer \o payload
<1>1. /\ received \in Buffers /\ buffer \in Buffers /\ frames \in Seq(Frame)
      /\ payload \in Buffers
  BY PayloadsAreBuffers DEF StreamInv
<1>2. b \in Buffers /\ received \o payload \in Buffers
  BY <1>1, ConcatProperties DEF Buffers
<1> HIDE DEF b
<1>3. /\ Rest(b) \in Buffers
      /\ Len(Rest(b)) \in Nat
      /\ Len(Rest(b)) < MaxDataLength + Around
      /\ DecodeStream(b).frames \in Seq(Frame)
      /\ DecodeStream(Rest(b)).frames = <<>>
  BY <1>2, RestIsShort, NothingInTheRest DEF Buffers
<1>4. ~(Len(Rest(b)) > MaxBuffer)
  BY <1>3, LengthAssumption, BufferAssumption DEF Around
<1>5. /\ received' = received \o payload
      /\ frames' = frames \o DecodeStream(b).frames
      /\ buffer' = Rest(b)
  <2>1. ~(Len(SubSeq(b, DecodeStream(b).consumed + 1, Len(b))) > MaxBuffer)
    BY <1>4 DEF Rest
  <2> QED
    BY <2>1 DEF OnBytes, Rest, b
<1>6. frames' \in Seq(Frame)
  BY <1>1, <1>3, <1>5, ConcatProperties
<1>7. ASSUME NEW x \in Buffers
      PROVE  DecodeStream(received' \o x).frames = frames' \o DecodeStream(buffer' \o x).frames
  <2>1. payload \o x \in Buffers /\ Rest(b) \o x \in Buffers
    BY <1>1, <1>3, ConcatProperties DEF Buffers
  <2>2. /\ received' \o x = received \o (payload \o x)
        /\ b \o x = buffer \o (payload \o x)
    <3>1. \A u, v, w \in Buffers : (u \o v) \o w = u \o (v \o w)
      BY ConcatAssociative DEF Buffers
    <3> QED
      BY <1>1, <1>5, <3>1 DEF b
  <2>3. DecodeStream(received' \o x).frames = frames \o DecodeStream(b \o x).frames
    BY <2>1, <2>2 DEF StreamInv
  <2>4. DecodeStream(b \o x).frames
          = DecodeStream(b).frames \o DecodeStream(Rest(b) \o x).frames
    BY <1>2, DecodingGoesOn
  <2>5. DecodeStream(Rest(b) \o x).frames \in Seq(Frame)
    BY <2>1, NothingInTheRest
  <2>6. \A u, v, w \in Seq(Frame) : (u \o v) \o w = u \o (v \o w)
    BY ConcatAssociative
  <2>7. (frames \o DecodeStream(b).frames) \o DecodeStream(Rest(b) \o x).frames
          = frames \o (DecodeStream(b).frames \o DecodeStream(Rest(b) \o x).frames)
    BY <1>1, <1>3, <2>5, <2>6
  <2> QED
    BY <1>5, <2>3, <2>4, <2>7
<1> QED
  BY <1>2, <1>3, <1>5, <1>6, <1>7 DEF StreamInv, BufferIsBounded

\* The invariant holds, and says what the run checks.
LEMMA StreamInvariant == StreamSpec => []StreamInv
<1>1. StreamInit => StreamInv
  BY StreamStarts DEF StreamInit
<1>2. StreamInv /\ [StreamNext]_streamVars => StreamInv'
  <2> SUFFICES ASSUME StreamInv, [StreamNext]_streamVars PROVE StreamInv'
    OBVIOUS
  <2>1. ASSUME NEW payload \in Payloads, OnBytes(payload) PROVE StreamInv'
    BY <2>1, BytesKeep
  <2>2. CASE Reconnect
    <3>1. received' = <<>> /\ buffer' = <<>> /\ frames' = <<>>
      BY <2>2 DEF Reconnect
    <3>2. (received = <<>> /\ buffer = <<>> /\ frames = <<>> => StreamInv)'
      BY StreamStarts, PTL
    <3> QED
      BY <3>1, <3>2
  <2>3. CASE UNCHANGED streamVars
    BY <2>3 DEF streamVars, StreamInv, BufferIsBounded
  <2> QED
    BY <2>1, <2>2, <2>3 DEF StreamNext
<1> QED
  BY <1>1, <1>2, PTL DEF StreamSpec

\* What holds of the stream as a whole follows.
LEMMA StreamInvCuts ==
    ASSUME StreamInv
    PROVE  CutsAreInvisible /\ BufferIsBounded
<1>1. /\ received \in Buffers /\ buffer \in Buffers /\ frames \in Seq(Frame)
      /\ <<>> \in Buffers
  BY NothingInNothing DEF StreamInv
<1>2. received \o <<>> = received /\ buffer \o <<>> = buffer /\ frames \o <<>> = frames
  BY <1>1, ConcatEmptySeq DEF Buffers
<1>3. DecodeStream(received \o <<>>).frames = frames \o DecodeStream(buffer \o <<>>).frames
  BY <1>1 DEF StreamInv
<1> QED
  BY <1>2, <1>3 DEF StreamInv, CutsAreInvisible

(* However the radio cuts a stream of any bytes into notifications, _on_notify *)
(* handles the frames that the stream has when it comes in one piece (ble.py,  *)
(* _on_notify; protocol.py, decode_stream).                                    *)
THEOREM CutsStayInvisible == StreamSpec => []CutsAreInvisible
BY StreamInvariant, StreamInvCuts, PTL

(* The buffer stays shorter than the longest frame, whatever is received, and  *)
(* is never thrown away for its length.                                        *)
THEOREM BufferStaysBounded == StreamSpec => []BufferIsBounded
BY StreamInvariant, StreamInvCuts, PTL

-----------------------------------------------------------------------------
(* FrameStream: which frames are found *)

(* Whether a frame counts depends on what is before it only.                   *)
LEMMA CountsLooksBack ==
    ASSUME NEW s \in Buffers, NEW i \in 0 .. Len(s), NEW f, NEW g,
           \A j \in 0 .. i - 1 : f[j] = g[j]
    PROVE  CountsAt(s, f, i) = CountsAt(s, g, i)
<1>1. \A j \in 0 .. i - 1 : 0 .. j - 1 \subseteq 0 .. i - 1
  OBVIOUS
<1> QED
  BY <1>1 DEF CountsAt

(* So there is a function that the recursive definition of Counts describes.   *)
LEMMA CountingEquation ==
    ASSUME NEW s \in Buffers
    PROVE  Counting(s) = [i \in 0 .. Len(s) |-> CountsAt(s, Counting(s), i)]
<1> DEFINE n == Len(s)
           Upto(k, f) == f = [i \in 0 .. k |-> CountsAt(s, f, i)]
           S == {k \in Nat : k =< n => \E f : Upto(k, f)}
<1>0. n \in Nat
  BY DEF Buffers
<1>1. 0 \in S
  <2> DEFINE f == [i \in 0 .. 0 |-> CountsAt(s, <<>>, i)]
  <2>1. \A i \in 0 .. 0 : CountsAt(s, f, i) = CountsAt(s, <<>>, i)
    <3> HIDE DEF f
    <3> TAKE i \in 0 .. 0
    <3>1. i \in 0 .. n /\ \A j \in 0 .. i - 1 : f[j] = <<>>[j]
      BY <1>0
    <3> QED
      BY <3>1, CountsLooksBack
  <2>2. Upto(0, f)
    BY <2>1
  <2> HIDE DEF f
  <2> QED
    BY <2>2
<1>2. ASSUME NEW k \in Nat, k \in S PROVE k + 1 \in S
  <2> SUFFICES ASSUME k + 1 =< n PROVE \E g : Upto(k + 1, g)
    OBVIOUS
  <2>1. PICK f : Upto(k, f)
    BY <1>0, <1>2
  <2> DEFINE g == [i \in 0 .. k + 1 |-> IF i = k + 1 THEN CountsAt(s, f, i) ELSE f[i]]
  <2>2. \A i \in 0 .. k : g[i] = f[i]
    BY <1>0
  <2>3. \A i \in 0 .. k + 1 : CountsAt(s, g, i) = CountsAt(s, f, i)
    <3> HIDE DEF g
    <3> TAKE i \in 0 .. k + 1
    <3>1. \A j \in 0 .. i - 1 : g[j] = f[j]
      BY <1>0, <2>2
    <3>2. i \in 0 .. n
      BY <1>0
    <3> QED
      BY <3>1, <3>2, CountsLooksBack
  <2>4. \A i \in 0 .. k : f[i] = CountsAt(s, f, i)
    BY <2>1
  <2>5. \A i \in 0 .. k + 1 : g[i] = CountsAt(s, f, i)
    BY <1>0, <2>4
  <2>6. Upto(k + 1, g)
    BY <2>3, <2>5
  <2> HIDE DEF g
  <2> QED
    BY <2>6
<1>3. n \in S
  <2> HIDE DEF S
  <2> QED
    BY <1>0, <1>1, <1>2, Induction
<1>4. \E f : f = [i \in 0 .. n |-> CountsAt(s, f, i)]
  BY <1>0, <1>3
<1>5. Counting(s) = CHOOSE f : f = [i \in 0 .. n |-> CountsAt(s, f, i)]
  BY DEF Counting
<1> QED
  BY <1>4, <1>5

(* Which frames count.                                                         *)
LEMMA CountsCases ==
    ASSUME NEW s \in Buffers, NEW i \in 0 .. Len(s)
    PROVE  i \in Counts(s) <=>
             /\ Good(s, i)
             /\ \A j \in 0 .. i - 1 : j \in Counts(s) => ~Inside(s, i, j)
             /\ \A j \in 0 .. i - 1 :
                  Waiting(s, j) => \E k \in 0 .. j - 1 : k \in Counts(s) /\ Inside(s, j, k)
<1>1. Len(s) \in Nat
  BY DEF Buffers
<1>2. \A j \in 0 .. Len(s) : j \in Counts(s) <=> Counting(s)[j]
  BY DEF Counts
<1>3. Counting(s)[i] <=> CountsAt(s, Counting(s), i)
  <2>1. Counting(s)[i] = CountsAt(s, Counting(s), i)
    BY CountingEquation
  <2> QED
    BY <2>1
<1>4. \A j \in 0 .. i - 1 : j \in 0 .. Len(s) /\ 0 .. j - 1 \subseteq 0 .. Len(s)
  BY <1>1
<1> QED
  BY <1>2, <1>3, <1>4 DEF CountsAt

(* No frame that counts reaches over position i, and no header before it still *)
(* waits, but for those inside frames that count.                              *)
Clear(s, i) ==
    /\ \A j \in 0 .. i - 1 : j \in Counts(s) => j + TotalAt(s, j) =< i
    /\ \A j \in 0 .. i - 1 :
         Waiting(s, j) => \E k \in 0 .. j - 1 : k \in Counts(s) /\ Inside(s, j, k)

(* `found' are the frames that the stream has from position i on: in order,    *)
(* where they are, and the good ones those that count.                         *)
Found(s, found, i) ==
    \E place \in [1 .. Len(found) -> {h \in i .. Len(s) : Whole(s, h)}] :
        /\ \A m, k \in 1 .. Len(found) : m < k => place[m] < place[k]
        /\ \A m \in 1 .. Len(found) : found[m] = FrameAt(s, place[m])
        /\ \A h \in i .. Len(s) :
             h \in Counts(s) <=> \E m \in 1 .. Len(found) : found[m].ok /\ place[m] = h

\* Where nothing begins that counts or waits, the next position is as clear.
LEMMA ClearNext ==
    ASSUME NEW s \in Buffers, NEW i \in 0 .. Len(s), i < Len(s), Clear(s, i),
           ~Waiting(s, i), i \notin Counts(s)
    PROVE  Clear(s, i + 1)
<1>1. Len(s) \in Nat
  BY DEF Buffers
<1>2. \A j \in 0 .. i + 1 - 1 : j \in 0 .. i - 1 \/ j = i
  BY <1>1
<1>3. \A j \in 0 .. i - 1 : j \in Counts(s) => TotalAt(s, j) \in Nat
  <2> SUFFICES ASSUME NEW j \in 0 .. i - 1, j \in Counts(s) PROVE TotalAt(s, j) \in Nat
    OBVIOUS
  <2>1. j \in 0 .. Len(s)
    BY <1>1
  <2>2. HeaderAt(s, j) /\ ~Partial(s, j)
    BY <2>1, CountsCases DEF Good, Whole
  <2> QED
    BY <2>1, <2>2, AtAHeader
<1>4. \A j \in 0 .. i + 1 - 1 : j \in Counts(s) => j + TotalAt(s, j) =< i + 1
  BY <1>1, <1>2, <1>3 DEF Clear
<1>5. \A j \in 0 .. i + 1 - 1 :
         Waiting(s, j) => \E k \in 0 .. j - 1 : k \in Counts(s) /\ Inside(s, j, k)
  BY <1>2 DEF Clear
<1> QED
  BY <1>4, <1>5 DEF Clear

\* A good frame in a clear place counts, nothing inside it does, and behind it it is
\* clear again.
LEMMA GoodFrameCounts ==
    ASSUME NEW s \in Buffers, NEW i \in 0 .. Len(s), Clear(s, i), Good(s, i)
    PROVE  /\ i \in Counts(s)
           /\ \A h \in i + 1 .. AfterFrame(s, i) - 1 : h \notin Counts(s)
           /\ Clear(s, AfterFrame(s, i))
<1> DEFINE next == AfterFrame(s, i)
<1>1. Len(s) \in Nat
  BY DEF Buffers
<1>2. next \in i + 1 .. Len(s) /\ TotalAt(s, i) \in Nat /\ next = i + TotalAt(s, i)
  <2>1. next \in i + 1 .. Len(s) /\ TotalAt(s, i) \in Nat
    BY AtAHeader DEF Good, Whole
  <2> QED
    BY <2>1 DEF Good, AfterFrame
<1> HIDE DEF next
<1>3. ASSUME NEW j \in 0 .. Len(s), j \in Counts(s)
      PROVE  TotalAt(s, j) \in Nat
  <2>1. HeaderAt(s, j) /\ ~Partial(s, j)
    BY <1>3, CountsCases DEF Good, Whole
  <2> QED
    BY <2>1, AtAHeader
<1>4. i \in Counts(s)
  <2>1. \A j \in 0 .. i - 1 : j \in Counts(s) => ~Inside(s, i, j)
    <3> SUFFICES ASSUME NEW j \in 0 .. i - 1, j \in Counts(s) PROVE ~Inside(s, i, j)
      OBVIOUS
    <3>1. j \in 0 .. Len(s) /\ j + TotalAt(s, j) =< i
      BY <1>1 DEF Clear
    <3>2. TotalAt(s, j) \in Nat
      BY <1>3, <3>1
    <3> QED
      BY <3>1, <3>2 DEF Inside
  <2> QED
    BY <2>1, CountsCases DEF Clear
<1>5. ASSUME NEW h \in i + 1 .. next - 1
      PROVE  /\ h \in 0 .. Len(s) /\ i \in 0 .. h - 1
             /\ Inside(s, h, i)
             /\ h \notin Counts(s)
  <2>1. h \in 0 .. Len(s) /\ i \in 0 .. h - 1
    BY <1>1, <1>2
  <2>2. Inside(s, h, i)
    BY <1>1, <1>2, <2>1 DEF Inside
  <2> QED
    BY <1>4, <2>1, <2>2, CountsCases
<1>6. Clear(s, next)
  <2>1. \A j \in 0 .. next - 1 : j \in 0 .. i - 1 \/ j = i \/ j \in i + 1 .. next - 1
    BY <1>1, <1>2
  <2>2. ASSUME NEW j \in 0 .. next - 1, j \in Counts(s)
        PROVE  j + TotalAt(s, j) =< next
    <3>1. CASE j \in 0 .. i - 1
      <4>1. j + TotalAt(s, j) =< i /\ TotalAt(s, j) \in Nat
        <5>1. j \in 0 .. Len(s)
          BY <1>1, <1>2
        <5> QED
          BY <1>3, <2>2, <3>1, <5>1 DEF Clear
      <4> QED
        BY <1>1, <1>2, <4>1
    <3>2. CASE j = i
      BY <1>2, <3>2
    <3>3. CASE j \in i + 1 .. next - 1
      BY <1>5, <2>2, <3>3
    <3> QED
      BY <2>1, <3>1, <3>2, <3>3
  <2>3. ASSUME NEW j \in 0 .. next - 1, Waiting(s, j)
        PROVE  \E k \in 0 .. j - 1 : k \in Counts(s) /\ Inside(s, j, k)
    <3>1. CASE j \in 0 .. i - 1
      BY <2>3, <3>1 DEF Clear
    <3>2. CASE j = i
      BY <2>3, <3>2 DEF Waiting, Good, Whole
    <3>3. CASE j \in i + 1 .. next - 1
      BY <1>4, <1>5, <3>3
    <3> QED
      BY <2>1, <3>1, <3>2, <3>3
  <2> QED
    BY <2>2, <2>3 DEF Clear
<1> QED
  BY <1>4, <1>5, <1>6 DEF next

\* No frame found means that none counts.
LEMMA NothingFound ==
    ASSUME NEW s \in Buffers, NEW i \in 0 .. Len(s),
           \A h \in i .. Len(s) : h \notin Counts(s)
    PROVE  Found(s, <<>>, i)
<1>1. Len(<<>>) = 0
  OBVIOUS
<1> DEFINE W == {h \in i .. Len(s) : Whole(s, h)}
           place == [m \in 1 .. 0 |-> i]
<1>2. place \in [1 .. Len(<<>>) -> W]
  BY <1>1
<1>3. 1 .. Len(<<>>) = {}
  BY <1>1
<1> HIDE DEF place
<1> QED
  BY <1>2, <1>3 DEF Found

\* A position that begins no frame adds nothing.
LEMMA FoundFurther ==
    ASSUME NEW s \in Buffers, NEW i \in 0 .. Len(s), i < Len(s), i \notin Counts(s),
           NEW found, Found(s, found, i + 1)
    PROVE  Found(s, found, i)
<1>1. Len(s) \in Nat
  BY DEF Buffers
<1> DEFINE W(k) == {h \in k .. Len(s) : Whole(s, h)}
<1>2. PICK place \in [1 .. Len(found) -> W(i + 1)] :
        /\ \A m, k \in 1 .. Len(found) : m < k => place[m] < place[k]
        /\ \A m \in 1 .. Len(found) : found[m] = FrameAt(s, place[m])
        /\ \A h \in i + 1 .. Len(s) :
             h \in Counts(s) <=> \E m \in 1 .. Len(found) : found[m].ok /\ place[m] = h
  BY DEF Found
<1>3. W(i + 1) \subseteq W(i) /\ \A h \in W(i + 1) : h # i
  BY <1>1
<1>4. place \in [1 .. Len(found) -> W(i)] /\ \A m \in 1 .. Len(found) : place[m] # i
  <2> HIDE DEF W
  <2> QED
    BY <1>3
<1>5. \A h \in i .. Len(s) : h = i \/ h \in i + 1 .. Len(s)
  BY <1>1
<1>6. \A h \in i .. Len(s) :
        h \in Counts(s) <=> \E m \in 1 .. Len(found) : found[m].ok /\ place[m] = h
  BY <1>2, <1>4, <1>5
<1> QED
  BY <1>2, <1>4, <1>6 DEF Found

\* A frame at position i comes before those found behind it.
LEMMA FoundOneMore ==
    ASSUME NEW s \in Buffers, NEW i \in 0 .. Len(s), Whole(s, i),
           NEW next \in i + 1 .. Len(s),
           \A h \in i + 1 .. next - 1 : h \notin Counts(s),
           i \in Counts(s) <=> CrcAt(s, i),
           NEW found \in Seq(Frame), Found(s, found, next)
    PROVE  Found(s, <<FrameAt(s, i)>> \o found, i)
<1> DEFINE f == FrameAt(s, i)
           all == <<f>> \o found
           l == Len(found)
           W(k) == {h \in k .. Len(s) : Whole(s, h)}
<1>1. Len(s) \in Nat /\ l \in Nat /\ f \in Frame
  BY AtAHeader DEF Buffers, Whole, Frame
<1>2. f.ok <=> CrcAt(s, i)
  BY DEF FrameAt, CrcAt
<1>3. PICK place \in [1 .. l -> W(next)] :
        /\ \A m, k \in 1 .. l : m < k => place[m] < place[k]
        /\ \A m \in 1 .. l : found[m] = FrameAt(s, place[m])
        /\ \A h \in next .. Len(s) :
             h \in Counts(s) <=> \E m \in 1 .. l : found[m].ok /\ place[m] = h
  BY DEF Found
<1> HIDE DEF f
<1>4. Len(all) = l + 1 /\ all[1] = f /\ \A m \in 2 .. l + 1 : all[m] = found[m - 1]
  BY <1>1
<1> DEFINE new == [m \in 1 .. l + 1 |-> IF m = 1 THEN i ELSE place[m - 1]]
<1>5. /\ new[1] = i
      /\ \A m \in 2 .. l + 1 : m - 1 \in 1 .. l /\ new[m] = place[m - 1]
  BY <1>1
<1>6. \A h \in W(next) : h \in W(i) /\ h \in next .. Len(s) /\ h > i
  BY <1>1
<1>7. i \in W(i)
  BY <1>1
<1>8. \A m \in 1 .. l : place[m] \in W(i) /\ place[m] \in next .. Len(s) /\ place[m] > i
  <2>1. \A m \in 1 .. l : place[m] \in W(next)
    OBVIOUS
  <2> HIDE DEF W
  <2> QED
    BY <1>6, <2>1
<1>9. new \in [1 .. Len(all) -> W(i)]
  <2> HIDE DEF W, all
  <2> QED
    BY <1>1, <1>4, <1>7, <1>8
<1> HIDE DEF new, all, l, W
<1>10. \A m, k \in 1 .. Len(all) : m < k => new[m] < new[k]
  <2> SUFFICES ASSUME NEW m \in 1 .. Len(all), NEW k \in 1 .. Len(all), m < k
               PROVE  new[m] < new[k]
    OBVIOUS
  <2>1. k \in 2 .. l + 1 /\ (m = 1 \/ m \in 2 .. l + 1)
    BY <1>1, <1>4
  <2>2. CASE m = 1
    BY <1>5, <1>8, <2>1, <2>2
  <2>3. CASE m \in 2 .. l + 1
    <3>1. m - 1 \in 1 .. l /\ k - 1 \in 1 .. l /\ m - 1 < k - 1
      BY <1>1, <2>1, <2>3
    <3> QED
      BY <1>3, <1>5, <2>1, <2>3, <3>1 DEF l
  <2> QED
    BY <2>1, <2>2, <2>3
<1>11. \A m \in 1 .. Len(all) : all[m] = FrameAt(s, new[m])
  <2>1. \A m \in 1 .. Len(all) : m = 1 \/ m \in 2 .. l + 1
    BY <1>1, <1>4
  <2> QED
    BY <1>3, <1>4, <1>5, <2>1 DEF f, l
<1>12. \A h \in i .. Len(s) :
         h \in Counts(s) <=> \E m \in 1 .. Len(all) : all[m].ok /\ new[m] = h
  <2> TAKE h \in i .. Len(s)
  <2>1. h = i \/ h \in i + 1 .. next - 1 \/ h \in next .. Len(s)
    BY <1>1
  <2>2. ASSUME NEW m \in 1 .. Len(all)
        PROVE  \/ m = 1 /\ all[m] = f /\ new[m] = i
               \/ /\ m \in 2 .. l + 1 /\ m - 1 \in 1 .. l
                  /\ all[m] = found[m - 1] /\ new[m] = place[m - 1]
                  /\ new[m] \in next .. Len(s) /\ new[m] > i
    <3>1. m = 1 \/ m \in 2 .. l + 1
      BY <1>1, <1>4
    <3> QED
      BY <1>4, <1>5, <1>8, <3>1
  <2>3. CASE h = i
    <3>1. 1 \in 1 .. Len(all)
      BY <1>1, <1>4
    <3>2. i \in Counts(s) <=> f.ok
      BY <1>2
    <3>3. ASSUME NEW m \in 1 .. Len(all), new[m] = i PROVE all[m] = f
      <4>1. ~(i > i)
        BY <1>1
      <4> QED
        BY <2>2, <3>3, <4>1
    <3>4. all[1] = f /\ new[1] = i
      BY <1>4, <1>5
    <3> QED
      BY <2>3, <3>1, <3>2, <3>3, <3>4
  <2>4. CASE h \in i + 1 .. next - 1
    <3>1. h \notin Counts(s) /\ h # i /\ h \notin next .. Len(s)
      BY <1>1, <2>4
    <3> QED
      BY <2>2, <3>1
  <2>5. CASE h \in next .. Len(s)
    <3>1. h # i
      BY <1>1, <2>5
    <3>2. ASSUME h \in Counts(s)
          PROVE  \E m \in 1 .. Len(all) : all[m].ok /\ new[m] = h
      <4>1. PICK m \in 1 .. l : found[m].ok /\ place[m] = h
        BY <1>3, <2>5, <3>2 DEF l
      <4>2. m + 1 \in 2 .. l + 1 /\ m + 1 \in 1 .. Len(all) /\ m + 1 - 1 = m
        BY <1>1, <1>4, <4>1
      <4>3. all[m + 1] = found[m] /\ new[m + 1] = place[m]
        BY <1>4, <1>5, <4>2
      <4> QED
        BY <4>1, <4>2, <4>3
    <3>3. ASSUME NEW m \in 1 .. Len(all), all[m].ok, new[m] = h
          PROVE  h \in Counts(s)
      <4>1. m - 1 \in 1 .. l /\ found[m - 1].ok /\ place[m - 1] = h
        BY <2>2, <3>1, <3>3
      <4> QED
        BY <1>3, <2>5, <4>1 DEF l
    <3> QED
      BY <3>2, <3>3
  <2> QED
    BY <2>1, <2>3, <2>4, <2>5
<1>13. Found(s, all, i)
  BY <1>9, <1>10, <1>11, <1>12 DEF Found, W
<1> QED
  BY <1>13 DEF all, f

(* The loop finds, from a clear position on, what the stream has there.        *)
LEMMA LoopFinds ==
    ASSUME NEW s \in Buffers, NEW i \in 0 .. Len(s), Clear(s, i)
    PROVE  Found(s, Loop(s)[i].frames, i)
<1> DEFINE n == Len(s)
           S == {k \in 0 .. n : Clear(s, k) => Found(s, Loop(s)[k].frames, k)}
<1>1. n \in Nat
  BY DEF Buffers
<1>2. ASSUME NEW k \in 0 .. n, \A j \in k + 1 .. n : j \in S
      PROVE  k \in S
  <2> SUFFICES ASSUME Clear(s, k) PROVE Found(s, Loop(s)[k].frames, k)
    OBVIOUS
  <2>1. \A j \in k + 1 .. n : Clear(s, j) => Found(s, Loop(s)[j].frames, j)
    BY <1>2
  <2> HIDE DEF S
  <2>2. \A h \in 0 .. n : h \in Counts(s) => HeaderAt(s, h) /\ Good(s, h)
    BY CountsCases DEF Good, Whole
  <2>3. ASSUME ~Whole(s, k), ~Waiting(s, k), k < n,
               Loop(s)[k].frames = Loop(s)[k + 1].frames
        PROVE  Found(s, Loop(s)[k].frames, k)
    <3>1. k \notin Counts(s)
      BY <2>2, <2>3 DEF Good
    <3>2. Clear(s, k + 1)
      BY <2>3, <3>1, ClearNext
    <3>3. k + 1 \in k + 1 .. n
      BY <1>1, <2>3
    <3>4. Found(s, Loop(s)[k + 1].frames, k + 1)
      BY <2>1, <3>2, <3>3
    <3> QED
      BY <2>3, <3>1, <3>4, FoundFurther
  <2>4. CASE ~HeaderAt(s, k) /\ k >= n - 1
    <3>1. \A h \in k .. n : h \in 0 .. n /\ ~HeaderAt(s, h)
      BY <1>1, <2>4 DEF HeaderAt
    <3>2. \A h \in k .. n : h \notin Counts(s)
      BY <2>2, <3>1
    <3>3. Loop(s)[k].frames = <<>>
      BY <2>4, Rounds
    <3> QED
      BY <3>2, <3>3, NothingFound
  <2>5. CASE ~HeaderAt(s, k) /\ k < n - 1
    <3>1. ~Whole(s, k) /\ ~Waiting(s, k) /\ k < n
      BY <1>1, <2>5 DEF Whole, Waiting
    <3>2. Loop(s)[k].frames = Loop(s)[k + 1].frames
      BY <2>5, <3>1, Rounds
    <3> QED
      BY <2>3, <3>1, <3>2
  <2>6. CASE Waiting(s, k)
    <3>1. ASSUME NEW h \in k .. n, h \in Counts(s)
          PROVE  FALSE
      <4>1. h \in 0 .. n
        BY <1>1
      <4>2. Good(s, h)
        BY <2>2, <3>1, <4>1
      <4>3. h # k
        BY <2>6, <4>2 DEF Waiting, Good, Whole
      <4>4. k \in 0 .. h - 1
        BY <1>1, <4>3
      <4>5. PICK c \in 0 .. k - 1 : c \in Counts(s) /\ Inside(s, k, c)
        BY <2>6, <3>1, <4>1, <4>4, CountsCases
      <4>6. c + TotalAt(s, c) =< k /\ k < c + TotalAt(s, c)
        BY <4>5 DEF Clear, Inside
      <4>7. c \in 0 .. n
        BY <1>1
      <4>8. HeaderAt(s, c) /\ ~Partial(s, c)
        BY <2>2, <4>5, <4>7 DEF Good, Whole
      <4>9. TotalAt(s, c) \in Nat
        BY <4>7, <4>8, AtAHeader
      <4> QED
        BY <1>1, <4>6, <4>7, <4>9
    <3>2. Loop(s)[k].frames = <<>>
      BY <2>6, Rounds
    <3> QED
      BY <3>1, <3>2, NothingFound
  <2>7. CASE HeaderAt(s, k) /\ ~Partial(s, k) /\ Impossible(s, k)
    <3>1. ~Whole(s, k) /\ ~Waiting(s, k)
      BY <2>7 DEF Whole, Waiting
    <3>2. k < n
      BY <1>1, <2>7, AtAHeader
    <3>3. Loop(s)[k].frames = Loop(s)[k + 1].frames
      BY <2>7, Rounds
    <3> QED
      BY <2>3, <3>1, <3>2, <3>3
  <2>8. CASE Whole(s, k)
    <3> DEFINE next == AfterFrame(s, k)
    <3>1. next \in k + 1 .. n
      BY <2>8, AtAHeader DEF Whole
    <3>2. Loop(s)[k].frames = <<FrameAt(s, k)>> \o Loop(s)[next].frames
      BY <2>8, Rounds
    <3>3. Loop(s)[next].frames \in Seq(Frame)
      <4>1. next \in 0 .. n
        BY <1>1, <3>1
      <4> HIDE DEF next
      <4> QED
        BY <4>1, Rounds
    <3>4. /\ Clear(s, next)
          /\ \A h \in k + 1 .. next - 1 : h \notin Counts(s)
          /\ k \in Counts(s) <=> CrcAt(s, k)
      <4>1. CASE CrcAt(s, k)
        <5>1. Good(s, k)
          BY <2>8, <4>1 DEF Good
        <5> QED
          BY <4>1, <5>1, GoodFrameCounts
      <4>2. CASE ~CrcAt(s, k)
        <5>1. k \notin Counts(s) /\ ~Waiting(s, k)
          BY <2>2, <2>8, <4>2 DEF Good, Whole, Waiting
        <5>2. k < n /\ next = k + 1
          BY <1>1, <3>1, <4>2 DEF AfterFrame
        <5>3. Clear(s, k + 1)
          BY <5>1, <5>2, ClearNext
        <5>4. k + 1 .. next - 1 = {}
          BY <1>1, <5>2
        <5> QED
          BY <4>2, <5>1, <5>2, <5>3, <5>4
      <4> QED
        BY <4>1, <4>2
    <3>5. Found(s, Loop(s)[next].frames, next)
      BY <2>1, <3>1, <3>4
    <3> HIDE DEF next
    <3> QED
      BY <2>8, <3>1, <3>2, <3>3, <3>4, <3>5, FoundOneMore
  <2>9. k >= n - 1 \/ k < n - 1
    BY <1>1
  <2> QED
    BY <2>4, <2>5, <2>6, <2>7, <2>8, <2>9, CasesOfAPosition
<1>3. \A k \in 0 .. n : k \in S
  <2> HIDE DEF S
  <2> QED
    BY <1>1, <1>2, InductionDown
<1> QED
  BY <1>3

\* Nothing is before the first byte.
LEMMA FramesOfTheStream ==
    ASSUME StreamInv
    PROVE  GoodFramesAreFound
<1>1. received \in Buffers /\ frames \in Seq(Frame) /\ frames = DecodeStream(received).frames
  BY StreamInvCuts DEF StreamInv, CutsAreInvisible
<1>2. Len(received) \in Nat /\ DOMAIN frames = 1 .. Len(frames)
  BY <1>1 DEF Buffers
<1>3. 0 \in 0 .. Len(received) /\ Clear(received, 0)
  BY <1>2 DEF Clear
<1>4. Found(received, frames, 0)
  BY <1>1, <1>3, LoopFinds DEF DecodeStream
<1>5. PICK place \in [1 .. Len(frames) -> {h \in 0 .. Len(received) : Whole(received, h)}] :
        /\ \A m, k \in 1 .. Len(frames) : m < k => place[m] < place[k]
        /\ \A m \in 1 .. Len(frames) : frames[m] = FrameAt(received, place[m])
        /\ \A h \in 0 .. Len(received) :
             h \in Counts(received) <=> \E m \in 1 .. Len(frames) : frames[m].ok /\ place[m] = h
  BY <1>4 DEF Found
<1>6. \A m \in 1 .. Len(frames) : place[m] \in 0 .. Len(received)
  OBVIOUS
<1>7. Counts(received) \subseteq 0 .. Len(received)
  BY DEF Counts
<1>8. Counts(received) = {place[m] : m \in {k \in DOMAIN frames : frames[k].ok}}
  BY <1>2, <1>5, <1>6, <1>7
<1> QED
  BY <1>2, <1>5, <1>8 DEF GoodFramesAreFound

(* Whatever bytes come, damaged or not, in whatever cuts: what _on_notify      *)
(* handles are frames of the stream, in its order, and the good ones are       *)
(* exactly those that count (protocol.py, decode_stream).                      *)
THEOREM GoodFramesAlwaysFound == StreamSpec => []GoodFramesAreFound
BY StreamInvariant, FramesOfTheStream, PTL

-----------------------------------------------------------------------------
(* Telemetry *)

Payload == Seq(0 .. 255)
Readers == [how : {"byte", "word", "flag", "celsius", "sum"}, at : Nat]

(* Every value of telemetry_from_frame is read in one of five ways at a fixed *)
(* offset.                                                                    *)
LEMMA LayoutTyped ==
    ASSUME NEW op \in DOMAIN Layout, NEW k \in DOMAIN Layout[op]
    PROVE  Layout[op][k] \in Readers
<1> USE DEF Readers, Byte, Word, Flag, Celsius, SumOfFour
<1>1. CASE op = "battery"
  BY <1>1 DEF Layout, BatteryBlock
<1>2. CASE op \in {"temps", "totals", "ac", "ports"}
  BY <1>2 DEF Layout
<1>3. CASE op \in {"work_mode", "light", "switches"}
  BY <1>3 DEF Layout
<1>4. DOMAIN Layout
        = {"temps", "battery", "totals", "ac", "ports", "work_mode", "light", "switches"}
  BY DEF Layout
<1> QED
  BY <1>1, <1>2, <1>3, <1>4

(* Reading a byte or a word of a shortened payload gives nothing, or what the *)
(* whole one gives (protocol.py, u16).                                        *)
LEMMA BytesTruncated ==
    ASSUME NEW d \in Payload, NEW n \in 0 .. Len(d), NEW at \in Nat
    PROVE  /\ U8(SubSeq(d, 1, n), at) \in {None, U8(d, at)}
           /\ U16(SubSeq(d, 1, n), at) \in {None, U16(d, at)}
<1> DEFINE s == SubSeq(d, 1, n)
<1>1. Len(s) = n /\ \A i \in 1 .. n : s[i] = d[i]
  BY DEF Payload
<1> QED
  BY <1>1 DEF U8, U16

(* The same of any of the ways a value is read.                               *)
LEMMA ReadTruncated ==
    ASSUME NEW d \in Payload, NEW n \in 0 .. Len(d), NEW r \in Readers
    PROVE  ReadAs(r, SubSeq(d, 1, n)) \in {None, ReadAs(r, d)}
<1> DEFINE s == SubSeq(d, 1, n)
<1>1. \A i \in {0, 2, 4, 6} : U16(s, r.at + i) \in {None, U16(d, r.at + i)}
  BY BytesTruncated DEF Readers
<1>2. U8(s, r.at) \in {None, U8(d, r.at)}
  BY BytesTruncated DEF Readers
<1>3. CASE r.how \in {"byte", "flag"}
  BY <1>2, <1>3 DEF ReadAs
<1>4. CASE r.how \in {"word", "celsius"}
  BY <1>1, <1>4 DEF ReadAs, Readers
<1>5. CASE r.how = "sum"
  BY <1>1, <1>5 DEF ReadAs, Readers
<1> QED
  BY <1>3, <1>4, <1>5 DEF Readers

(* A payload that stops early has fewer keys and no other values, at whatever *)
(* byte it stops (protocol.py, telemetry_from_frame).                         *)
THEOREM TruncationOnlyOmits ==
    ASSUME NEW op, NEW d \in Payload, NEW n \in 0 .. Len(d),
           NEW k \in DOMAIN TelemetryFromFrame(op, SubSeq(d, 1, n))
    PROVE  /\ k \in DOMAIN TelemetryFromFrame(op, d)
           /\ TelemetryFromFrame(op, SubSeq(d, 1, n))[k] = TelemetryFromFrame(op, d)[k]
<1>1. CASE op \in DOMAIN Layout
  <2>1. k \in DOMAIN Layout[op] /\ ReadAs(Layout[op][k], SubSeq(d, 1, n)) # None
    BY <1>1 DEF TelemetryFromFrame
  <2>2. ReadAs(Layout[op][k], SubSeq(d, 1, n)) = ReadAs(Layout[op][k], d)
    BY <1>1, <2>1, LayoutTyped, ReadTruncated
  <2> QED
    BY <1>1, <2>1, <2>2 DEF TelemetryFromFrame
<1>2. CASE op \notin DOMAIN Layout
  BY <1>2 DEF TelemetryFromFrame
<1> QED
  BY <1>1, <1>2

-----------------------------------------------------------------------------
UnitOK == unit \in [Opcodes -> Payload] /\ \A op \in Opcodes : unit[op] \in Blocks[op]

IInv == TypeOK /\ UnitOK /\ NoValueIsMadeUp

(* A key of a raw frame is no switch.                                         *)
LEMMA RawIsNoSwitch == RawKeys \cap Switches = {}
BY DEF RawKeys, RawKey, Switches

(* What a switch shows is read as a flag.                                     *)
LEMMA SwitchesAreFlags ==
    ASSUME NEW op \in DOMAIN Layout, NEW k \in DOMAIN Layout[op] \cap Switches
    PROVE  Layout[op][k].how = "flag"
<1> USE DEF Byte, Word, Flag, Celsius, SumOfFour, Switches
<1>1. CASE op = "battery"
  BY <1>1 DEF Layout, BatteryBlock
<1>2. CASE op \in {"temps", "totals", "ac", "ports"}
  BY <1>2 DEF Layout
<1>3. CASE op \in {"work_mode", "light", "switches"}
  BY <1>3 DEF Layout
<1>4. DOMAIN Layout
        = {"temps", "battery", "totals", "ac", "ports", "work_mode", "light", "switches"}
  BY DEF Layout
<1> QED
  BY <1>1, <1>2, <1>3, <1>4

(* A frame's values other than the raw payload are those of its decoding.     *)
LEMMA ValuesDecoded ==
    ASSUME NEW op, NEW d, NEW k \in DOMAIN Values(op, d) \ RawKeys
    PROVE  /\ k \in DOMAIN TelemetryFromFrame(op, d)
           /\ Values(op, d)[k] = TelemetryFromFrame(op, d)[k]
<1>1. DOMAIN Raw(op, d) \subseteq RawKeys
  BY DEF Raw, RawKeys
<1> QED
  BY <1>1 DEF Values, Updated

(* What a unit reports is the decoding of a part of one of its blocks.        *)
LEMMA ReportIs ==
    ASSUME TypeOK, UnitOK, NEW op \in Opcodes
    PROVE  /\ unit[op] \in Payload
           /\ \E n \in 0 .. Len(unit[op]) : Report(op) = Values(op, SubSeq(unit[op], 1, n))
<1>1. unit[op] \in Blocks[op] /\ unit[op] \in Payload /\ size \in Sizes /\ size \in Nat
  BY BoundsAssumption DEF TypeOK, UnitOK
<1>2. Report(op) = Values(op, Filled(unit[op], size))
  BY <1>1 DEF Report, Reports
<1>3. CASE size < Len(unit[op])
  BY <1>1, <1>2, <1>3 DEF Filled, Payload
<1>4. CASE ~(size < Len(unit[op]))
  BY <1>1, <1>2, <1>4 DEF Filled, Payload
<1> QED
  BY <1>1, <1>3, <1>4

(* What a frame says of a switch is 0 or 1.                                   *)
LEMMA FlagValues ==
    ASSUME NEW op, NEW d, NEW k \in DOMAIN Values(op, d) \cap Switches
    PROVE  Values(op, d)[k] \in {0, 1}
<1>1. k \in DOMAIN TelemetryFromFrame(op, d)
      /\ Values(op, d)[k] = TelemetryFromFrame(op, d)[k]
  BY ValuesDecoded, RawIsNoSwitch
<1>2. op \in DOMAIN Layout /\ k \in DOMAIN Layout[op]
      /\ ReadAs(Layout[op][k], d) # None
      /\ Values(op, d)[k] = ReadAs(Layout[op][k], d)
  BY <1>1 DEF TelemetryFromFrame
<1>3. Layout[op][k].how = "flag"
  BY <1>2, SwitchesAreFlags
<1> QED
  BY <1>2, <1>3 DEF ReadAs

(* Every step keeps the types, and the unit's blocks what they may be.        *)
LEMMA NextTyped == TypeOK /\ UnitOK /\ [Next]_vars => TypeOK' /\ UnitOK'
<1> SUFFICES ASSUME TypeOK, UnitOK, [Next]_vars
             PROVE  TypeOK' /\ UnitOK'
  OBVIOUS
<1> USE DEF TypeOK, UnitOK
<1>1. CASE Connect \/ Drop
  <2>1. UNCHANGED <<data, size, unit, changes>> /\ up' \in BOOLEAN
    BY <1>1 DEF Connect, Drop
  <2>3. lamp'.stage \in {"idle", "writing", "applied", "lost"} /\ lamp'.want \in {0, 1}
    <3>1. CASE lamp' = lamp \/ lamp' = Idle
      BY <3>1 DEF Idle
    <3>2. CASE lamp' = [lamp EXCEPT !.stage = "lost"]
      BY <3>2
    <3> QED
      BY <1>1, <3>1, <3>2 DEF Connect, Drop
  <2> QED
    BY <2>1, <2>3
<1>2. ASSUME NEW op \in Opcodes, OnNotify(op)
      PROVE  TypeOK' /\ UnitOK'
  <2>1. \A k \in DOMAIN data' \cap Switches : data'[k] \in {0, 1}
    BY <1>2, FlagValues, ReportIs DEF OnNotify, Updated
  <2> QED
    BY <1>2, <2>1 DEF OnNotify
<1>3. ASSUME NEW op \in Opcodes, UnitChanges(op)
      PROVE  TypeOK' /\ UnitOK'
  <2>1. PICK b \in Blocks[op] : unit' = [unit EXCEPT ![op] = b]
    BY <1>3 DEF UnitChanges
  <2>2. UnitOK'
    BY <2>1, BlocksAssumption DEF Payload
  <2>3. changes' \in 0 .. Changes
    BY <1>3, BoundsAssumption DEF UnitChanges
  <2> QED
    BY <1>3, <2>2, <2>3 DEF UnitChanges
<1>4. ASSUME NEW v \in {0, 1}, LampCalled(v)
      PROVE  TypeOK' /\ UnitOK'
  BY <1>4, BoundsAssumption DEF LampCalled
<1>5. CASE LampApplied /\ "light" \in Opcodes
  <2>1. <<lamp.want>> \in Blocks["light"]
    BY <1>5, BlocksAssumption
  <2>2. UnitOK'
    BY <1>5, <2>1, BlocksAssumption DEF LampApplied, Payload
  <2>3. TypeOK'
    BY <1>5 DEF LampApplied
  <2> QED
    BY <2>2, <2>3
<1>6. CASE LampDone
  BY <1>6 DEF LampDone, Idle, Updated
<1>7. CASE LampFails
  BY <1>7 DEF LampFails, Idle
<1>8. CASE UNCHANGED vars
  BY <1>8 DEF vars
<1> QED
  BY <1>1, <1>2, <1>3, <1>4, <1>5, <1>6, <1>7, <1>8 DEF Next, Lamp

(* Only reports and the flashlight put values into .data.                     *)
LEMMA NextNotMadeUp == IInv /\ [Next]_vars => NoValueIsMadeUp'
<1> SUFFICES ASSUME TypeOK, UnitOK, NoValueIsMadeUp, [Next]_vars
             PROVE  NoValueIsMadeUp'
  BY DEF IInv
<1> USE DEF NoValueIsMadeUp
<1>1. CASE UNCHANGED data
  BY <1>1
<1>2. ASSUME NEW op \in Opcodes, OnNotify(op)
      PROVE  NoValueIsMadeUp'
  <2>1. PICK n \in 0 .. Len(unit[op]) : Report(op) = Values(op, SubSeq(unit[op], 1, n))
    BY ReportIs
  <2>2. ASSUME NEW k \in DOMAIN Report(op) \ (RawKeys \cup {"lamp_sw"})
        PROVE  <<k, Report(op)[k]>> \in Readings
    <3>1. /\ k \in DOMAIN TelemetryFromFrame(op, SubSeq(unit[op], 1, n))
          /\ Report(op)[k] = TelemetryFromFrame(op, SubSeq(unit[op], 1, n))[k]
      BY <2>1, <2>2, ValuesDecoded
    <3>2. /\ k \in DOMAIN TelemetryFromFrame(op, unit[op])
          /\ Report(op)[k] = TelemetryFromFrame(op, unit[op])[k]
      BY <3>1, ReportIs, TruncationOnlyOmits
    <3>3. unit[op] \in Blocks[op]
      BY DEF UnitOK
    <3> QED
      BY <3>2, <3>3 DEF Readings, Pairs
  <2> QED
    BY <1>2, <2>2 DEF OnNotify, Updated
<1>3. CASE LampDone
  BY <1>3 DEF LampDone, Updated
<1>4. CASE Connect \/ Drop \/ LampApplied \/ LampFails
  BY <1>1, <1>4 DEF Connect, Drop, LampApplied, LampFails
<1>5. ASSUME NEW v \in {0, 1}, LampCalled(v)
      PROVE  NoValueIsMadeUp'
  BY <1>1, <1>5 DEF LampCalled
<1>6. ASSUME NEW op \in Opcodes, UnitChanges(op)
      PROVE  NoValueIsMadeUp'
  BY <1>1, <1>6 DEF UnitChanges
<1>7. CASE UNCHANGED vars
  BY <1>1, <1>7 DEF vars
<1> QED
  BY <1>2, <1>3, <1>4, <1>5, <1>6, <1>7 DEF Next, Lamp

(* IInv is an inductive invariant. *)
LEMMA Inductive == Spec => []IInv
<1>1. Init => IInv
  <2>1. Init => UnitOK
    BY BlocksAssumption DEF Init, UnitOK, Payload
  <2>2. Init => TypeOK
    <3> SUFFICES ASSUME Init PROVE TypeOK
      OBVIOUS
    <3>1. lamp.stage = "idle" /\ lamp.want = 0
      BY DEF Init, Idle
    <3>2. up \in BOOLEAN /\ size \in Sizes
      BY DEF Init
    <3>3. DOMAIN data = {}
      BY DEF Init
    <3>4. changes \in 0 .. Changes
      BY BoundsAssumption DEF Init
    <3> QED
      BY <3>1, <3>2, <3>3, <3>4 DEF TypeOK
  <2>3. Init => NoValueIsMadeUp
    BY DEF Init, NoValueIsMadeUp
  <2> QED
    BY <2>1, <2>2, <2>3 DEF IInv
<1>2. IInv /\ [Next]_vars => IInv'
  BY NextTyped, NextNotMadeUp DEF IInv
<1> QED
  BY <1>1, <1>2, PTL DEF Spec

(* TypeOK for every run: a switch is shown on or off, and nothing else.       *)
THEOREM TypeCorrect == Spec => []TypeOK
<1>1. IInv => TypeOK
  BY DEF IInv
<1> QED
  BY <1>1, Inductive, PTL

(* No frame, wherever its payload ends, puts a value into .data that is not   *)
(* one of a full block of the unit.                                           *)
THEOREM NoValueEverMadeUp == Spec => []NoValueIsMadeUp
<1>1. IInv => NoValueIsMadeUp
  BY DEF IInv
<1> QED
  BY <1>1, Inductive, PTL

-----------------------------------------------------------------------------
(* The safety half of SettlesOnTheUnit: the blocks do not disturb each other.  *)
LayoutKeys(op) == IF op \in DOMAIN Layout THEN DOMAIN Layout[op] ELSE {}
KeysOf(op) == LayoutKeys(op) \cup {RawKey[o] : o \in DOMAIN RawKey \cap {op}}

(* What a frame puts into .data is under a key of its opcode. *)
LEMMA ValuesUnderItsKeys ==
    ASSUME NEW op, NEW d
    PROVE  DOMAIN Values(op, d) \subseteq KeysOf(op)
<1>1. DOMAIN TelemetryFromFrame(op, d) \subseteq LayoutKeys(op)
  BY DEF TelemetryFromFrame, LayoutKeys
<1>2. DOMAIN Raw(op, d) = {RawKey[o] : o \in DOMAIN RawKey \cap {op}}
  BY DEF Raw
<1> QED
  BY <1>1, <1>2 DEF Values, Updated, KeysOf

(* The keys of the layout, opcode by opcode (protocol.py, telemetry_from_frame). *)
LEMMA KeysOfLayout ==
    /\ LayoutKeys("temps") = {"bat_temp1", "bat_temp2", "inverter_temp1", "inverter_temp2"}
    /\ LayoutKeys("battery") =
          {"battery_percentage", "bat_health", "bat_cycle_num", "bat_cap_remain",
           "charge_remain_time", "discharge_remain_time", "cell_voltage_1", "cell_voltage_2",
           "cell_voltage_3", "cell_voltage_4", "cell_voltage_5", "cell_voltage_6",
           "cell_voltage_7"}
    /\ LayoutKeys("totals") = {"charge_power_all", "discharge_pow"}
    /\ LayoutKeys("ac") = {"ac_discharge_pow"}
    /\ LayoutKeys("ports") = {"car_discharge_pow", "usb_discharge_pow"}
    /\ LayoutKeys("work_mode") = {"work_mode"}
    /\ LayoutKeys("light") = {"lamp_sw"}
    /\ LayoutKeys("switches") = {"switch_ac", "switch_dc", "usb_sw"}
    /\ \A op : op \notin {"temps", "battery", "totals", "ac", "ports", "work_mode", "light",
                         "switches"} => LayoutKeys(op) = {}
<1>1. DOMAIN Layout
        = {"temps", "battery", "totals", "ac", "ports", "work_mode", "light", "switches"}
  BY DEF Layout
<1>2. DOMAIN Layout["battery"] = DOMAIN BatteryBlock
  BY DEF Layout
<1>3. LayoutKeys("battery") = DOMAIN BatteryBlock
  BY <1>1, <1>2 DEF LayoutKeys
<1> QED
  BY <1>1, <1>3 DEF LayoutKeys, Layout, BatteryBlock

(* No key has two sources, so no report overwrites another's reading. *)
THEOREM KeysApart ==
    ASSUME NEW op, NEW other, op # other
    PROVE  KeysOf(op) \cap KeysOf(other) = {}
<1>1. LayoutKeys(op) \cap LayoutKeys(other) = {}
  BY KeysOfLayout
<1>2. {RawKey[o] : o \in DOMAIN RawKey \cap {op}}
        \cap {RawKey[o] : o \in DOMAIN RawKey \cap {other}} = {}
  BY DEF RawKey
<1>3. LayoutKeys(op) \cap RawKeys = {} /\ LayoutKeys(other) \cap RawKeys = {}
  BY KeysOfLayout DEF RawKeys, RawKey
<1> QED
  BY <1>1, <1>2, <1>3 DEF KeysOf, RawKeys

(* Of two dictionaries the update says all of the later one, and of the earlier *)
(* one what the later one has no key of.                                        *)
LEMMA UpdatedSays ==
    ASSUME NEW dict, NEW values
    PROVE  /\ Pairs(values) \subseteq Pairs(Updated(dict, values))
           /\ \A k \in DOMAIN dict \ DOMAIN values : <<k, dict[k]>> \in Pairs(Updated(dict, values))
BY DEF Updated, Pairs

(* A report leaves .data saying what its block holds. *)
LEMMA ReportSays ==
    ASSUME NEW op \in Opcodes, OnNotify(op)
    PROVE  Said(op)'
<1>1. Report(op)' = Report(op)
  BY DEF OnNotify, Report
<1> QED
  BY <1>1, UpdatedSays DEF OnNotify, Said

(* What .data says of a block, an update under other keys leaves. *)
LEMMA OthersLeaveIt ==
    ASSUME IInv, NEW op \in Opcodes, Said(op), Report(op)' = Report(op), NEW values,
           data' = Updated(data, values), DOMAIN values \cap KeysOf(op) = {}
    PROVE  Said(op)'
<1>1. DOMAIN Report(op) \subseteq KeysOf(op)
  BY ReportIs, ValuesUnderItsKeys DEF IInv
<1>2. ASSUME NEW k \in DOMAIN Report(op)
      PROVE  <<k, Report(op)[k]>> \in Pairs(data')
  <2>1. <<k, Report(op)[k]>> \in Pairs(data) /\ k \notin DOMAIN values
    BY <1>1 DEF Said, Pairs
  <2>2. k \in DOMAIN data /\ data[k] = Report(op)[k]
    BY <2>1 DEF Pairs
  <2> QED
    BY <2>1, <2>2, UpdatedSays
<1> QED
  BY <1>2 DEF Said, Pairs

(* Once .data says what a block holds it says so until the block changes,       *)
(* whatever other blocks report, over breaks of the link: dict.update with keys *)
(* of one source each (ble.py, _on_notify).                                     *)
THEOREM AlwaysStaysSaid == Spec => StaysSaid
<1> DEFINE Step == \A op \in Opcodes :
              Said(op) /\ unit'[op] = unit[op] /\ (op = "light" => lamp = Idle) => Said(op)'
<1>1. IInv /\ [Next]_vars => Step
  <2> SUFFICES ASSUME IInv, [Next]_vars, NEW op \in Opcodes, Said(op), unit'[op] = unit[op],
                      op = "light" => lamp = Idle
               PROVE  Said(op)'
    OBVIOUS
  <2>1. size' = size
    BY DEF Next, Lamp, Connect, Drop, OnNotify, UnitChanges, LampCalled, LampApplied, LampDone,
           LampFails, vars
  <2>2. Report(op)' = Report(op)
    BY <2>1 DEF Report
  <2>3. ASSUME NEW other \in Opcodes, OnNotify(other)
        PROVE  Said(op)'
    <3>1. CASE other = op
      BY <2>3, <3>1, ReportSays
    <3>2. CASE other # op
      <4>1. DOMAIN Report(other) \subseteq KeysOf(other)
        BY ReportIs, ValuesUnderItsKeys DEF IInv
      <4>2. DOMAIN Report(other) \cap KeysOf(op) = {}
        BY <3>2, <4>1, KeysApart
      <4> QED
        BY <2>2, <2>3, <4>2, OthersLeaveIt DEF OnNotify
    <3> QED
      BY <3>1, <3>2
  <2>4. CASE LampDone /\ "light" \in Opcodes
    <3>1. op # "light"
      BY <2>4 DEF LampDone, Idle
    <3>2. "lamp_sw" \in KeysOf("light")
      BY KeysOfLayout DEF KeysOf
    <3>3. DOMAIN [lamp_sw |-> lamp.want] \cap KeysOf(op) = {}
      BY <3>1, <3>2, KeysApart
    <3> QED
      BY <2>2, <2>4, <3>3, OthersLeaveIt DEF LampDone
  <2>5. CASE UNCHANGED data
    BY <2>2, <2>5 DEF Said
  <2> QED
    BY <2>3, <2>4, <2>5
    DEF Next, Lamp, Connect, Drop, UnitChanges, LampCalled, LampApplied, LampFails, vars
<1>2. IInv /\ [Next]_vars => [Step]_vars
  BY <1>1
<1>3. Spec => [][Step]_vars
  <2> HIDE DEF Step
  <2> QED
    BY <1>2, Inductive, PTL DEF Spec
<1> QED
  BY <1>3 DEF StaysSaid
=============================================================================
