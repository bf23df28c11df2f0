-------------------------- MODULE FrameCodecProofs --------------------------
(***************************************************************************)
(* Theorems about FrameCodec, for any messages of any lengths, whichever   *)
(* of them cannot be encoded or decoded, and however the stream is cut.    *)
(***************************************************************************)
EXTENDS FrameCodec, SequenceTheorems, TLAPS

-----------------------------------------------------------------------------
(* The inductive invariant.                                                *)

LengthOf(m) == Header + Size[m]

(* The stream t is made of the frames of the messages of s from the one    *)
(* after the d-th on; ends[i] is where the frame of the i-th message ends  *)
(* in all that has been written.                                           *)
FramesEnd(s, d, t, ends) ==
    /\ \A i, j \in 0 .. Len(s) : i <= j => ends[i] <= ends[j]
    /\ ends[Len(s)] = ends[d] + Len(t)
    /\ \A i \in d + 1 .. Len(s) :
          /\ ends[i] = ends[i - 1] + LengthOf(s[i])
          /\ \A j \in 1 .. LengthOf(s[i]) :
                t[ends[i - 1] - ends[d] + j] = <<s[i], j>>

Frames(s, d, t) == \E ends \in [0 .. Len(s) -> Nat] : FramesEnd(s, d, t, ends)

(* What the decoder has not read, wherever TCP has cut it, is the frames   *)
(* of the messages that have been sent and not yet decoded.                *)
IInv ==
    /\ TypeOK
    /\ decoded <= Len(sent)
    /\ Frames(sent, decoded, in \o wire)

-----------------------------------------------------------------------------
(* Lengths, frames and pieces of the stream.                               *)

LEMMA LengthIsNat ==
  ASSUME NEW m \in Message
  PROVE  Size[m] \in Nat /\ LengthOf(m) \in Nat /\ LengthOf(m) = Size[m] + 4
  BY CodecAssumption DEF Header, LengthOf

LEMMA FrameBytes ==
  ASSUME NEW m \in Message
  PROVE  /\ Frame(m) \in Seq(Byte)
         /\ Len(Frame(m)) = LengthOf(m)
         /\ \A i \in 1 .. LengthOf(m) : Frame(m)[i] = <<m, i>>
<1>1. \A i \in 1 .. LengthOf(m) : <<m, i>> \in Byte
  BY DEF Byte, LengthOf
<1>2. Frame(m) = [i \in 1 .. LengthOf(m) |-> <<m, i>>]
  BY DEF Frame, LengthOf
<1>3. LengthOf(m) \in Nat
  BY LengthIsNat
<1>4. Frame(m) \in [1 .. LengthOf(m) -> Byte]
  BY <1>1, <1>2
<1>5. Frame(m) \in Seq(Byte)
  BY <1>3, <1>4
<1> QED
  BY <1>2, <1>3, <1>5

LEMMA SkipIs ==
  ASSUME NEW s \in Seq(Byte), NEW n \in 0 .. Len(s)
  PROVE  /\ Skip(n, s) \in Seq(Byte)
         /\ Len(Skip(n, s)) = Len(s) - n
         /\ \A i \in 1 .. Len(s) - n : Skip(n, s)[i] = s[n + i]
<1>1. Len(s) \in Nat
  BY LenProperties
<1>2. /\ n + 1 \in Int /\ Len(s) \in Int
      /\ \A i \in n + 1 .. Len(s) : s[i] \in Byte
  BY <1>1, ElementOfSeq
<1>3. /\ Skip(n, s) \in Seq(Byte)
      /\ Len(Skip(n, s)) =
            IF n + 1 <= Len(s) THEN Len(s) - (n + 1) + 1 ELSE 0
      /\ \A i \in 1 .. Len(s) - (n + 1) + 1 : Skip(n, s)[i] = s[n + 1 + i - 1]
  BY <1>2, SubSeqProperties DEF Skip
<1> QED
  BY <1>1, <1>3

LEMMA FirstIs ==
  ASSUME NEW s \in Seq(Byte), NEW n \in 0 .. Len(s)
  PROVE  /\ First(n, s) \in Seq(Byte)
         /\ Len(First(n, s)) = n
         /\ \A i \in 1 .. n : First(n, s)[i] = s[i]
<1>1. Len(s) \in Nat
  BY LenProperties
<1>2. n \in Int /\ \A i \in 1 .. n : s[i] \in Byte
  BY <1>1, ElementOfSeq
<1>3. /\ First(n, s) \in Seq(Byte)
      /\ Len(First(n, s)) = IF 1 <= n THEN n - 1 + 1 ELSE 0
      /\ \A i \in 1 .. n - 1 + 1 : First(n, s)[i] = s[1 + i - 1]
  BY <1>2, SubSeqProperties DEF First
<1> QED
  BY <1>1, <1>2, <1>3

LEMMA SkipOfConcat ==
  ASSUME NEW a \in Seq(Byte), NEW b \in Seq(Byte), NEW n \in 0 .. Len(a)
  PROVE  Skip(n, a) \o b = Skip(n, a \o b)
<1> DEFINE u == Skip(n, a)
           t == a \o b
           v == Skip(n, t)
           w == u \o b
<1>1. Len(a) \in Nat /\ Len(b) \in Nat
  BY LenProperties
<1>2. /\ u \in Seq(Byte) /\ Len(u) = Len(a) - n
      /\ \A i \in 1 .. Len(a) - n : u[i] = a[n + i]
  BY SkipIs
<1>3. /\ t \in Seq(Byte) /\ Len(t) = Len(a) + Len(b)
      /\ \A k \in 1 .. Len(a) + Len(b) :
            t[k] = IF k <= Len(a) THEN a[k] ELSE b[k - Len(a)]
  BY ConcatProperties
<1> HIDE DEF u, t
<1>4. /\ w \in Seq(Byte) /\ Len(w) = Len(u) + Len(b)
      /\ \A k \in 1 .. Len(u) + Len(b) :
            w[k] = IF k <= Len(u) THEN u[k] ELSE b[k - Len(u)]
  BY <1>2, ConcatProperties
<1>5. /\ v \in Seq(Byte) /\ Len(v) = Len(t) - n
      /\ \A k \in 1 .. Len(t) - n : v[k] = t[n + k]
  <2>1. n \in 0 .. Len(t)
    BY <1>1, <1>3
  <2> QED
    BY <1>3, <2>1, SkipIs
<1> HIDE DEF v, w
<1>6. Len(v) = Len(w)
  BY <1>1, <1>2, <1>3, <1>4, <1>5
<1>7. ASSUME NEW k \in 1 .. Len(w) PROVE w[k] = v[k]
  <2>1. /\ k \in 1 .. Len(u) + Len(b) /\ k \in 1 .. Len(t) - n
        /\ n + k \in 1 .. Len(a) + Len(b)
        /\ k <= Len(u) <=> n + k <= Len(a)
        /\ k <= Len(u) => k \in 1 .. Len(a) - n
        /\ n + k - Len(a) = k - Len(u)
    BY <1>1, <1>2, <1>3, <1>4, <1>5, <1>6
  <2>2. w[k] = IF k <= Len(u) THEN u[k] ELSE b[k - Len(u)]
    BY <1>4, <2>1
  <2>3. v[k] = IF n + k <= Len(a) THEN a[n + k] ELSE b[n + k - Len(a)]
    BY <1>3, <1>5, <2>1
  <2> QED
    BY <1>2, <2>1, <2>2, <2>3
<1>8. w = v
  BY <1>4, <1>5, <1>6, <1>7, SeqEqual
<1> QED
  BY <1>8 DEF u, t, v, w

LEMMA StreamTypes ==
  ASSUME IInv
  PROVE  /\ sent \in Seq(Message) /\ Len(sent) \in Nat
         /\ in \in Seq(Byte) /\ Len(in) \in Nat
         /\ wire \in Seq(Byte) /\ Len(wire) \in Nat
         /\ decoded \in 0 .. Len(sent)
         /\ \A i \in 1 .. Len(sent) : sent[i] \in Message
<1>1. sent \in Seq(Message) /\ in \in Seq(Byte) /\ wire \in Seq(Byte)
  BY DEF IInv, TypeOK
<1>2. Len(sent) \in Nat /\ Len(in) \in Nat /\ Len(wire) \in Nat
  BY <1>1, LenProperties
<1>3. \A i \in 1 .. Len(sent) : sent[i] \in Message
  BY <1>1, ElementOfSeq
<1> QED
  BY <1>1, <1>2, <1>3 DEF IInv, TypeOK

-----------------------------------------------------------------------------
(* Streams of frames.                                                      *)

(* Where the i-th frame is.                                                *)
LEMMA FramePlace ==
  ASSUME NEW s \in Seq(Message), NEW d \in 0 .. Len(s), NEW t \in Seq(Byte),
         NEW ends \in [0 .. Len(s) -> Nat], FramesEnd(s, d, t, ends),
         NEW i \in d + 1 .. Len(s)
  PROVE  /\ s[i] \in Message /\ LengthOf(s[i]) \in Nat
         /\ i - 1 \in 0 .. Len(s) /\ i \in 0 .. Len(s)
         /\ ends[i - 1] \in Nat /\ ends[d] \in Nat /\ ends[i] \in Nat
         /\ ends[i - 1] - ends[d] \in Nat
         /\ ends[i] = ends[i - 1] + LengthOf(s[i])
         /\ ends[i - 1] - ends[d] + LengthOf(s[i]) <= Len(t)
         /\ \A j \in 1 .. LengthOf(s[i]) :
               t[ends[i - 1] - ends[d] + j] = <<s[i], j>>
<1>1. Len(s) \in Nat /\ Len(t) \in Nat
  BY LenProperties
<1>2. /\ i - 1 \in 0 .. Len(s) /\ i \in 0 .. Len(s) /\ i \in 1 .. Len(s)
      /\ Len(s) \in 0 .. Len(s) /\ d <= i - 1 /\ i <= Len(s)
  BY <1>1
<1>3. s[i] \in Message /\ LengthOf(s[i]) \in Nat
  BY <1>2, ElementOfSeq, LengthIsNat
<1>4. /\ ends[i - 1] \in Nat /\ ends[d] \in Nat /\ ends[i] \in Nat
      /\ ends[Len(s)] \in Nat
  BY <1>2
<1>5. /\ ends[d] <= ends[i - 1] /\ ends[i] <= ends[Len(s)]
      /\ ends[Len(s)] = ends[d] + Len(t)
  BY <1>2 DEF FramesEnd
<1>6. /\ ends[i] = ends[i - 1] + LengthOf(s[i])
      /\ \A j \in 1 .. LengthOf(s[i]) :
            t[ends[i - 1] - ends[d] + j] = <<s[i], j>>
  BY DEF FramesEnd
<1>7. ends[i - 1] - ends[d] \in Nat
  BY <1>4, <1>5
<1>8. ends[i - 1] - ends[d] + LengthOf(s[i]) <= Len(t)
  BY <1>1, <1>3, <1>4, <1>5, <1>6
<1> QED
  BY <1>2, <1>3, <1>4, <1>6, <1>7, <1>8

(* A stream that is not empty begins with the frame of the next message.   *)
LEMMA FrameComes ==
  ASSUME NEW s \in Seq(Message), NEW d \in 0 .. Len(s), NEW t \in Seq(Byte),
         Frames(s, d, t), Len(t) # 0
  PROVE  /\ d + 1 \in 1 .. Len(s) /\ s[d + 1] \in Message
         /\ LengthOf(s[d + 1]) \in 0 .. Len(t)
         /\ \A j \in 1 .. LengthOf(s[d + 1]) : t[j] = <<s[d + 1], j>>
<1>1. PICK ends \in [0 .. Len(s) -> Nat] : FramesEnd(s, d, t, ends)
  BY DEF Frames
<1>2. Len(s) \in Nat /\ Len(t) \in Nat
  BY LenProperties
<1>3. d # Len(s)
  <2>1. ends[Len(s)] = ends[d] + Len(t)
    BY <1>1 DEF FramesEnd
  <2>2. ends[d] \in Nat
    OBVIOUS
  <2>3. SUFFICES ASSUME d = Len(s) PROVE FALSE
    OBVIOUS
  <2>4. ends[d] = ends[d] + Len(t)
    BY <2>1, <2>3
  <2> QED
    BY <1>2, <2>2, <2>4
<1> DEFINE i == d + 1
<1>4. i \in d + 1 .. Len(s) /\ i \in 1 .. Len(s) /\ i - 1 = d
  BY <1>2, <1>3
<1> HIDE DEF i
<1>5. /\ s[i] \in Message /\ LengthOf(s[i]) \in Nat /\ ends[d] \in Nat
      /\ ends[i - 1] - ends[d] + LengthOf(s[i]) <= Len(t)
      /\ \A j \in 1 .. LengthOf(s[i]) : t[ends[i - 1] - ends[d] + j] = <<s[i], j>>
  BY <1>1, <1>4, FramePlace
<1>6. \A j \in 1 .. LengthOf(s[i]) : ends[i - 1] - ends[d] + j = j
  BY <1>4, <1>5
<1>7. \A j \in 1 .. LengthOf(s[i]) : t[j] = <<s[i], j>>
  BY <1>5, <1>6
<1>8. LengthOf(s[i]) \in 0 .. Len(t)
  BY <1>2, <1>4, <1>5
<1> QED
  BY <1>4, <1>5, <1>7, <1>8 DEF i

(* A frame more at its end.                                                *)
LEMMA FrameWritten ==
  ASSUME NEW s \in Seq(Message), NEW d \in 0 .. Len(s), NEW t \in Seq(Byte),
         Frames(s, d, t), NEW m \in Message
  PROVE  Frames(Append(s, m), d, t \o Frame(m))
<1>1. PICK ends \in [0 .. Len(s) -> Nat] : FramesEnd(s, d, t, ends)
  BY DEF Frames
<1> DEFINE r == Append(s, m)
           u == t \o Frame(m)
           n == Len(s)
<1>2. /\ r \in Seq(Message) /\ Len(r) = n + 1
      /\ \A i \in 1 .. n : r[i] = s[i]
      /\ r[n + 1] = m
  BY AppendProperties
<1>3. n \in Nat /\ Len(t) \in Nat /\ LengthOf(m) \in Nat /\ d \in 0 .. n
  BY LenProperties, LengthIsNat
<1>4. /\ u \in Seq(Byte) /\ Len(u) = Len(t) + LengthOf(m)
      /\ \A k \in 1 .. Len(t) : u[k] = t[k]
      /\ \A j \in 1 .. LengthOf(m) : u[Len(t) + j] = <<m, j>>
  <2>1. /\ u \in Seq(Byte) /\ Len(u) = Len(t) + LengthOf(m)
        /\ \A k \in 1 .. Len(t) + LengthOf(m) :
              u[k] = IF k <= Len(t) THEN t[k] ELSE Frame(m)[k - Len(t)]
    BY ConcatProperties, FrameBytes
  <2> HIDE DEF u
  <2>2. ASSUME NEW k \in 1 .. Len(t) PROVE u[k] = t[k]
    BY <1>3, <2>1
  <2>3. ASSUME NEW j \in 1 .. LengthOf(m) PROVE u[Len(t) + j] = <<m, j>>
    <3>1. /\ Len(t) + j \in 1 .. Len(t) + LengthOf(m)
          /\ ~ (Len(t) + j <= Len(t)) /\ Len(t) + j - Len(t) = j
      BY <1>3
    <3>2. u[Len(t) + j] = Frame(m)[j]
      BY <2>1, <3>1
    <3> QED
      BY <3>2, FrameBytes
  <2> QED
    BY <2>1, <2>2, <2>3
<1> DEFINE more == [i \in 0 .. n + 1 |->
                      IF i <= n THEN ends[i] ELSE ends[n] + LengthOf(m)]
<1>5. /\ \A i \in 0 .. n : more[i] = ends[i] /\ ends[i] \in Nat
      /\ more[n + 1] = ends[n] + LengthOf(m)
      /\ ends[n] \in Nat
  <2>1. /\ \A i \in 0 .. n : ends[i] \in Nat /\ i \in 0 .. n + 1 /\ i <= n
        /\ n \in 0 .. n /\ n + 1 \in 0 .. n + 1 /\ ~ (n + 1 <= n)
    BY <1>3
  <2> HIDE DEF n
  <2> QED
    BY <2>1
<1>6. more \in [0 .. n + 1 -> Nat]
  <2>1. \A i \in 0 .. n + 1 : (IF i <= n THEN ends[i] ELSE ends[n] + LengthOf(m)) \in Nat
    BY <1>3
  <2> QED
    BY <2>1
<1> HIDE DEF r, u, n, more
<1>7. /\ \A i, j \in 0 .. n : i <= j => ends[i] <= ends[j]
      /\ ends[n] = ends[d] + Len(t)
  BY <1>1 DEF FramesEnd, n
<1>8. ASSUME NEW i \in 0 .. n + 1, NEW j \in 0 .. n + 1, i <= j
      PROVE  more[i] <= more[j]
  <2>1. CASE j \in 0 .. n
    <3>1. i \in 0 .. n
      BY <1>3, <1>8, <2>1
    <3> QED
      BY <1>5, <1>7, <1>8, <2>1, <3>1
  <2>2. CASE j = n + 1 /\ i \in 0 .. n
    <3>1. ends[i] <= ends[n] /\ ends[i] \in Nat
      BY <1>3, <1>5, <1>7, <2>2
    <3>2. more[i] = ends[i] /\ more[j] = ends[n] + LengthOf(m)
      BY <1>5, <2>2
    <3>3. ends[i] <= ends[n] + LengthOf(m)
      BY <1>3, <1>5, <3>1
    <3> QED
      BY <3>2, <3>3
  <2>3. CASE i = j
    <3>1. more[j] \in Nat
      BY <1>6
    <3> QED
      BY <2>3, <3>1
  <2> QED
    BY <1>3, <1>8, <2>1, <2>2, <2>3
<1>9. more[n + 1] = more[d] + Len(u)
  BY <1>3, <1>4, <1>5, <1>7
<1>10. ASSUME NEW i \in d + 1 .. n + 1
       PROVE  /\ more[i] = more[i - 1] + LengthOf(r[i])
              /\ \A j \in 1 .. LengthOf(r[i]) :
                    u[more[i - 1] - more[d] + j] = <<r[i], j>>
  <2>1. CASE i \in d + 1 .. Len(s)
    <3>1. /\ i - 1 \in 0 .. n /\ i \in 0 .. n /\ i \in 1 .. n
          /\ LengthOf(s[i]) \in Nat
          /\ ends[i - 1] - ends[d] \in Nat
          /\ ends[i] = ends[i - 1] + LengthOf(s[i])
          /\ ends[i - 1] - ends[d] + LengthOf(s[i]) <= Len(t)
          /\ \A j \in 1 .. LengthOf(s[i]) :
                t[ends[i - 1] - ends[d] + j] = <<s[i], j>>
      <4>1. i \in 1 .. n
        BY <1>3, <2>1 DEF n
      <4> QED
        BY <1>1, <2>1, <4>1, FramePlace DEF n
    <3>2. /\ more[i] = ends[i] /\ more[i - 1] = ends[i - 1]
          /\ more[d] = ends[d] /\ r[i] = s[i]
      BY <1>2, <1>3, <1>5, <3>1
    <3> DEFINE b == ends[i - 1] - ends[d]
    <3>3. b \in Nat /\ b + LengthOf(s[i]) <= Len(t)
          /\ \A j \in 1 .. LengthOf(s[i]) : t[b + j] = <<s[i], j>>
      BY <3>1
    <3> HIDE DEF b
    <3>4. ASSUME NEW j \in 1 .. LengthOf(s[i]) PROVE u[b + j] = <<s[i], j>>
      <4>1. b + j \in 1 .. Len(t)
        BY <1>3, <3>1, <3>3
      <4> QED
        BY <1>4, <3>3, <4>1
    <3> QED
      BY <3>1, <3>2, <3>4 DEF b
  <2>2. CASE i = n + 1
    <3>1. /\ more[i] = ends[n] + LengthOf(m) /\ r[i] = m
          /\ more[i - 1] = ends[n] /\ more[d] = ends[d] /\ ends[d] \in Nat
      <4>1. i - 1 = n /\ n \in 0 .. n
        BY <1>3, <2>2
      <4> QED
        BY <1>2, <1>3, <1>5, <2>2, <4>1
    <3>2. more[i - 1] - more[d] = Len(t)
      BY <1>3, <1>7, <3>1
    <3> QED
      BY <1>4, <3>1, <3>2
  <2>3. i \in d + 1 .. n \/ i = n + 1
    BY <1>3
  <2> QED
    BY <2>1, <2>2, <2>3 DEF n
<1>11. more \in [0 .. Len(r) -> Nat] /\ FramesEnd(r, d, u, more)
  BY <1>2, <1>6, <1>8, <1>9, <1>10 DEF FramesEnd
<1> QED
  BY <1>11 DEF Frames, r, u

(* A frame less at its beginning.                                          *)
LEMMA FrameTaken ==
  ASSUME NEW s \in Seq(Message), NEW d \in 0 .. Len(s), NEW t \in Seq(Byte),
         Frames(s, d, t), Len(t) # 0
  PROVE  Frames(s, d + 1, Skip(LengthOf(s[d + 1]), t))
<1>1. PICK ends \in [0 .. Len(s) -> Nat] : FramesEnd(s, d, t, ends)
  BY DEF Frames
<1> DEFINE e == d + 1
           u == Skip(LengthOf(s[d + 1]), t)
<1>2. /\ e \in 1 .. Len(s) /\ s[e] \in Message
      /\ LengthOf(s[e]) \in 0 .. Len(t)
  BY FrameComes
<1>3. Len(s) \in Nat /\ Len(t) \in Nat /\ e \in d + 1 .. Len(s) /\ e - 1 = d
  BY <1>2, LenProperties
<1>4. /\ Len(u) = Len(t) - LengthOf(s[e])
      /\ \A k \in 1 .. Len(t) - LengthOf(s[e]) : u[k] = t[LengthOf(s[e]) + k]
  BY <1>2, SkipIs
<1> HIDE DEF e, u
<1>5. ends[e] = ends[d] + LengthOf(s[e]) /\ ends[d] \in Nat /\ ends[e] \in Nat
  BY <1>1, <1>3, FramePlace
<1>6. /\ \A i, j \in 0 .. Len(s) : i <= j => ends[i] <= ends[j]
      /\ ends[Len(s)] = ends[d] + Len(t)
  BY <1>1 DEF FramesEnd
<1>7. ends[Len(s)] = ends[e] + Len(u)
  BY <1>2, <1>3, <1>4, <1>5, <1>6
<1>8. ASSUME NEW i \in e + 1 .. Len(s)
      PROVE  /\ ends[i] = ends[i - 1] + LengthOf(s[i])
             /\ \A j \in 1 .. LengthOf(s[i]) :
                   u[ends[i - 1] - ends[e] + j] = <<s[i], j>>
  <2>1. i \in d + 1 .. Len(s) /\ i - 1 \in 0 .. Len(s) /\ e \in 0 .. Len(s)
        /\ e <= i - 1
    BY <1>2, <1>3
  <2>2. /\ LengthOf(s[i]) \in Nat /\ ends[i - 1] \in Nat
        /\ ends[i] = ends[i - 1] + LengthOf(s[i])
        /\ ends[i - 1] - ends[d] + LengthOf(s[i]) <= Len(t)
        /\ \A j \in 1 .. LengthOf(s[i]) :
              t[ends[i - 1] - ends[d] + j] = <<s[i], j>>
    BY <1>1, <2>1, FramePlace
  <2>3. ends[e] <= ends[i - 1]
    BY <1>6, <2>1
  <2> DEFINE b == ends[i - 1] - ends[e]
  <2>4. b \in Nat /\ ends[i - 1] - ends[d] = LengthOf(s[e]) + b
    <3>1. LengthOf(s[e]) \in Nat
      BY <1>2, LengthIsNat
    <3>2. \A x, y, z, l \in Nat :
             y = z + l /\ y <= x => x - y \in Nat /\ x - z = l + (x - y)
      OBVIOUS
    <3>3. ends[i - 1] \in Nat
      BY <2>2
    <3> QED
      BY <1>5, <2>3, <3>1, <3>2, <3>3
  <2>5. b + LengthOf(s[i]) <= Len(t) - LengthOf(s[e])
    BY <1>2, <1>3, <2>2, <2>4
  <2> HIDE DEF b
  <2>6. ASSUME NEW j \in 1 .. LengthOf(s[i]) PROVE u[b + j] = <<s[i], j>>
    <3>1. b + j \in 1 .. Len(t) - LengthOf(s[e])
      BY <1>2, <1>3, <2>2, <2>4, <2>5
    <3>2. u[b + j] = t[LengthOf(s[e]) + (b + j)]
      BY <1>4, <3>1
    <3>3. LengthOf(s[e]) + (b + j) = ends[i - 1] - ends[d] + j
      BY <1>2, <2>2, <2>4
    <3> QED
      BY <2>2, <3>2, <3>3
  <2> QED
    BY <2>2, <2>6 DEF b
<1>9. FramesEnd(s, e, u, ends)
  BY <1>6, <1>7, <1>8 DEF FramesEnd
<1> QED
  BY <1>1, <1>9 DEF Frames, e, u

-----------------------------------------------------------------------------
(* What RPCDecoder reads.                                                  *)

(* When it has a header, it is that of the next message that was sent.     *)
LEMMA NextFrame ==
  ASSUME IInv, Len(in) >= Header
  PROVE  /\ decoded + 1 \in 1 .. Len(sent)
         /\ sent[decoded + 1] \in Message
         /\ \A j \in 1 .. LengthOf(sent[decoded + 1]) :
               j <= Len(in) => in[j] = <<sent[decoded + 1], j>>
<1> DEFINE t == in \o wire
<1>1. /\ t \in Seq(Byte) /\ Len(t) = Len(in) + Len(wire)
      /\ \A k \in 1 .. Len(in) + Len(wire) :
            t[k] = IF k <= Len(in) THEN in[k] ELSE wire[k - Len(in)]
  BY StreamTypes, ConcatProperties
<1>2. Frames(sent, decoded, t)
  BY DEF IInv
<1> HIDE DEF t
<1>3. Len(t) # 0 /\ \A k \in 1 .. Len(in) : t[k] = in[k]
  BY <1>1, StreamTypes DEF Header
<1>4. /\ decoded + 1 \in 1 .. Len(sent) /\ sent[decoded + 1] \in Message
      /\ \A j \in 1 .. LengthOf(sent[decoded + 1]) : t[j] = <<sent[decoded + 1], j>>
  BY <1>1, <1>2, <1>3, StreamTypes, FrameComes
<1>5. \A j \in 1 .. LengthOf(sent[decoded + 1]) :
         j <= Len(in) => in[j] = <<sent[decoded + 1], j>>
  <2>1. LengthOf(sent[decoded + 1]) \in Nat
    BY <1>4, LengthIsNat
  <2> QED
    BY <1>3, <1>4, <2>1, StreamTypes
<1> QED
  BY <1>4, <1>5

(* The length it reads is that of the message.                             *)
LEMMA LengthRead ==
  ASSUME IInv, Len(in) >= Header
  PROVE  /\ DataLength = Size[sent[decoded + 1]]
         /\ in[1][1] = sent[decoded + 1]
<1> DEFINE m == sent[decoded + 1]
<1>1. m \in Message /\ \A j \in 1 .. LengthOf(m) : j <= Len(in) => in[j] = <<m, j>>
  BY NextFrame
<1> HIDE DEF m
<1>2. Header \in 0 .. Len(in) /\ Header \in 0 .. Len(Frame(m)) /\ Header \in Nat
      /\ Header <= LengthOf(m)
  BY <1>1, LengthIsNat, FrameBytes, StreamTypes DEF Header
<1>3. in[1][1] = m
  <2>1. in[1] = <<m, 1>>
    BY <1>1, <1>2, LengthIsNat DEF Header
  <2> QED
    BY <2>1
<1>4. First(Header, in) = First(Header, Frame(m))
  <2>1. /\ First(Header, in) \in Seq(Byte) /\ Len(First(Header, in)) = Header
        /\ \A i \in 1 .. Header : First(Header, in)[i] = in[i]
    BY <1>2, FirstIs, StreamTypes
  <2>2. /\ First(Header, Frame(m)) \in Seq(Byte) /\ Len(First(Header, Frame(m))) = Header
        /\ \A i \in 1 .. Header : First(Header, Frame(m))[i] = Frame(m)[i]
    BY <1>1, <1>2, FirstIs, FrameBytes
  <2>3. \A i \in 1 .. Header : in[i] = <<m, i>> /\ Frame(m)[i] = <<m, i>>
    BY <1>1, <1>2, FrameBytes, LengthIsNat, StreamTypes
  <2> QED
    BY <2>1, <2>2, <2>3, SeqEqual
<1> QED
  BY <1>1, <1>3, <1>4 DEF DataLength, m

(* The object it makes of a whole frame is the message.                    *)
LEMMA ObjectRead ==
  ASSUME IInv, WholeFrame
  PROVE  /\ decoded + 1 \in 1 .. Len(sent)
         /\ sent[decoded + 1] \in Message
         /\ DataLength = Size[sent[decoded + 1]]
         /\ LengthOf(sent[decoded + 1]) \in 4 .. Len(in)
         /\ Deserialized(First(DataLength, Skip(Header, in))) = sent[decoded + 1]
<1> DEFINE m == sent[decoded + 1]
           data == First(DataLength, Skip(Header, in))
<1>1. Len(in) >= Header
  BY DEF WholeFrame
<1>2. /\ decoded + 1 \in 1 .. Len(sent) /\ m \in Message
      /\ \A j \in 1 .. LengthOf(m) : j <= Len(in) => in[j] = <<m, j>>
  BY <1>1, NextFrame
<1>3. DataLength = Size[m] /\ in[1][1] = m
  BY <1>1, LengthRead
<1> HIDE DEF m
<1>4. /\ LengthOf(m) <= Len(in) /\ Size[m] \in Nat /\ Len(in) \in Nat
      /\ LengthOf(m) = Size[m] + 4 /\ Header = 4
  BY <1>2, <1>3, LengthIsNat, StreamTypes DEF WholeFrame, Header
<1>5. /\ Skip(Header, in) \in Seq(Byte)
      /\ Len(Skip(Header, in)) = Len(in) - Header
      /\ \A i \in 1 .. Len(in) - Header : Skip(Header, in)[i] = in[Header + i]
  <2>1. Header \in 0 .. Len(in) /\ in \in Seq(Byte)
    BY <1>4, StreamTypes
  <2> QED
    BY <2>1, SkipIs
<1>6. /\ data \in Seq(Byte) /\ Len(data) = Size[m]
      /\ \A i \in 1 .. Size[m] : data[i] = Skip(Header, in)[i]
  BY <1>3, <1>4, <1>5, FirstIs
<1> HIDE DEF data
<1>7. ASSUME NEW i \in 1 .. Size[m] PROVE data[i] = <<m, Header + i>>
  <2>1. /\ i \in 1 .. Len(in) - Header /\ Header + i \in 1 .. LengthOf(m)
        /\ Header + i <= Len(in)
    BY <1>4
  <2>2. data[i] = in[Header + i]
    BY <1>5, <1>6, <2>1
  <2> QED
    BY <1>2, <2>1, <2>2
<1>8. /\ Skip(Header, Frame(m)) \in Seq(Byte)
      /\ Len(Skip(Header, Frame(m))) = Size[m]
      /\ \A i \in 1 .. Size[m] : Skip(Header, Frame(m))[i] = Frame(m)[Header + i]
  <2>1. /\ Frame(m) \in Seq(Byte) /\ Len(Frame(m)) = LengthOf(m)
        /\ Header \in 0 .. Len(Frame(m)) /\ Len(Frame(m)) - Header = Size[m]
    BY <1>2, <1>4, FrameBytes
  <2> QED
    BY <2>1, SkipIs
<1>9. \A i \in 1 .. Size[m] : Frame(m)[Header + i] = <<m, Header + i>>
  <2>1. \A i \in 1 .. LengthOf(m) : Frame(m)[i] = <<m, i>>
    BY <1>2, FrameBytes
  <2>2. \A i \in 1 .. Size[m] : Header + i \in 1 .. LengthOf(m)
    BY <1>4
  <2> QED
    BY <2>1, <2>2
<1>10. data = Skip(Header, Frame(m))
  <2>1. Len(data) = Len(Skip(Header, Frame(m)))
    BY <1>6, <1>8
  <2>2. \A i \in 1 .. Len(data) : data[i] = Skip(Header, Frame(m))[i]
    BY <1>6, <1>7, <1>8, <1>9
  <2> QED
    BY <1>6, <1>8, <2>1, <2>2, SeqEqual
<1>11. Deserialized(data) = m
  <2>1. CASE Size[m] = 0
    <3>1. data = <<>>
      BY <1>6, <2>1, EmptySeq
    <3> QED
      BY <1>3, <2>1, <3>1 DEF Deserialized
  <2>2. CASE Size[m] # 0
    <3>1. data # <<>> /\ data[1][1] = m
      <4>1. data[1] = <<m, Header + 1>>
        BY <1>4, <1>7, <2>2
      <4>2. Len(data) # 0
        BY <1>6, <2>2
      <4> QED
        BY <4>1, <4>2, EmptySeq
    <3> QED
      BY <1>2, <1>10, <3>1 DEF Deserialized
  <2> QED
    BY <2>1, <2>2
<1>12. LengthOf(m) \in 4 .. Len(in)
  BY <1>4
<1> QED
  BY <1>2, <1>3, <1>11, <1>12 DEF m, data

-----------------------------------------------------------------------------
(* Every step keeps the invariant.                                         *)

LEMMA InvInit == Init => IInv
<1> SUFFICES ASSUME Init PROVE IInv
  OBVIOUS
<1>1. sent = <<>> /\ in = <<>> /\ wire = <<>> /\ received = <<>> /\ decoded = 0
  BY DEF Init
<1>2. TypeOK
  <2>1. /\ sent \in Seq(Message) /\ wire \in Seq(Byte) /\ in \in Seq(Byte)
        /\ received \in Seq(Message \cup {Garbage}) /\ decoded \in Nat
    BY <1>1, EmptySeq
  <2>2. /\ unsent \subseteq Message /\ decoding \in BOOLEAN /\ open \in BOOLEAN
        /\ ended \in BOOLEAN /\ (ended => ~open)
    BY Zenon DEF Init
  <2> QED
    BY <2>1, <2>2 DEF TypeOK
<1>3. Len(sent) = 0 /\ Len(in \o wire) = 0
  <2>1. in \in Seq(Byte) /\ wire \in Seq(Byte)
    BY <1>2 DEF TypeOK
  <2> QED
    BY <1>1, <2>1, EmptySeq, ConcatProperties
<1> DEFINE none == [i \in 0 .. Len(sent) |-> 0]
           t == in \o wire
<1>4. none \in [0 .. Len(sent) -> Nat] /\ \A i \in 0 .. Len(sent) : none[i] = 0
  OBVIOUS
<1> HIDE DEF none, t
<1>5. FramesEnd(sent, 0, in \o wire, none)
  BY <1>3, <1>4 DEF FramesEnd
<1> QED
  BY <1>1, <1>2, <1>3, <1>4, <1>5 DEF IInv, Frames

LEMMA EncodeKeeps ==
  ASSUME IInv, NEW m \in Message, Encode(m) PROVE IInv'
<1>1. /\ UNCHANGED <<in, decoding, open, ended, received, decoded>>
      /\ unsent' = unsent \ {m}
  BY DEF Encode
<1>2. CASE UNCHANGED <<sent, wire>>
  BY <1>1, <1>2 DEF IInv, TypeOK
<1>3. CASE sent' = Append(sent, m) /\ wire' = wire \o Frame(m)
  <2>1. /\ sent' \in Seq(Message) /\ Len(sent') = Len(sent) + 1
        /\ wire' \in Seq(Byte)
    BY <1>3, AppendProperties, ConcatProperties, FrameBytes, StreamTypes
  <2>2. TypeOK' /\ decoded' <= Len(sent')
    BY <1>1, <2>1, StreamTypes DEF IInv, TypeOK
  <2>3. in' \o wire' = (in \o wire) \o Frame(m)
    BY <1>1, <1>3, ConcatAssociative, FrameBytes, StreamTypes
  <2>4. in \o wire \in Seq(Byte)
    BY StreamTypes, ConcatProperties
  <2>5. Frames(sent', decoded', in' \o wire')
    BY <1>1, <1>3, <2>3, <2>4, FrameWritten, StreamTypes DEF IInv
  <2> QED
    BY <2>2, <2>5 DEF IInv
<1> QED
  BY <1>2, <1>3 DEF Encode

(* Of the stream only the bytes in all count, not where it has been cut.   *)
LEMMA ChannelReadKeeps ==
  ASSUME IInv, NEW n \in 1 .. Len(wire), ChannelRead(n) PROVE IInv'
<1>1. /\ in' = in \o First(n, wire) /\ wire' = Skip(n, wire) /\ decoding' = TRUE
      /\ UNCHANGED <<unsent, sent, open, ended, received, decoded>>
  BY DEF ChannelRead
<1>2. /\ in \in Seq(Byte) /\ wire \in Seq(Byte) /\ Len(wire) \in Nat
      /\ n \in 0 .. Len(wire) /\ n \in Nat
  BY StreamTypes
<1>3. First(n, wire) \in Seq(Byte) /\ Skip(n, wire) \in Seq(Byte)
  BY <1>2, FirstIs, SkipIs
<1>4. First(n, wire) \o Skip(n, wire) = wire
  <2>1. SubSeq(wire, 1, n) \o SubSeq(wire, n + 1, Len(wire))
           = SubSeq(wire, 1, Len(wire))
    <3>1. /\ 1 \in 1 .. Len(wire) + 1 /\ n \in 1 - 1 .. Len(wire)
          /\ Len(wire) \in n .. Len(wire)
      BY <1>2
    <3> QED
      BY <1>2, <3>1, ConcatAdjacentSubSeq
  <2> QED
    BY <1>2, <2>1, SubSeqFull DEF First, Skip
<1>5. in' \o wire' = in \o wire
  <2>1. (in \o First(n, wire)) \o Skip(n, wire) = in \o (First(n, wire) \o Skip(n, wire))
    BY <1>2, <1>3, ConcatAssociative
  <2> QED
    BY <1>1, <1>4, <2>1, Zenon
<1>6. TypeOK'
  <2>1. in' \in Seq(Byte)
    BY <1>1, <1>2, <1>3, ConcatProperties
  <2> QED
    BY <1>1, <1>3, <2>1 DEF IInv, TypeOK
<1> QED
  BY <1>1, <1>5, <1>6 DEF IInv

(* Reading a frame.                                                        *)
LEMMA ReadKeeps ==
  ASSUME IInv, WholeFrame, in' = Skip(Header + DataLength, in),
         decoded' = decoded + 1, UNCHANGED <<sent, wire>>
  PROVE  /\ in' \in Seq(Byte)
         /\ decoded' \in Nat /\ decoded' <= Len(sent')
         /\ Frames(sent', decoded', in' \o wire')
<1> DEFINE m == sent[decoded + 1]
           l == LengthOf(m)
<1>1. /\ decoded + 1 \in 1 .. Len(sent) /\ m \in Message
      /\ Header + DataLength = l /\ l \in 4 .. Len(in)
  BY ObjectRead DEF LengthOf
<1>2. /\ in \in Seq(Byte) /\ wire \in Seq(Byte)
      /\ Len(in) \in Nat /\ Len(wire) \in Nat /\ l \in 0 .. Len(in)
  BY <1>1, StreamTypes
<1> HIDE DEF l, m
<1>3. in' \in Seq(Byte)
  BY <1>1, <1>2, SkipIs
<1>4. in \o wire \in Seq(Byte) /\ Len(in \o wire) = Len(in) + Len(wire)
  BY <1>2, ConcatProperties
<1>5. in' \o wire = Skip(l, in \o wire)
  BY <1>1, <1>2, SkipOfConcat
<1>6. Len(in \o wire) # 0
  BY <1>1, <1>2, <1>4
<1>7. Frames(sent, decoded + 1, Skip(l, in \o wire))
  BY <1>4, <1>6, FrameTaken, StreamTypes DEF IInv, l, m
<1>8. Frames(sent', decoded', in' \o wire')
  BY <1>5, <1>7
<1> QED
  BY <1>1, <1>3, <1>8, StreamTypes

LEMMA DecodeKeeps ==
  ASSUME IInv, Decode \/ DecodeFails PROVE IInv'
<1>1. /\ WholeFrame /\ in' = Skip(Header + DataLength, in)
      /\ decoded' = decoded + 1 /\ UNCHANGED <<unsent, sent, wire, ended>>
      /\ decoding' \in BOOLEAN /\ (open' = open \/ open' = FALSE)
  BY DEF Decode, DecodeFails, LoopGoesOn
<1>2. /\ in' \in Seq(Byte)
      /\ decoded' \in Nat /\ decoded' <= Len(sent')
      /\ Frames(sent', decoded', in' \o wire')
  BY <1>1, ReadKeeps
<1>3. received' \in Seq(Message \cup {Garbage})
  <2>1. received \in Seq(Message \cup {Garbage})
    BY DEF IInv, TypeOK
  <2>2. received' = received \/ received' = Append(received, sent[decoded + 1])
    BY <1>1, ObjectRead DEF Decode, DecodeFails
  <2>3. sent[decoded + 1] \in Message \cup {Garbage}
    BY <1>1, ObjectRead
  <2> QED
    BY <2>1, <2>2, <2>3, AppendProperties
<1>4. TypeOK'
  <2>1. /\ sent' \in Seq(Message) /\ wire' \in Seq(Byte) /\ unsent' \subseteq Message
    BY <1>1 DEF IInv, TypeOK
  <2>2. /\ decoding' \in BOOLEAN /\ open' \in BOOLEAN /\ ended' \in BOOLEAN
        /\ (ended' => ~open')
    <3>1. open \in BOOLEAN /\ ended \in BOOLEAN /\ (ended => ~open)
      BY DEF IInv, TypeOK
    <3>2. CASE open' = open
      BY <1>1, <3>1, <3>2, Zenon
    <3>3. CASE open' = FALSE
      BY <1>1, <3>1, <3>3, Zenon
    <3> QED
      BY <1>1, <3>2, <3>3
  <2> QED
    BY <1>2, <1>3, <2>1, <2>2 DEF TypeOK
<1> QED
  BY <1>2, <1>4 DEF IInv

LEMMA InvNext == IInv /\ [Next]_vars => IInv'
<1> SUFFICES ASSUME IInv, [Next]_vars PROVE IInv'
  OBVIOUS
<1>1. CASE AwaitMore \/ Cut \/ ChannelInactive \/ UNCHANGED vars
  <2>1. /\ UNCHANGED <<unsent, sent, wire, in, received, decoded>>
        /\ decoding' \in BOOLEAN /\ open' \in BOOLEAN /\ ended' \in BOOLEAN
        /\ (ended' => ~open')
    <3>1. decoding \in BOOLEAN /\ open \in BOOLEAN /\ ended \in BOOLEAN
          /\ (ended => ~open)
      BY DEF IInv, TypeOK
    <3>2. CASE AwaitMore
      BY <3>1, <3>2, Zenon DEF AwaitMore
    <3>3. CASE Cut
      BY <3>1, <3>3, Zenon DEF Cut
    <3>4. CASE ChannelInactive
      BY <3>1, <3>4, Zenon DEF ChannelInactive
    <3>5. CASE UNCHANGED vars
      BY <3>1, <3>5, Zenon DEF vars
    <3> QED
      BY <1>1, <3>2, <3>3, <3>4, <3>5
  <2> QED
    BY <2>1 DEF IInv, TypeOK
<1> QED
  BY <1>1, EncodeKeeps, ChannelReadKeeps, DecodeKeeps
     DEF Next, ReceiverStep, Quiescent

LEMMA Invariant == Spec => []IInv
  BY InvInit, InvNext, PTL DEF Spec

-----------------------------------------------------------------------------
(* What comes out of the decoder are messages, whatever arrives when.      *)
THEOREM CodecTypeCorrect == Spec => []TypeOK
<1>1. IInv => TypeOK
  BY DEF IInv
<1> QED
  BY <1>1, Invariant, PTL

(* No complete frame waits in the decoder for the next bytes to come.      *)
THEOREM FramesAreTaken == Spec => []NoFrameLeftBehind
<1>1. Init => NoFrameLeftBehind
  BY DEF Init, NoFrameLeftBehind, WholeFrame, Header
<1>2. NoFrameLeftBehind /\ [Next]_vars => NoFrameLeftBehind'
  <2> SUFFICES ASSUME NoFrameLeftBehind, [Next]_vars PROVE NoFrameLeftBehind'
    OBVIOUS
  <2>1. CASE UNCHANGED <<in, open, decoding>>
    BY <2>1 DEF NoFrameLeftBehind, WholeFrame, DataLength
  <2>2. CASE open' = FALSE \/ decoding' = TRUE
    BY <2>2 DEF NoFrameLeftBehind
  <2>3. CASE AwaitMore
    BY <2>3 DEF AwaitMore, NoFrameLeftBehind, WholeFrame, DataLength
  <2> QED
    BY <2>1, <2>2, <2>3
       DEF Next, ReceiverStep, Encode, ChannelRead, Decode, LoopGoesOn,
           DecodeFails, ChannelInactive, Cut, Quiescent, vars
<1> QED
  BY <1>1, <1>2, PTL DEF Spec

(* However the stream is cut, the two ends of a channel are a link that    *)
(* delivers whole messages, each once and in order, but for those that     *)
(* cannot be deserialized.                                                 *)
THEOREM CodecIsFifo == Spec => ImplementsFifo
<1>1. Init => Link!LinkInit
  BY DEF Init, Link!LinkInit
<1>2. ASSUME IInv, [Next]_vars PROVE [Link!LinkNext]_(Link!linkVars)
  <2>1. ASSUME NEW m \in Message, Encode(m)
        PROVE  [Link!LinkNext]_(Link!linkVars)
    BY <2>1 DEF Encode, Link!LinkNext, Link!Send, Link!linkVars
  <2>2. CASE Decode \/ DecodeFails
    <3>1. /\ WholeFrame /\ decoded' = decoded + 1 /\ UNCHANGED sent
      BY <2>2 DEF Decode, DecodeFails
    <3>2. /\ decoded + 1 \in 1 .. Len(sent)
          /\ Deserialized(First(DataLength, Skip(Header, in))) = sent[decoded + 1]
      BY <1>2, <3>1, ObjectRead
    <3>3. Link!Take
      BY <1>2, <3>1, <3>2, StreamTypes DEF Link!Take
    <3>4. CASE Decode
      BY <3>2, <3>3, <3>4 DEF Decode, Link!LinkNext, Link!Receive
    <3>5. CASE DecodeFails
      BY <3>2, <3>3, <3>5 DEF DecodeFails, Link!LinkNext, Link!Lose
    <3> QED
      BY <2>2, <3>4, <3>5
  <2>3. CASE UNCHANGED <<sent, decoded, received>>
    BY <2>3 DEF Link!linkVars
  <2> QED
    BY <1>2, <2>1, <2>2, <2>3
       DEF Next, ReceiverStep, ChannelRead, AwaitMore, ChannelInactive, Cut,
           Quiescent, vars
<1> QED
  BY <1>1, <1>2, Invariant, PTL DEF Spec, ImplementsFifo, Link!LinkSpec
=============================================================================
