-------------------------- MODULE SlsWriterProofs --------------------------
(***************************************************************************)
(* Proofs about SlsWriter, for every set of messages, batch size and bound.*)
(***************************************************************************)
EXTENDS SlsWriter, SequenceTheorems, TLAPS

----------------------------------------------------------------------------
(* Lemmas about sequences. *)

\* The head of the queue moved to the end of the batch keeps their order.
LEMMA MoveHead ==
    ASSUME NEW S, NEW p \in Seq(S), NEW b \in Seq(S),
           NEW q \in Seq(S), q # <<>>
    PROVE  p \o b \o q = p \o Append(b, Head(q)) \o Tail(q)
<1>1. Head(q) \in S /\ Tail(q) \in Seq(S) /\ <<Head(q)>> \in Seq(S)
  BY HeadTailProperties
<1>2. q = <<Head(q)>> \o Tail(q)
  <2>1. <<Head(q)>> \o Tail(q) \in Seq(S)
    BY <1>1, ConcatProperties
  <2>2. Len(<<Head(q)>> \o Tail(q)) = Len(q)
    BY <1>1, ConcatProperties, HeadTailProperties, LenProperties, EmptySeq
  <2>3. \A i \in 1 .. Len(q) : q[i] = (<<Head(q)>> \o Tail(q))[i]
    BY <1>1, ConcatProperties, HeadTailProperties, LenProperties
  <2> QED  BY <2>1, <2>2, <2>3, SeqEqual
<1>3. Append(b, Head(q)) = b \o <<Head(q)>>
  BY <1>1, AppendIsConcat
<1>4. b \o <<Head(q)>> \in Seq(S) /\ p \o b \in Seq(S)
  BY <1>1, ConcatProperties
<1>5. p \o (b \o <<Head(q)>>) = (p \o b) \o <<Head(q)>>
  BY <1>1, ConcatAssociative
<1>6. ((p \o b) \o <<Head(q)>>) \o Tail(q) = (p \o b) \o (<<Head(q)>> \o Tail(q))
  BY <1>1, <1>4, ConcatAssociative
<1> QED  BY <1>2, <1>3, <1>5, <1>6

\* The part that follows a prefix is what SubSeq takes after it.
LEMMA NextEntries ==
    ASSUME NEW S, NEW s \in Seq(S), NEW g \in Seq(S), NEW r \in Seq(S)
    PROVE  SubSeq(s \o g \o r, Len(s) + 1, Len(s) + Len(g)) = g
<1> DEFINE a == s \o g \o r
<1>1. s \o g \in Seq(S) /\ a \in Seq(S) /\ Len(s \o g) = Len(s) + Len(g)
      /\ Len(a) = Len(s) + Len(g) + Len(r)
  BY ConcatProperties
<1>2. Len(s) \in Nat /\ Len(g) \in Nat /\ Len(r) \in Nat
  BY LenProperties
<1>3. \A i \in 1 .. Len(g) : a[Len(s) + i] = g[i]
  <2> SUFFICES ASSUME NEW i \in 1 .. Len(g)
               PROVE  a[Len(s) + i] = g[i]
    OBVIOUS
  <2>1. a[Len(s) + i] = (s \o g)[Len(s) + i]
    BY <1>1, <1>2, ConcatProperties
  <2>2. (s \o g)[Len(s) + i] = g[i]
    BY <1>2, ConcatProperties
  <2> QED  BY <2>1, <2>2
<1> DEFINE t == SubSeq(a, Len(s) + 1, Len(s) + Len(g))
<1>4. \A i \in (Len(s) + 1) .. (Len(s) + Len(g)) : a[i] \in S
  BY <1>1, <1>2, ElementOfSeq
<1>5. /\ t \in Seq(S)
      /\ Len(t) = Len(g)
      /\ \A i \in 1 .. Len(g) : t[i] = a[Len(s) + i]
  <2> HIDE DEF a
  <2>1. Len(s) + 1 \in Int /\ Len(s) + Len(g) \in Int
    BY <1>2
  <2>2. /\ t \in Seq(S)
        /\ Len(t) = IF Len(s) + 1 <= Len(s) + Len(g)
                    THEN Len(s) + Len(g) - (Len(s) + 1) + 1 ELSE 0
        /\ \A i \in 1 .. Len(s) + Len(g) - (Len(s) + 1) + 1 :
              t[i] = a[Len(s) + 1 + i - 1]
    BY <2>1, <1>4, SubSeqProperties
  <2> QED  BY <2>2, <1>2
<1> QED
  <2> HIDE DEF t, a
  <2>1. t = g
    BY <1>3, <1>5, SeqEqual
  <2> QED  BY <2>1 DEF t, a

----------------------------------------------------------------------------
(* Type correctness. *)

\* The two kinds of entries.
LEMMA Entries == WarnMsg \in Entry /\ \A m \in Msg : m \in Entry
BY DEF Entry

\* Sequences of entries, as the steps below build them.
LEMMA EntrySequences ==
    ASSUME NEW s \in Seq(Entry)
    PROVE  /\ \A e \in Entry : Append(s, e) \in Seq(Entry)
           /\ \A e \in Entry : Append(s, e) # <<>>
           /\ \A e \in Entry : Len(Append(s, e)) = Len(s) + 1
           /\ s # <<>> => Head(s) \in Entry /\ Tail(s) \in Seq(Entry)
           /\ \A t \in Seq(Entry) : s \o t \in Seq(Entry)
           /\ Len(s) \in Nat
BY AppendProperties, HeadTailProperties, ConcatProperties, LenProperties

\* The two moves, and associativity, for the four buffers.
LEMMA EntryAppend ==
    \A p, q \in Seq(Entry), e \in Entry : Append(p \o q, e) = p \o Append(q, e)
<1> SUFFICES ASSUME NEW p \in Seq(Entry), NEW q \in Seq(Entry), NEW e \in Entry
             PROVE  Append(p \o q, e) = p \o Append(q, e)
  OBVIOUS
<1>1. p \o q \in Seq(Entry) /\ <<e>> \in Seq(Entry)
  BY ConcatProperties
<1>2. Append(p \o q, e) = (p \o q) \o <<e>>
  BY <1>1, AppendIsConcat
<1>3. Append(q, e) = q \o <<e>>
  BY AppendIsConcat
<1>4. (p \o q) \o <<e>> = p \o (q \o <<e>>)
  BY <1>1, ConcatAssociative
<1> QED  BY <1>2, <1>3, <1>4

LEMMA EntryMove ==
    \A p, b, q \in Seq(Entry) :
        q # <<>> => p \o b \o q = p \o Append(b, Head(q)) \o Tail(q)
BY MoveHead

LEMMA EntryAssociative ==
    \A p, g, b \in Seq(Entry) : (p \o g) \o b = p \o (g \o b)
BY ConcatAssociative

\* Every reachable state is well typed, and no empty group is ever uploaded.
THEOREM TypeCorrect == Spec => []TypeOK
<1>1. Init => TypeOK
  BY SlsWriterAssumption, EmptySeq DEF Init, TypeOK, Entry
<1>2. TypeOK /\ [Next]_vars => TypeOK'
  <2> SUFFICES ASSUME TypeOK, [Next]_vars
               PROVE  TypeOK'
    OBVIOUS
  <2> USE SlsWriterAssumption DEF TypeOK, lifecycle, channel, NoUpload
  <2>1. ASSUME NEW m \in Msg, Emit(m) PROVE TypeOK'
    <3>1. queue' \in Seq(Entry) /\ accepted' \in Seq(Entry)
      BY <2>1, Entries, EntrySequences DEF Emit, Send
    <3>2. events' \in 0 .. MaxEvents
      BY <2>1 DEF Emit
    <3> QED  BY <2>1, <3>1, <3>2 DEF Emit, writing
  <2>2. CASE Recv
    <3>1. queue' \in Seq(Entry)
      BY <2>2, HeadTailProperties DEF Recv
    <3>2. Append(batch, Head(queue)) \in Seq(Entry)
          /\ Append(batch, Head(queue)) # <<>>
      BY <2>2, EntrySequences DEF Recv
    <3> QED  BY <2>2, <3>1, <3>2, EmptySeq DEF Recv, Flush, Push, Empty
  <2>3. CASE RecvClosed
    BY <2>3, EmptySeq DEF RecvClosed, Flush, Empty
  <2>4. CASE Tick
    BY <2>4, EmptySeq DEF Tick, Flush, Stale, Empty
  <2>5. CASE Shutdown
    BY <2>5 DEF Shutdown
  <2>6. CASE DrainOne
    <3>1. queue' \in Seq(Entry) /\ batch' \in Seq(Entry)
      BY <2>6, HeadTailProperties, AppendProperties DEF DrainOne, Push
    <3> QED  BY <2>6, <3>1 DEF DrainOne
  <2>7. CASE DrainEnd
    BY <2>7, EmptySeq DEF DrainEnd, Flush, Empty
  <2>8. CASE PutOk
    BY <2>8, ConcatProperties, EmptySeq DEF PutOk
  <2>9. CASE PutFail
    BY <2>9, ConcatProperties, EmptySeq DEF PutFail
  <2>10. CASE Warn
    BY <2>10, Entries, EntrySequences DEF Warn, Send
  <2>11. CASE Exit
    BY <2>11 DEF Exit
  <2>12. CASE Owner
    BY <2>12, LenProperties
    DEF Owner, InstallLayer, AbortLayer, AbortHandle, FlushAndShutdown,
        Return, DropLayer, writing
  <2>13. CASE UNCHANGED vars
    BY <2>13 DEF vars, writing
  <2> QED
    BY <2>1, <2>2, <2>3, <2>4, <2>5, <2>6, <2>7, <2>8, <2>9, <2>10, <2>11,
       <2>12, <2>13 DEF Next, Writer
<1> QED  BY <1>1, <1>2, PTL DEF Spec

----------------------------------------------------------------------------
(* Conservation. *)

\* No entry is lost, duplicated or reordered between layer and upload.
THEOREM Conserved == Spec => []Conservation
<1>1. Init => Conservation
  BY ConcatEmptySeq, EmptySeq DEF Init, Conservation
<1>2. TypeOK /\ Conservation /\ [Next]_vars => Conservation'
  <2> SUFFICES ASSUME TypeOK, Conservation, [Next]_vars
               PROVE  Conservation'
    OBVIOUS
  <2> USE DEF Conservation, lifecycle, channel, NoUpload
  <2>0. /\ settled \in Seq(Entry) /\ group \in Seq(Entry)
        /\ batch \in Seq(Entry) /\ queue \in Seq(Entry)
        /\ accepted \in Seq(Entry) /\ <<>> \in Seq(Entry)
        /\ settled \o group \in Seq(Entry)
        /\ (group # <<>>) <=> (writer = "put")
    BY ConcatProperties, EmptySeq DEF TypeOK
  <2>a. ASSUME NEW e \in Entry, Send(e), UNCHANGED <<settled, group, batch>>
        PROVE  Conservation'
    <3>1. settled \o group \o batch \in Seq(Entry)
      BY <2>0, ConcatProperties
    <3>2. Append(settled \o group \o batch \o queue, e)
            = settled \o group \o batch \o Append(queue, e)
      BY <2>0, <2>a, <3>1, EntryAppend
    <3> QED  BY <2>a, <3>2 DEF Send
  <2>b. ASSUME NEW b \in Seq(Entry), NEW ret,
               group = <<>>, settled' = settled, accepted' = accepted,
               accepted = settled \o group \o b \o queue',
               Flush(b, ret)
        PROVE  Conservation'
    <3>1. group' \o batch' = b
      <4>1. CASE b = <<>>
        BY <4>1, <2>0, <2>b, ConcatEmptySeq DEF Flush, Empty
      <4>2. CASE b # <<>>
        BY <4>2, <2>0, <2>b, ConcatEmptySeq DEF Flush, Empty
      <4> QED  BY <4>1, <4>2
    <3>2. settled \o group \o b = settled \o b
      BY <2>0, <2>b, ConcatEmptySeq
    <3>3. group' \in Seq(Entry) /\ batch' \in Seq(Entry)
      BY <2>0, <2>b DEF Flush, Empty
    <3>4. settled \o group' \o batch' = settled \o (group' \o batch')
      <4>1. settled \in Seq(Entry)
        BY <2>0
      <4> QED  BY <4>1, <3>3, EntryAssociative
    <3> QED  BY <2>b, <3>1, <3>2, <3>4
  <2>1. ASSUME NEW m \in Msg, Emit(m) PROVE Conservation'
    BY <2>1, <2>a, Entries DEF Emit, writing
  <2>2. CASE Recv
    <3> DEFINE b == Append(batch, Head(queue))
    <3>1. b \in Seq(Entry)
      BY <2>0, <2>2, HeadTailProperties, AppendProperties DEF Recv
    <3>2. accepted = settled \o group \o b \o queue'
      <4>1. queue # <<>> /\ queue' = Tail(queue)
        BY <2>2 DEF Recv
      <4> QED  BY <2>0, <4>1, EntryMove
    <3>3. group = <<>> /\ settled' = settled /\ accepted' = accepted
      BY <2>0, <2>2 DEF Recv
    <3> HIDE DEF b
    <3>4. CASE Full(b)
      <4>1. Flush(b, "select")
        BY <2>2, <3>4 DEF Recv, Push, b
      <4> QED  BY <2>b, <3>1, <3>2, <3>3, <4>1
    <3>5. CASE ~Full(b)
      <4>1. batch' = b /\ group' = group
        BY <2>2, <3>5 DEF Recv, Push, b
      <4> QED  BY <3>2, <3>3, <4>1
    <3> QED  BY <3>4, <3>5
  <2>3. CASE RecvClosed
    BY <2>0, <2>3, <2>b DEF RecvClosed
  <2>4. CASE Tick
    BY <2>0, <2>4, <2>b DEF Tick
  <2>5. CASE Shutdown
    BY <2>5 DEF Shutdown
  <2>6. CASE DrainOne
    <3>1. /\ queue # <<>> /\ queue' = Tail(queue)
          /\ batch' = Append(batch, Head(queue))
          /\ UNCHANGED <<accepted, settled, group>>
      BY <2>6 DEF DrainOne, Push
    <3>2. accepted = settled \o group \o Append(batch, Head(queue)) \o Tail(queue)
      BY <2>0, <3>1, EntryMove
    <3> QED  BY <3>1, <3>2
  <2>7. CASE DrainEnd
    BY <2>0, <2>7, <2>b DEF DrainEnd
  <2>8. CASE PutOk
    BY <2>0, <2>8, ConcatEmptySeq DEF PutOk
  <2>9. CASE PutFail
    BY <2>0, <2>9, ConcatEmptySeq DEF PutFail
  <2>10. CASE Warn
    BY <2>10, <2>a, Entries DEF Warn
  <2>11. CASE Exit
    BY <2>11 DEF Exit
  <2>12. CASE Owner
    BY <2>12
    DEF Owner, InstallLayer, AbortLayer, AbortHandle, FlushAndShutdown,
        Return, DropLayer, writing
  <2>13. CASE UNCHANGED vars
    BY <2>13 DEF vars, writing
  <2> QED
    BY <2>1, <2>2, <2>3, <2>4, <2>5, <2>6, <2>7, <2>8, <2>9, <2>10, <2>11,
       <2>12, <2>13 DEF Next, Writer
<1> QED  BY <1>1, <1>2, TypeCorrect, PTL DEF Spec

----------------------------------------------------------------------------
(* The batch. *)

\* What keeps uploads bounded: the batch is short at the top of the loop and
\* empty while flush_batch runs on its behalf.
BatchInv ==
    /\ BatchBound
    /\ writer = "select" => Len(batch) < BatchSize
    /\ writer \in {"put", "warn"} => batch = <<>>
    /\ after = "exit" => writer \in {"put", "warn", "exit", "gone"}

\* Every upload but the last carries at most BATCH_SIZE entries.
THEOREM UploadsBounded == Spec => []BatchBound
<1>1. Init => BatchInv
  BY SlsWriterAssumption, EmptySeq DEF Init, BatchInv, BatchBound
<1>2. TypeOK /\ BatchInv /\ [Next]_vars => BatchInv'
  <2> SUFFICES ASSUME TypeOK, BatchInv, [Next]_vars
               PROVE  BatchInv'
    OBVIOUS
  <2> USE SlsWriterAssumption DEF BatchInv, BatchBound, NoUpload
  <2>0. /\ Len(<<>>) = 0 /\ Len(batch) \in Nat
        /\ (group # <<>>) <=> (writer = "put")
        /\ after \in {"select", "exit"}
    BY LenProperties, EmptySeq DEF TypeOK
  <2>1. ASSUME NEW m \in Msg, Emit(m) PROVE BatchInv'
    BY <2>1 DEF Emit, writing
  <2>2. CASE Recv
    <3>1. queue # <<>> /\ queue \in Seq(Entry) /\ batch \in Seq(Entry)
      BY <2>2 DEF Recv, TypeOK
    <3> DEFINE b == Append(batch, Head(queue))
    <3>2. Len(b) = Len(batch) + 1 /\ b # <<>>
      BY <3>1, EntrySequences
    <3> HIDE DEF b
    <3>3. writer = "select" /\ after = "select" /\ Len(b) <= BatchSize
      BY <2>0, <2>2, <3>2 DEF Recv
    <3>4. CASE Full(b)
      <4>1. Flush(b, "select")
        BY <2>2, <3>4 DEF Recv, Push, b
      <4> QED  BY <2>0, <3>2, <3>3, <4>1 DEF Flush, Empty
    <3>5. CASE ~Full(b)
      <4>1. batch' = b /\ UNCHANGED <<group, writer, after>>
        BY <2>2, <3>5 DEF Recv, Push, b
      <4>2. Len(b) < BatchSize
        BY <2>0, <3>2, <3>5 DEF Full
      <4> QED  BY <2>0, <3>3, <4>1, <4>2
    <3> QED  BY <3>4, <3>5
  <2>3. CASE RecvClosed
    BY <2>0, <2>3 DEF RecvClosed, Flush, Empty
  <2>4. CASE Tick
    BY <2>0, <2>4 DEF Tick, Flush, Stale, Empty
  <2>5. CASE Shutdown
    BY <2>5 DEF Shutdown
  <2>6. CASE DrainOne
    BY <2>6 DEF DrainOne
  <2>7. CASE DrainEnd
    BY <2>0, <2>7 DEF DrainEnd, Flush, Empty
  <2>8. CASE PutOk
    BY <2>0, <2>8 DEF PutOk
  <2>9. CASE PutFail
    BY <2>0, <2>9 DEF PutFail
  <2>10. CASE Warn
    BY <2>0, <2>10 DEF Warn
  <2>11. CASE Exit
    BY <2>11 DEF Exit
  <2>12. CASE Owner
    BY <2>12
    DEF Owner, InstallLayer, AbortLayer, AbortHandle, FlushAndShutdown,
        Return, DropLayer, writing
  <2>13. CASE UNCHANGED vars
    BY <2>13 DEF vars, writing
  <2> QED
    BY <2>1, <2>2, <2>3, <2>4, <2>5, <2>6, <2>7, <2>8, <2>9, <2>10, <2>11,
       <2>12, <2>13 DEF Next, Writer
<1>3. BatchInv => BatchBound
  BY DEF BatchInv
<1> QED  BY <1>1, <1>2, <1>3, TypeCorrect, PTL DEF Spec

----------------------------------------------------------------------------
(* Shutdown. *)

\* The writer has begun to finish.
Ending == writer \in {"drain", "exit", "gone"} \/ after = "exit"

\* The writer finishes only for a reason, and once asked by flush_and_shutdown
\* it never passes the entries queued before the request.
ShutdownInv ==
    /\ mark <= Len(accepted)
    /\ Ending => signal # "none" \/ layer = "dropped"
    /\ handle = "held" => signal = "none"
    /\ handle = "dropped" => layer = "dropped"
    /\ handle = "waiting" => layer = "installed"
    /\ handle = "returned" => writer = "gone"
    /\ handle \in {"waiting", "returned"} =>
          /\ after = "exit" => Len(settled) + Len(group) >= mark
          /\ writer \in {"exit", "gone"} => Len(settled) >= mark
    /\ layer = "created" => accepted = <<>>
    /\ layer = "dropped" /\ handle # "returned" => accepted = <<>> /\ mark = 0

\* Conservation counted.
LEMMA Counted ==
    ASSUME TypeOK, Conservation
    PROVE  /\ Len(accepted) = Len(settled) + Len(group) + Len(batch) + Len(queue)
           /\ Len(accepted) \in Nat /\ Len(settled) \in Nat /\ Len(group) \in Nat
           /\ Len(batch) \in Nat /\ Len(queue) \in Nat
           /\ Len(settled \o group) = Len(settled) + Len(group)
<1>1. /\ settled \in Seq(Entry) /\ group \in Seq(Entry) /\ batch \in Seq(Entry)
      /\ queue \in Seq(Entry) /\ accepted \in Seq(Entry)
  BY DEF TypeOK
<1>2. settled \o group \in Seq(Entry) /\ Len(settled \o group) = Len(settled) + Len(group)
  BY <1>1, ConcatProperties
<1>3. /\ settled \o group \o batch \in Seq(Entry)
      /\ Len(settled \o group \o batch) = Len(settled) + Len(group) + Len(batch)
  BY <1>1, <1>2, ConcatProperties
<1>4. Len(settled \o group \o batch \o queue)
        = Len(settled) + Len(group) + Len(batch) + Len(queue)
  BY <1>1, <1>3, ConcatProperties
<1> QED  BY <1>1, <1>2, <1>4, LenProperties DEF Conservation

LEMMA ShutdownStep ==
    TypeOK /\ TypeOK' /\ Conservation /\ ShutdownInv /\ [Next]_vars => ShutdownInv'
<1> SUFFICES ASSUME TypeOK, TypeOK', Conservation, ShutdownInv, [Next]_vars
             PROVE  ShutdownInv'
  OBVIOUS
<1> USE DEF ShutdownInv, Ending, NoUpload, lifecycle, channel
<1>0. /\ Len(accepted) = Len(settled) + Len(group) + Len(batch) + Len(queue)
      /\ Len(accepted) \in Nat /\ Len(settled) \in Nat /\ Len(group) \in Nat
      /\ Len(batch) \in Nat /\ Len(queue) \in Nat /\ mark \in Nat
      /\ Len(settled \o group) = Len(settled) + Len(group)
      /\ Len(<<>>) = 0
      /\ (group # <<>>) <=> (writer = "put")
  BY Counted, EmptySeq DEF TypeOK
<1>t. /\ writer \in {"select", "drain", "put", "warn", "exit", "gone"}
      /\ after \in {"select", "exit"} /\ after' \in {"select", "exit"}
      /\ layer \in {"created", "installed", "dropped"}
      /\ handle \in {"held", "waiting", "returned", "dropped"}
  BY DEF TypeOK
<1>a. ASSUME NEW e \in Entry, Send(e) PROVE Len(accepted') >= Len(accepted)
  <2>1. accepted \in Seq(Entry)
    BY DEF TypeOK
  <2> QED  BY <1>0, <1>a, <2>1, EntrySequences DEF Send
<1>1. ASSUME NEW m \in Msg, Emit(m) PROVE ShutdownInv'
  <2>1. Len(accepted') >= Len(accepted) /\ Len(accepted') \in Nat
    BY <1>1, <1>a, Entries, LenProperties DEF Emit, TypeOK
  <2> QED  BY <1>0, <1>1, <2>1 DEF Emit, writing
<1>2. CASE Recv
  BY <1>0, <1>t, <1>2 DEF Recv, Flush, Empty
<1>3. CASE RecvClosed
  BY <1>0, <1>t, <1>3 DEF RecvClosed, Flush, Empty
<1>4. CASE Tick
  BY <1>0, <1>t, <1>4 DEF Tick, Flush, Empty
<1>5. CASE Shutdown
  BY <1>0, <1>t, <1>5 DEF Shutdown
<1>6. CASE DrainOne
  BY <1>0, <1>t, <1>6 DEF DrainOne
<1>7. CASE DrainEnd
  BY <1>0, <1>t, <1>7 DEF DrainEnd, NothingLeft, Flush, Empty
<1>8. CASE PutOk
  BY <1>0, <1>t, <1>8 DEF PutOk
<1>9. CASE PutFail
  BY <1>0, <1>t, <1>9 DEF PutFail
<1>10. CASE Warn
  <2>1. Len(accepted') >= Len(accepted) /\ Len(accepted') \in Nat
    BY <1>0, <1>10, <1>a, Entries, LenProperties DEF Warn, TypeOK
  <2> QED  BY <1>0, <1>t, <1>10, <2>1 DEF Warn
<1>11. CASE Exit
  BY <1>0, <1>t, <1>11 DEF Exit
<1>12. CASE InstallLayer
  BY <1>12 DEF InstallLayer, writing
<1>13. CASE AbortLayer
  BY <1>0, <1>t, <1>13 DEF AbortLayer, writing
<1>14. CASE AbortHandle
  BY <1>14 DEF AbortHandle, writing
<1>15. CASE FlushAndShutdown
  BY <1>0, <1>t, <1>15 DEF FlushAndShutdown, writing
<1>16. CASE Return
  BY <1>16 DEF Return, writing
<1>17. CASE DropLayer
  BY <1>17 DEF DropLayer, writing
<1>18. CASE UNCHANGED vars
  BY <1>18 DEF vars, writing
<1> QED
  BY <1>1, <1>2, <1>3, <1>4, <1>5, <1>6, <1>7, <1>8, <1>9, <1>10, <1>11, <1>12,
     <1>13, <1>14, <1>15, <1>16, <1>17, <1>18 DEF Next, Writer, Owner

LEMMA ShutdownInvariant == Spec => []ShutdownInv
<1>1. Init => ShutdownInv
  BY EmptySeq DEF Init, ShutdownInv, Ending
<1> QED  BY <1>1, ShutdownStep, TypeCorrect, Conserved, PTL DEF Spec

\* When flush_and_shutdown returns, everything queued before it was settled.
THEOREM ReturnsDrained == Spec => []DrainedAtReturn
<1>1. ShutdownInv => DrainedAtReturn
  BY DEF ShutdownInv, DrainedAtReturn
<1> QED  BY <1>1, ShutdownInvariant, PTL

----------------------------------------------------------------------------
(* Refinement. *)

\* The group in flight is what the abstract channel settles next.
LEMMA NextGroup ==
    ASSUME TypeOK, Conservation
    PROVE  SubSeq(accepted, Len(settled) + 1, Len(settled) + Len(group)) = group
<1>1. /\ settled \in Seq(Entry) /\ group \in Seq(Entry)
      /\ batch \in Seq(Entry) /\ queue \in Seq(Entry)
  BY DEF TypeOK
<1>2. batch \o queue \in Seq(Entry) /\ settled \o group \in Seq(Entry)
  BY <1>1, ConcatProperties
<1>3. settled \o group \o batch \o queue = settled \o group \o (batch \o queue)
  <2>1. \A p \in Seq(Entry) : p \o batch \o queue = p \o (batch \o queue)
    BY <1>1, EntryAssociative
  <2> QED  BY <1>2, <2>1, Zenon
<1>4. \A s, g, r \in Seq(Entry) :
        SubSeq(s \o g \o r, Len(s) + 1, Len(s) + Len(g)) = g
  BY NextEntries
<1> QED  BY <1>1, <1>2, <1>3, <1>4 DEF Conservation

LEMMA ChannelStep ==
    /\ TypeOK /\ TypeOK' /\ Conservation /\ ShutdownInv
    /\ [Next]_vars
    => [Channel!Next]_(Channel!vars)
<1> SUFFICES ASSUME TypeOK, TypeOK', Conservation, ShutdownInv, [Next]_vars
             PROVE  [Channel!Next]_(Channel!vars)
  OBVIOUS
<1> USE DEF Channel!vars, ChannelStatus, lifecycle, channel, NoUpload
<1>t. /\ writer \in {"select", "drain", "put", "warn", "exit", "gone"}
      /\ after \in {"select", "exit"} /\ after' \in {"select", "exit"}
      /\ handle \in {"held", "waiting", "returned", "dropped"}
  BY DEF TypeOK
<1>a. ASSUME NEW e \in Entry, writer # "gone", writer' # "gone", Send(e),
             UNCHANGED <<handle, settled, stored, mark>>
      PROVE  Channel!Accept(e)
  BY <1>a DEF Send, Channel!Accept
<1>g. writer = "put" => Len(group) \in 1 .. (Len(accepted) - Len(settled))
  <2>1. group \in Seq(Entry) /\ (writer = "put" => group # <<>>)
    BY DEF TypeOK
  <2> QED  BY <2>1, EmptySeq, Counted
<1>1. ASSUME NEW m \in Msg, Emit(m) PROVE [Channel!Next]_(Channel!vars)
  <2>1. CASE writer = "gone"
    BY <1>1, <2>1 DEF Emit, Send, writing
  <2>2. CASE writer # "gone"
    BY <1>1, <2>2, <1>a, Entries DEF Emit, writing, Channel!Next
  <2> QED  BY <2>1, <2>2
<1>2. CASE Recv
  BY <1>t, <1>2 DEF Recv, Flush, Empty
<1>3. CASE RecvClosed
  BY <1>t, <1>3 DEF RecvClosed, Flush, Empty
<1>4. CASE Tick
  BY <1>t, <1>4 DEF Tick, Flush, Empty
<1>5. CASE Shutdown
  BY <1>t, <1>5 DEF Shutdown
<1>6. CASE DrainOne
  BY <1>t, <1>6 DEF DrainOne
<1>7. CASE DrainEnd
  BY <1>t, <1>7 DEF DrainEnd, Flush, Empty
<1>8. CASE PutOk
  <2>1. Channel!Settle(Len(group))
    BY <1>t, <1>8, NextGroup DEF PutOk, Channel!Settle
  <2> QED  BY <1>8, <1>g, <2>1 DEF PutOk, Channel!Next
<1>9. CASE PutFail
  <2>1. Channel!Settle(Len(group))
    BY <1>9, NextGroup DEF PutFail, Channel!Settle
  <2> QED  BY <1>9, <1>g, <2>1 DEF PutFail, Channel!Next
<1>10. CASE Warn
  <2>1. writer # "gone" /\ writer' # "gone"
    BY <1>t, <1>10 DEF Warn
  <2> QED  BY <1>10, <2>1, <1>a, Entries DEF Warn, Channel!Next
<1>11. CASE Exit
  <2>1. CASE handle = "waiting"
    BY <1>11, <2>1 DEF Exit, ShutdownInv, Channel!Next, Channel!Close
  <2>2. CASE handle # "waiting"
    <3>1. layer = "dropped" /\ handle # "returned"
      BY <1>t, <1>11, <2>2 DEF Exit, ShutdownInv, Ending, TypeOK
    <3>2. accepted = <<>>
      BY <3>1 DEF ShutdownInv
    <3>3. settled = <<>>
      <4>1. Len(accepted) = 0 /\ Len(settled) \in Nat /\ settled \in Seq(Entry)
        BY <3>2, EmptySeq, Counted DEF TypeOK
      <4>2. Len(settled) = 0
        BY <4>1, Counted
      <4> QED  BY <4>1, <4>2, EmptySeq
    <3> QED
      BY <1>11, <2>2, <3>2, <3>3 DEF Exit, Channel!Next, Channel!Close
  <2> QED  BY <2>1, <2>2
<1>12. CASE InstallLayer
  BY <1>12 DEF InstallLayer, writing
<1>13. CASE AbortLayer
  BY <1>13 DEF AbortLayer, writing
<1>14. CASE AbortHandle
  BY <1>14 DEF AbortHandle, writing
<1>15. CASE FlushAndShutdown
  <2>1. writer # "gone" /\ writer' # "gone"
    BY <1>15 DEF FlushAndShutdown, writing, ShutdownInv, Ending
  <2> QED
    BY <1>15, <2>1 DEF FlushAndShutdown, writing, Channel!Next, Channel!RequestClose
<1>16. CASE Return
  BY <1>16 DEF Return, writing
<1>17. CASE DropLayer
  BY <1>17 DEF DropLayer, writing
<1>18. CASE UNCHANGED vars
  BY <1>18 DEF vars, writing
<1> QED
  BY <1>1, <1>2, <1>3, <1>4, <1>5, <1>6, <1>7, <1>8, <1>9, <1>10, <1>11, <1>12,
     <1>13, <1>14, <1>15, <1>16, <1>17, <1>18 DEF Next, Writer, Owner

\* The sink implements the abstract log channel.
THEOREM ImplementsChannel == Spec => ChannelSpec
<1>1. Init => Channel!Init
  BY DEF Init, Channel!Init, ChannelStatus
<1> QED
  BY <1>1, ChannelStep, TypeCorrect, Conserved, ShutdownInvariant, PTL
  DEF Spec, ChannelSpec, Channel!Spec

\* The channel again, with what is proved about every channel.
Sink == INSTANCE LogChannelProofs WITH status <- ChannelStatus

\* The sink inherits the channel's promises: it uploads in the order of acceptance, it
\* stores no entry twice however uploads fail and flushes meet, and once its writer is
\* gone after a request, all that was logged before the request has been uploaded or lost.
THEOREM SinkKeepsPromises == Spec => []Sink!Promises
<1>1. Channel!Init => Sink!Init
  BY DEF Channel!Init, Sink!Init
<1>2. [Channel!Next]_(Channel!vars) => [Sink!Next]_(Sink!vars)
  BY DEF Channel!vars, Channel!Next, Channel!Accept, Channel!Settle, Channel!Close,
         Channel!RequestClose, Sink!vars, Sink!Next, Sink!Accept, Sink!Settle, Sink!Close,
         Sink!RequestClose
<1>3. ChannelSpec => Sink!Spec
  BY <1>1, <1>2, PTL DEF ChannelSpec, Channel!Spec, Sink!Spec
<1> QED
  BY <1>3, ImplementsChannel, Sink!PromisesKept, PTL

----------------------------------------------------------------------------
(* The end of the writer. *)

LEMMA DrainStep ==
    ASSUME TypeOK, Next, Draining
    PROVE  Draining' /\ (StepsLeft' < StepsLeft \/ UNCHANGED writing)
<1> USE DEF Draining, StepsLeft, lifecycle, channel, NoUpload
<1>0. Len(queue) \in Nat /\ (queue # <<>> => Len(Tail(queue)) = Len(queue) - 1)
  BY LenProperties, HeadTailProperties DEF TypeOK
<1>1. CASE (\E m \in Msg : Emit(m)) \/ Owner
  BY <1>1 DEF Emit, Owner, InstallLayer, AbortLayer, AbortHandle, FlushAndShutdown, Return,
              DropLayer, writing
<1>2. CASE Recv \/ RecvClosed \/ Tick \/ Shutdown
  BY <1>2 DEF Recv, RecvClosed, Tick, Shutdown
<1>3. CASE DrainOne
  BY <1>0, <1>3 DEF DrainOne
<1>4. CASE DrainEnd
  BY <1>0, <1>4 DEF DrainEnd, Flush
<1>5. CASE PutOk \/ PutFail
  BY <1>5 DEF PutOk, PutFail
<1>6. CASE Warn \/ Exit
  BY <1>6 DEF Warn, Exit
<1> QED
  BY <1>1, <1>2, <1>3, <1>4, <1>5, <1>6 DEF Next, Writer

\* A writer that was told to finish comes nearer to its end with each of its steps, for
\* any batch size and any number of events and failed uploads.
THEOREM WriterEnds == Spec => DrainEnds
<1>1. TypeOK /\ [Next]_vars
         => [Draining => Draining' /\ (StepsLeft' < StepsLeft \/ UNCHANGED writing)]_vars
  BY DrainStep
<1> QED  BY <1>1, TypeCorrect, PTL DEF Spec, DrainEnds

=============================================================================
