------------------------- MODULE SpanContextProofs -------------------------
(***************************************************************************)
(* Proofs about SpanContext, for any number of tasks and handles: what any *)
(* program can rely on, and what the `with` discipline adds.               *)
(***************************************************************************)
EXTENDS SpanContext, SequenceTheorems, TLAPS

----------------------------------------------------------------------------
(* What the actions do to the handles. *)

\* A new handle is put behind the others.
LEMMA AppendHandle ==
    ASSUME handles \in Seq(Handle), NEW x \in Handle, handles' = Append(handles, x)
    PROVE  /\ handles' \in Seq(Handle)
           /\ Len(handles') = Fresh
           /\ Ids' = Ids \cup {Fresh}
           /\ Fresh \notin Ids
           /\ handles'[Fresh] = x
           /\ \A g \in Ids : handles'[g] = handles[g]
  BY AppendProperties, LenProperties DEF Fresh, Ids

\* A release changes one handle, and of it the token and the span.
LEMMA ReleaseHandle ==
    ASSUME handles \in Seq(Handle), NEW h \in Ids, Release(h)
    PROVE  /\ handles' \in Seq(Handle)
           /\ Len(handles') = Len(handles)
           /\ Ids' = Ids
           /\ handles'[h] = [handles[h] EXCEPT !.held = FALSE, !.open = FALSE]
           /\ \A g \in Ids \ {h} : handles'[g] = handles[g]
  <1> DEFINE x == [handles[h] EXCEPT !.held = FALSE, !.open = FALSE]
  <1>1. handles[h] \in Handle
    BY ElementOfSeq DEF Ids
  <1>2. x \in Handle
    BY <1>1 DEF Handle
  <1>3. handles' = [handles EXCEPT ![h] = x]
    <2>1. handles \in [1 .. Len(handles) -> Handle] /\ h \in 1 .. Len(handles)
      BY LenProperties DEF Ids
    <2>2. handles' = [[handles EXCEPT ![h] = [handles[h] EXCEPT !.held = FALSE]]
                        EXCEPT ![h] = [[handles[h] EXCEPT !.held = FALSE] EXCEPT !.open = FALSE]]
      BY <2>1 DEF Release
    <2> QED BY <1>1, <2>1, <2>2 DEF Handle
  <1>4. h \in 1 .. Len(handles)
    BY DEF Ids
  <1> HIDE DEF x
  <1>5. /\ handles' \in Seq(Handle)
        /\ Len(handles') = Len(handles)
        /\ \A j \in 1 .. Len(handles) : handles'[j] = IF j = h THEN x ELSE handles[j]
    BY <1>2, <1>3, <1>4, ExceptSeq
  <1>6. handles'[h] = x /\ \A g \in Ids \ {h} : handles'[g] = handles[g]
    BY <1>4, <1>5 DEF Ids
  <1> QED BY <1>5, <1>6 DEF x, Ids

\* What a handle is.
LEMMA HandleTypes ==
    ASSUME TypeOK
    PROVE  /\ Len(handles) \in Nat
           /\ \A h \in Ids : /\ handles[h] \in Handle
                             /\ handles[h].owner \in Tasks
                             /\ handles[h].old \in Nat /\ handles[h].old < h
                             /\ handles[h].old # 0 => handles[h].old \in Ids
                             /\ handles[h].parent \in Nat /\ handles[h].parent < h
                             /\ handles[h].parent # 0 => handles[h].parent \in Ids
                             /\ handles[h].ctx \in {0, h}
  <1>1. handles \in Seq(Handle) /\ Len(handles) \in Nat
    BY LenProperties DEF TypeOK
  <1>2. \A h \in Ids : handles[h] \in Handle
    BY <1>1, ElementOfSeq DEF Ids
  <1>3. \A h \in Ids : /\ handles[h].owner \in Tasks /\ handles[h].old \in Nat
                       /\ handles[h].old < h /\ handles[h].ctx \in {0, h}
                       /\ handles[h].parent \in Nat /\ handles[h].parent < h
    BY <1>2 DEF Handle, TypeOK
  <1>4. \A h \in Ids : /\ handles[h].old # 0 => handles[h].old \in Ids
                       /\ handles[h].parent # 0 => handles[h].parent \in Ids
    BY <1>1, <1>3 DEF Ids
  <1> QED BY <1>1, <1>2, <1>3, <1>4

----------------------------------------------------------------------------
(* Any program. *)

\* A token restores what its task inherited, or what the task pushed before.
TokenInv ==
    /\ \A h \in Ids : handles[h].owner \in live
    /\ \A h \in Ids : handles[h].held =>
          \/ handles[h].old = inherited[handles[h].owner]
          \/ handles[h].old # 0 /\ handles[handles[h].old].owner = handles[h].owner

AnyInv == TypeOK /\ TokenInv /\ Isolation

\* The handle that opening one in t puts behind the others.
Opened(t, x) ==
    /\ x \in Handle
    /\ handles' = Append(handles, x)
    /\ x.owner = t /\ x.old < Fresh /\ x.parent < Fresh /\ x.ctx \in {0, Fresh}
    /\ x.parent \in {0, cv[t]}
    /\ x.open => x.held
    /\ \/ x.held /\ x.old = cv[t] /\ cv' = [cv EXCEPT ![t] = Fresh]
       \/ ~x.held /\ cv' = cv

LEMMA OpeningHandle ==
    ASSUME TypeOK, NEW t \in live, Opening(t)
    PROVE  \E x : Opened(t, x)
  <1>1. t \in Tasks /\ Len(handles) \in Nat /\ cv[t] \in 0 .. Len(handles)
    BY HandleTypes DEF TypeOK
  <1>2. ParentOf(t) \in {0, cv[t]}
    <2>1. cv[t] # 0 => cv[t] \in Ids
      BY <1>1 DEF Ids
    <2>2. Current(t) \in {0, cv[t]}
      BY <2>1, HandleTypes DEF Current
    <2> QED BY <2>2 DEF ParentOf
  <1>3. Fresh \in Nat /\ ParentOf(t) < Fresh /\ cv[t] < Fresh /\ ParentOf(t) \in Nat
        /\ cv[t] \in Nat /\ 0 < Fresh
    BY <1>1, <1>2 DEF Fresh
  <1>4. CASE StartSpan(t)
    <2> DEFINE w == [kind |-> "span", owner |-> t, old |-> cv[t], held |-> TRUE,
                     open |-> TRUE, ctx |-> IF tracing THEN Fresh ELSE 0,
                     parent |-> ParentOf(t)]
    <2>1. handles' = Append(handles, w) /\ cv' = [cv EXCEPT ![t] = Fresh]
      BY <1>4 DEF StartSpan, Push
    <2>2. w \in Handle
      BY <1>3, <1>1 DEF Handle
    <2>3. Opened(t, w)
      BY <1>2, <1>3, <2>1, <2>2 DEF Opened
    <2> QED BY <2>3
  <1>5. CASE StartSpanFails(t)
    <2> DEFINE w == [kind |-> "span", owner |-> t, old |-> 0, held |-> FALSE,
                     open |-> FALSE, ctx |-> IF tracing THEN Fresh ELSE 0,
                     parent |-> ParentOf(t)]
    <2>1. handles' = Append(handles, w) /\ cv' = cv
      BY <1>5 DEF StartSpanFails
    <2>2. w \in Handle
      BY <1>3, <1>1 DEF Handle
    <2>3. Opened(t, w)
      BY <1>2, <1>3, <2>1, <2>2 DEF Opened
    <2> QED BY <2>3
  <1>6. CASE Extract(t)
    <2>1. PICK ctx \in {0, Fresh} :
             Push(t, [kind |-> "extracted", owner |-> t, old |-> cv[t], held |-> TRUE,
                      open |-> FALSE, ctx |-> ctx, parent |-> 0])
      BY <1>6 DEF Extract
    <2> DEFINE w == [kind |-> "extracted", owner |-> t, old |-> cv[t], held |-> TRUE,
                     open |-> FALSE, ctx |-> ctx, parent |-> 0]
    <2>2. handles' = Append(handles, w) /\ cv' = [cv EXCEPT ![t] = Fresh]
      BY <2>1 DEF Push
    <2>3. w \in Handle
      BY <1>3, <1>1 DEF Handle
    <2>4. Opened(t, w)
      BY <1>2, <1>3, <2>2, <2>3 DEF Opened
    <2> QED BY <2>4
  <1> QED BY <1>4, <1>5, <1>6 DEF Opening

LEMMA AnyInit == Init => AnyInv
  BY SpanContextAssumption DEF Init, AnyInv, TypeOK, TokenInv, Isolation, Ids

\* The three ways to open one keep it.
LEMMA AnyOpening ==
    ASSUME AnyInv, NEW t \in live, Opening(t)
    PROVE  AnyInv'
  <1> USE DEF AnyInv
  <1>1. /\ handles \in Seq(Handle) /\ t \in Tasks /\ Len(handles) \in Nat
        /\ cv[t] \in 0 .. Len(handles)
        /\ UNCHANGED <<live, inherited, tracing>>
    <2>1. handles \in Seq(Handle) /\ t \in Tasks /\ cv[t] \in 0 .. Len(handles)
      BY DEF TypeOK
    <2>2. Len(handles) \in Nat
      BY <2>1, LenProperties
    <2>3. UNCHANGED <<live, inherited, tracing>>
      BY DEF Opening, StartSpan, StartSpanFails, Extract
    <2> QED BY <2>1, <2>2, <2>3
  <1>3. PICK x : Opened(t, x)
    BY OpeningHandle
  <1>4. /\ handles' \in Seq(Handle) /\ Len(handles') = Fresh
        /\ Ids' = Ids \cup {Fresh} /\ Fresh \notin Ids
        /\ handles'[Fresh] = x
        /\ \A g \in Ids : handles'[g] = handles[g]
    BY <1>1, <1>3, AppendHandle DEF Opened
  <1>5. TypeOK'
    <2>1. cv' \in [Tasks -> 0 .. Len(handles')]
      BY <1>1, <1>3, <1>4 DEF TypeOK, Fresh, Opened
    <2>2. inherited' \in [Tasks -> 0 .. Len(handles')]
      BY <1>1, <1>4 DEF TypeOK, Fresh
    <2>3. ASSUME NEW h \in Ids'
          PROVE  /\ handles'[h].old < h /\ handles'[h].parent < h
                 /\ handles'[h].ctx \in {0, h}
                 /\ handles'[h].open => handles'[h].held
      <3>1. CASE h \in Ids
        BY <1>4, <3>1 DEF TypeOK
      <3>2. CASE h = Fresh
        BY <1>3, <1>4, <3>2 DEF Opened
      <3> QED BY <1>4, <3>1, <3>2
    <2>4. live' \subseteq Tasks /\ tracing' \in BOOLEAN
      BY <1>1 DEF TypeOK
    <2> QED BY <1>4, <2>1, <2>2, <2>3, <2>4 DEF TypeOK
  <1>6. \A u \in Tasks : \/ cv'[u] = cv[u]
                         \/ cv'[u] = Fresh /\ u = t
    BY <1>1, <1>3 DEF TypeOK, Opened
  <1>7. Isolation'
    <2> SUFFICES ASSUME NEW u \in Tasks, cv'[u] # inherited'[u]
                 PROVE  cv'[u] # 0 /\ handles'[cv'[u]].owner = u
      BY DEF Isolation
    <2>1. CASE cv'[u] = cv[u]
      <3>1. cv[u] # 0 /\ handles[cv[u]].owner = u
        BY <1>1, <2>1 DEF Isolation
      <3>2. cv[u] \in Ids
        BY <1>1, <3>1 DEF TypeOK, Ids
      <3> QED BY <1>4, <2>1, <3>1, <3>2
    <2>2. CASE cv'[u] = Fresh /\ u = t
      BY <1>1, <1>3, <1>4, <2>2 DEF Fresh, Opened
    <2> QED BY <1>6, <2>1, <2>2
  <1>8. TokenInv'
    <2>1. \A h \in Ids' : handles'[h].owner \in live'
      BY <1>1, <1>3, <1>4 DEF TokenInv, Opened
    <2>2. ASSUME NEW h \in Ids', handles'[h].held
          PROVE  \/ handles'[h].old = inherited'[handles'[h].owner]
                 \/ /\ handles'[h].old # 0
                    /\ handles'[handles'[h].old].owner = handles'[h].owner
      <3>1. CASE h \in Ids
        <4>1. handles'[h] = handles[h]
          BY <1>4, <3>1
        <4>2. handles[h].old \in Nat /\ handles[h].old < h
          BY <3>1, HandleTypes
        <4>3. handles[h].old # 0 => handles[h].old \in Ids
          BY <3>1, HandleTypes
        <4> QED BY <1>1, <1>4, <2>2, <3>1, <4>1, <4>3 DEF TokenInv
      <3>2. CASE h = Fresh
        <4>1. handles'[h].old = cv[t] /\ handles'[h].owner = t
          BY <1>3, <1>4, <2>2, <3>2 DEF Opened
        <4>2. cv[t] # inherited[t] => cv[t] \in Ids /\ handles[cv[t]].owner = t
          BY <1>1 DEF Isolation, TypeOK, Ids
        <4> QED BY <1>1, <1>4, <4>1, <4>2 DEF Ids
      <3> QED BY <1>4, <3>1, <3>2
    <2> QED BY <2>1, <2>2 DEF TokenInv
  <1> QED BY <1>5, <1>7, <1>8

\* Releasing a handle, with or without a reset, keeps it.
LEMMA AnyRelease ==
    ASSUME AnyInv, NEW h \in Ids, handles[h].held, Release(h),
           UNCHANGED <<live, inherited, tracing>>,
           \/ UNCHANGED cv
           \/ cv' = [cv EXCEPT ![handles[h].owner] = handles[h].old]
    PROVE  AnyInv'
  <1> USE DEF AnyInv
  <1> DEFINE o == handles[h].owner
  <1>1. /\ handles \in Seq(Handle) /\ Len(handles) \in Nat
        /\ \A g \in Ids : handles[g] \in Handle
    BY ElementOfSeq DEF TypeOK, Ids
  <1>2. /\ handles' \in Seq(Handle) /\ Len(handles') = Len(handles) /\ Ids' = Ids
        /\ \A g \in Ids : /\ handles'[g].owner = handles[g].owner
                          /\ handles'[g].old = handles[g].old
                          /\ handles'[g].parent = handles[g].parent
                          /\ handles'[g].ctx = handles[g].ctx
                          /\ handles'[g].held => handles[g].held
                          /\ handles'[g].open => handles'[g].held
    <2>1. /\ handles' \in Seq(Handle) /\ Len(handles') = Len(handles) /\ Ids' = Ids
          /\ handles'[h] = [handles[h] EXCEPT !.held = FALSE, !.open = FALSE]
          /\ \A g \in Ids \ {h} : handles'[g] = handles[g]
      BY <1>1, ReleaseHandle
    <2>2. \A g \in Ids \ {h} : handles'[g].open => handles'[g].held
      BY <2>1 DEF TypeOK
    <2>3. /\ handles'[h].owner = handles[h].owner /\ handles'[h].old = handles[h].old
          /\ handles'[h].parent = handles[h].parent /\ handles'[h].ctx = handles[h].ctx
          /\ ~handles'[h].held /\ ~handles'[h].open
      BY <1>1, <2>1 DEF Handle
    <2> QED BY <2>1, <2>2, <2>3
  <1>3. o \in Tasks /\ handles[h].old \in 0 .. Len(handles)
    BY <1>1, HandleTypes DEF Ids
  <1>4. TypeOK'
    <2>1. cv' \in [Tasks -> 0 .. Len(handles')]
      BY <1>2, <1>3 DEF TypeOK
    <2>2. \A g \in Ids' : /\ handles'[g].old < g /\ handles'[g].parent < g
                          /\ handles'[g].ctx \in {0, g}
                          /\ handles'[g].open => handles'[g].held
      BY <1>2 DEF TypeOK
    <2> QED BY <1>2, <2>1, <2>2 DEF TypeOK
  <1>5. \A u \in Tasks : cv'[u] = cv[u] \/ (u = o /\ cv'[u] = handles[h].old)
    BY <1>3 DEF TypeOK
  <1>6. Isolation'
    <2> SUFFICES ASSUME NEW u \in Tasks, cv'[u] # inherited[u]
                 PROVE  cv'[u] # 0 /\ handles'[cv'[u]].owner = u
      BY DEF Isolation
    <2>1. cv'[u] # 0 /\ handles[cv'[u]].owner = u
      BY <1>5 DEF Isolation, TokenInv
    <2>2. cv'[u] \in Ids
      BY <1>2, <1>4, <2>1 DEF TypeOK, Ids
    <2> QED BY <1>2, <2>1, <2>2
  <1>7. TokenInv'
    <2>1. \A g \in Ids : handles[g].old # 0 => handles[g].old \in Ids
      BY HandleTypes
    <2> QED BY <1>2, <2>1 DEF TokenInv
  <1> QED BY <1>4, <1>6, <1>7

LEMMA AnyCreate ==
    ASSUME AnyInv, NEW t \in live, NEW u \in Tasks, CreateTask(t, u)
    PROVE  AnyInv'
  <1> USE DEF AnyInv
  <1>1. /\ u \notin live /\ live' = live \cup {u} /\ t \in Tasks
        /\ cv' = [cv EXCEPT ![u] = cv[t]]
        /\ inherited' = [inherited EXCEPT ![u] = cv[t]]
        /\ handles' = handles /\ tracing' = tracing /\ Ids' = Ids
    BY DEF CreateTask, TypeOK, Ids
  <1>2. TypeOK'
    BY <1>1 DEF TypeOK
  <1>3. Isolation'
    BY <1>1 DEF TypeOK, Isolation
  <1>4. \A h \in Ids : /\ handles[h].owner \in live
                       /\ inherited'[handles[h].owner] = inherited[handles[h].owner]
    BY <1>1 DEF TokenInv, TypeOK
  <1>5. TokenInv'
    BY <1>1, <1>4 DEF TokenInv
  <1> QED BY <1>2, <1>3, <1>5

LEMMA AnyStep == AnyInv /\ [Next]_vars => AnyInv'
  <1> SUFFICES ASSUME AnyInv, [Next]_vars PROVE AnyInv'
    OBVIOUS
  <1>1. ASSUME NEW t \in live, Opening(t) PROVE AnyInv'
    BY <1>1, AnyOpening
  <1>2. ASSUME NEW t \in live, NEW h \in Ids, End(t, h) PROVE AnyInv'
    <2>1. \/ UNCHANGED cv
          \/ cv' = [cv EXCEPT ![handles[h].owner] = handles[h].old]
      BY <1>2 DEF End, Reset
    <2> QED BY <1>2, <2>1, AnyRelease DEF End
  <1>3. ASSUME NEW h \in Ids, Drop(h) PROVE AnyInv'
    BY <1>3, AnyRelease DEF Drop
  <1>4. ASSUME NEW t \in live, NEW u \in Tasks, CreateTask(t, u) PROVE AnyInv'
    BY <1>4, AnyCreate
  <1>5. CASE SwapTraceLayers
    BY <1>5 DEF SwapTraceLayers, AnyInv, TypeOK, TokenInv, Isolation, Ids
  <1>6. CASE UNCHANGED vars
    BY <1>6 DEF vars, AnyInv, TypeOK, TokenInv, Isolation, Ids
  <1> QED BY <1>1, <1>2, <1>3, <1>4, <1>5, <1>6 DEF Next

LEMMA AnyInvariant == Spec => []AnyInv
  BY AnyInit, AnyStep, PTL DEF Spec

\* Types; and a handle that has lost its token has ended its span, also when the
\* reset of the variable raised.
THEOREM TypeCorrect == Spec => []TypeOK
  BY AnyInvariant, PTL DEF AnyInv

\* Whatever order and task handles are ended in, a task's current context is one
\* that it pushed or inherited.
THEOREM Isolated == Spec => []Isolation
  BY AnyInvariant, PTL DEF AnyInv

----------------------------------------------------------------------------
(* Programs that use `with`. *)

\* The tokens of a task are a stack: each restores the handle below it, and the
\* lowest what the task inherited.
Below(h) == {g \in Held(handles[h].owner) : g < h}

StackInv ==
    \A h \in Ids : handles[h].held =>
        /\ Below(h) = {} => handles[h].old = inherited[handles[h].owner]
        /\ Below(h) # {} => /\ handles[h].old \in Below(h)
                            /\ \A g \in Below(h) : g <= handles[h].old

NestInv == AnyInv /\ StackInv /\ CurrentIsInnermost /\ LiveParent

LEMMA NestInit == Init => NestInv
  <1>1. ASSUME Init PROVE StackInv /\ CurrentIsInnermost /\ LiveParent
    BY <1>1 DEF Init, StackInv, CurrentIsInnermost, LiveParent, Ids, Held
  <1> QED BY <1>1, AnyInit DEF NestInv

\* Steps of a program with blocks are steps of a program.
LEMMA NestedIsAny == NestedNext => Next
  BY DEF NestedNext, Next

\* A block opens: its handle is on top of the task's stack, and its parent is the
\* one that was.
LEMMA NestOpening ==
    ASSUME NestInv, NEW t \in live, Opening(t)
    PROVE  StackInv' /\ CurrentIsInnermost' /\ LiveParent'
  <1>1. /\ TypeOK /\ t \in Tasks /\ Len(handles) \in Nat
        /\ handles \in Seq(Handle)
        /\ UNCHANGED <<live, inherited, tracing>>
    BY HandleTypes DEF NestInv, AnyInv, TypeOK, Opening, StartSpan, StartSpanFails, Extract
  <1>2. PICK x : Opened(t, x)
    BY <1>1, OpeningHandle
  <1>3. /\ Ids' = Ids \cup {Fresh} /\ Fresh \notin Ids
        /\ handles'[Fresh] = x
        /\ \A g \in Ids : handles'[g] = handles[g]
        /\ \A g \in Ids : g \in Nat /\ g < Fresh
        /\ Fresh \in Nat /\ Fresh # 0
    BY <1>1, <1>2, AppendHandle DEF Opened, Ids, Fresh
  <1>4. x.owner = t /\ (x.open => x.held)
    BY <1>2 DEF Opened
  <1>5. \A u \in Tasks : Held(u)' = IF u = t /\ x.held THEN Held(u) \cup {Fresh} ELSE Held(u)
    BY <1>3, <1>4 DEF Held
  <1>6. \A u \in Tasks : Held(u) \subseteq Ids
    BY DEF Held
  <1>7. \A u \in Tasks : cv'[u] = IF u = t /\ x.held THEN Fresh ELSE cv[u]
    BY <1>1, <1>2 DEF Opened, TypeOK
  <1>8. \A g \in Ids : Below(g)' = Below(g)
    <2>1. \A g \in Ids : handles'[g].owner = handles[g].owner /\ handles[g].owner \in Tasks
      BY <1>1, <1>3, HandleTypes
    <2> QED BY <1>3, <1>5, <2>1 DEF Below
  <1>9. CurrentIsInnermost'
    <2> SUFFICES ASSUME NEW u \in Tasks
                 PROVE  /\ Held(u)' = {} => cv'[u] = inherited'[u]
                        /\ Held(u)' # {} => Innermost(u, cv[u])'
      BY DEF CurrentIsInnermost
    <2>1. CASE u = t /\ x.held
      BY <1>3, <1>5, <1>6, <1>7, <2>1 DEF Innermost
    <2>2. CASE ~(u = t /\ x.held)
      BY <1>1, <1>5, <1>7, <2>2 DEF Innermost, NestInv, CurrentIsInnermost
    <2> QED BY <2>1, <2>2
  <1>10. StackInv'
    <2> SUFFICES ASSUME NEW h \in Ids', handles'[h].held
                 PROVE  /\ Below(h)' = {} => handles'[h].old = inherited'[handles'[h].owner]
                        /\ Below(h)' # {} => /\ handles'[h].old \in Below(h)'
                                             /\ \A g \in Below(h)' : g <= handles'[h].old
      BY DEF StackInv
    <2>1. CASE h \in Ids
      BY <1>1, <1>3, <1>8, <2>1 DEF NestInv, StackInv
    <2>2. CASE h = Fresh
      <3>1. Below(h)' = Held(t)
        <4>1. handles'[h].owner = t /\ x.held
          BY <1>3, <1>4, <2>2
        <4>2. Held(t)' = Held(t) \cup {Fresh} /\ \A g \in Held(t) : g \in Nat /\ g < Fresh
          BY <1>1, <1>3, <1>5, <1>6, <4>1
        <4>3. Below(h)' = {g \in Held(t)' : g < h}
          BY <4>1 DEF Below
        <4> QED BY <1>3, <2>2, <4>2, <4>3
      <3>2. handles'[h].old = cv[t] /\ handles'[h].owner = t
        BY <1>2, <1>3, <1>4, <2>2 DEF Opened
      <3> QED BY <1>1, <3>1, <3>2 DEF NestInv, CurrentIsInnermost, Innermost
    <2> QED BY <1>3, <2>1, <2>2
  <1>11. LiveParent'
    <2> SUFFICES ASSUME NEW h \in Ids', NEW p, p = handles'[h].parent,
                        handles'[h].open, p # 0, handles'[p].owner = handles'[h].owner
                 PROVE  handles'[p].held \/ p = inherited'[handles'[h].owner]
      BY DEF LiveParent
    <2>1. CASE h \in Ids
      <3>1. p = handles[h].parent /\ handles[h].parent \in Nat /\ handles[h].parent < h
        BY <1>1, <1>3, <2>1, HandleTypes
      <3>2. p \in Ids
        BY <1>1, <2>1, <3>1, HandleTypes
      <3> QED BY <1>1, <1>3, <2>1, <3>1, <3>2 DEF NestInv, LiveParent
    <2>2. CASE h = Fresh
      <3>1. p = cv[t] /\ x.open /\ x.held
        BY <1>2, <1>3, <1>4, <2>2 DEF Opened
      <3>2. CASE Held(t) = {}
        BY <1>1, <1>3, <1>4, <2>2, <3>1, <3>2 DEF NestInv, CurrentIsInnermost
      <3>3. CASE Held(t) # {}
        <4>1. cv[t] \in Held(t)
          BY <1>1, <3>3 DEF NestInv, CurrentIsInnermost, Innermost
        <4> QED BY <1>3, <3>1, <4>1 DEF Held
      <3> QED BY <3>2, <3>3
    <2> QED BY <1>3, <2>1, <2>2
  <1> QED BY <1>9, <1>10, <1>11

\* The innermost block ends: what was below it is on top, and no live span had it
\* as its parent.
LEMMA NestEnd ==
    ASSUME NestInv, NEW t \in live, NEW h \in Ids, Innermost(t, h), End(t, h)
    PROVE  StackInv' /\ CurrentIsInnermost' /\ LiveParent'
  <1>1. /\ TypeOK /\ t \in Tasks /\ handles \in Seq(Handle)
        /\ h \in Held(t) /\ handles[h].held /\ handles[h].owner = t
        /\ UNCHANGED <<live, inherited, tracing>>
        /\ cv' = [cv EXCEPT ![t] = handles[h].old]
    BY DEF NestInv, AnyInv, TypeOK, Innermost, End, Reset, Held
  <1>2. /\ Ids' = Ids
        /\ \A g \in Ids \ {h} : handles'[g] = handles[g]
        /\ \A g \in Ids : /\ handles'[g].owner = handles[g].owner
                          /\ handles'[g].old = handles[g].old
                          /\ handles'[g].parent = handles[g].parent
        /\ ~handles'[h].held /\ ~handles'[h].open
    <2>1. /\ Ids' = Ids
          /\ handles'[h] = [handles[h] EXCEPT !.held = FALSE, !.open = FALSE]
          /\ \A g \in Ids \ {h} : handles'[g] = handles[g]
      BY <1>1, ReleaseHandle DEF End
    <2>2. /\ handles'[h].owner = handles[h].owner /\ handles'[h].old = handles[h].old
          /\ handles'[h].parent = handles[h].parent
          /\ ~handles'[h].held /\ ~handles'[h].open
      BY <1>1, <2>1, HandleTypes DEF Handle
    <2> QED BY <2>1, <2>2
  <1>3. \A u \in Tasks : Held(u)' = IF u = t THEN Held(u) \ {h} ELSE Held(u)
    BY <1>1, <1>2 DEF Held
  <1>4. \A g \in Held(t) : g \in Ids /\ g <= h /\ g \in Nat /\ h \in Nat
    BY <1>1 DEF Innermost, Held, Ids
  <1>5. Below(h) = Held(t) \ {h}
    BY <1>1, <1>4 DEF Below
  <1>6. CurrentIsInnermost'
    <2> SUFFICES ASSUME NEW u \in Tasks
                 PROVE  /\ Held(u)' = {} => cv'[u] = inherited'[u]
                        /\ Held(u)' # {} => Innermost(u, cv[u])'
      BY DEF CurrentIsInnermost
    <2>1. CASE u = t
      <3>1. cv'[t] = handles[h].old
        BY <1>1 DEF TypeOK
      <3>2. Held(t)' = Below(h)
        BY <1>1, <1>3, <1>5
      <3> QED BY <1>1, <2>1, <3>1, <3>2 DEF NestInv, StackInv, Innermost
    <2>2. CASE u # t
      <3>1. cv'[u] = cv[u] /\ Held(u)' = Held(u)
        BY <1>1, <1>3, <2>2 DEF TypeOK
      <3> QED BY <1>1, <3>1 DEF Innermost, NestInv, CurrentIsInnermost
    <2> QED BY <2>1, <2>2
  <1>7. StackInv'
    <2> SUFFICES ASSUME NEW k \in Ids, handles'[k].held
                 PROVE  /\ Below(k)' = {} => handles'[k].old = inherited'[handles'[k].owner]
                        /\ Below(k)' # {} => /\ handles'[k].old \in Below(k)'
                                             /\ \A g \in Below(k)' : g <= handles'[k].old
      BY <1>2 DEF StackInv
    <2>1. k # h /\ handles[k].held /\ handles[k].owner \in Tasks
      BY <1>1, <1>2, HandleTypes
    <2>2. Below(k)' = Below(k)
      <3>1. CASE handles[k].owner = t
        <4>1. k \in Held(t) /\ k < h
          BY <1>4, <2>1, <3>1 DEF Held
        <4> QED BY <1>2, <1>3, <1>4, <2>1, <3>1, <4>1 DEF Below
      <3>2. CASE handles[k].owner # t
        BY <1>2, <1>3, <2>1, <3>2 DEF Below
      <3> QED BY <3>1, <3>2
    <2> QED BY <1>1, <1>2, <2>1, <2>2 DEF NestInv, StackInv
  <1>8. LiveParent'
    <2> SUFFICES ASSUME NEW k \in Ids, NEW p, p = handles'[k].parent,
                        handles'[k].open, p # 0, handles'[p].owner = handles'[k].owner
                 PROVE  handles'[p].held \/ p = inherited'[handles'[k].owner]
      BY <1>2 DEF LiveParent
    <2>1. k # h /\ handles[k].open /\ handles[k].held /\ p = handles[k].parent
      BY <1>1, <1>2 DEF TypeOK
    <2>2. p \in Ids /\ p < k
      BY <1>1, <2>1, HandleTypes
    <2>3. p # h
      <3> SUFFICES ASSUME p = h PROVE FALSE
        OBVIOUS
      <3>1. k \in Held(t)
        BY <1>1, <1>2, <2>1, <2>2 DEF Held
      <3> QED BY <1>4, <2>2, <3>1
    <2> QED BY <1>1, <1>2, <2>1, <2>2, <2>3 DEF NestInv, LiveParent
  <1> QED BY <1>6, <1>7, <1>8

\* A new task has no handles, and inherits a context.
LEMMA NestCreate ==
    ASSUME NestInv, NEW t \in live, NEW u \in Tasks, CreateTask(t, u)
    PROVE  StackInv' /\ CurrentIsInnermost' /\ LiveParent'
  <1>1. /\ TypeOK /\ t \in Tasks /\ u \notin live
        /\ cv' = [cv EXCEPT ![u] = cv[t]]
        /\ inherited' = [inherited EXCEPT ![u] = cv[t]]
        /\ handles' = handles
    BY DEF NestInv, AnyInv, TypeOK, CreateTask
  <1>2. /\ Ids' = Ids
        /\ \A v \in Tasks : Held(v)' = Held(v)
        /\ \A h \in Ids : /\ Below(h)' = Below(h)
                          /\ handles[h].owner \in Tasks /\ handles[h].owner # u
    BY <1>1, HandleTypes DEF Ids, Held, Below, NestInv, AnyInv, TokenInv
  <1>3. Held(u) = {}
    BY <1>2 DEF Held
  <1>4. \A v \in Tasks \ {u} : cv'[v] = cv[v] /\ inherited'[v] = inherited[v]
    BY <1>1 DEF TypeOK
  <1>5. cv'[u] = inherited'[u]
    BY <1>1 DEF TypeOK
  <1>6. CurrentIsInnermost'
    BY <1>2, <1>3, <1>4, <1>5 DEF NestInv, CurrentIsInnermost, Innermost
  <1>7. StackInv'
    BY <1>1, <1>2, <1>4 DEF NestInv, StackInv
  <1>8. LiveParent'
    BY <1>1, <1>2, <1>4 DEF NestInv, LiveParent
  <1> QED BY <1>6, <1>7, <1>8

LEMMA NestStep == NestInv /\ [NestedNext]_vars => NestInv'
  <1> SUFFICES ASSUME NestInv, [NestedNext]_vars PROVE NestInv'
    OBVIOUS
  <1>1. AnyInv'
    BY NestedIsAny, AnyStep DEF NestInv
  <1>2. StackInv' /\ CurrentIsInnermost' /\ LiveParent'
    <2>1. ASSUME NEW t \in live, Opening(t)
          PROVE  StackInv' /\ CurrentIsInnermost' /\ LiveParent'
      BY <2>1, NestOpening
    <2>2. ASSUME NEW t \in live, NEW h \in Ids, Innermost(t, h), End(t, h)
          PROVE  StackInv' /\ CurrentIsInnermost' /\ LiveParent'
      BY <2>2, NestEnd
    <2>3. ASSUME NEW t \in live, NEW u \in Tasks, CreateTask(t, u)
          PROVE  StackInv' /\ CurrentIsInnermost' /\ LiveParent'
      BY <2>3, NestCreate
    <2>4. CASE UNCHANGED <<live, cv, inherited, handles>>
      BY <2>4 DEF NestInv, StackInv, CurrentIsInnermost, LiveParent, Below, Innermost,
                  Held, Ids
    <2> QED BY <2>1, <2>2, <2>3, <2>4 DEF NestedNext, SwapTraceLayers, vars
  <1> QED BY <1>1, <1>2 DEF NestInv

LEMMA NestInvariant == NestedSpec => []NestInv
  BY NestInit, NestStep, PTL DEF NestedSpec

\* With blocks only, the current context is always the innermost block's, and the
\* inherited one outside of all blocks.
THEOREM Innermostly == NestedSpec => []CurrentIsInnermost
  BY NestInvariant, PTL DEF NestInv

\* With blocks only, no live span has a parent of its task that has ended.
THEOREM ParentsLive == NestedSpec => []LiveParent
  BY NestInvariant, PTL DEF NestInv
=============================================================================
