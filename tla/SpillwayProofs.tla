--------------------------- MODULE SpillwayProofs ---------------------------
(***************************************************************************)
(* Theorems about Spillway for any number of senders, chutes, values and   *)
(* any capacity: its types; no wakeup of the receiver is lost, and the end *)
(* of the channel is reported only when no handle is left; the receiver's  *)
(* expect never fires if no batch is empty.                                *)
(***************************************************************************)
EXTENDS SpillwayInv, SequenceTheorems, FiniteSetTheorems, TLAPS

USE SpillwayAssumption

(* The wrap of an index that is at most one lap ahead is an index of a chute. *)
LEMMA WrapInChutes ==
    ASSUME NEW n \in Nat, n < 2 * NChutes
    PROVE  Wrap(n) \in Chutes
BY DEF Wrap, Chutes

(* The value handed to the caller is one of the buffer, and the rest stays. *)
LEMMA DeliverType ==
    ASSUME TypeOK, buffer # <<>>, Deliver
    PROVE  /\ Head(buffer) \in Value
           /\ Tail(buffer) \in Seq(Value)
           /\ buffer' \in Seq(Value)
           /\ TypeHistory'
<1>1. buffer \in Seq(Value) BY DEF TypeOK, TypeReceiver
<1>2. Head(buffer) \in Value /\ Tail(buffer) \in Seq(Value)
  BY <1>1, HeadTailProperties
<1>3. Head(buffer).from \in Senders /\ Head(buffer).seq \in Nat BY <1>2 DEF Value
<1> QED BY <1>2, <1>3 DEF TypeOK, TypeHistory, Deliver

(* The batch of a call in progress is a sequence of values. *)
LEMMA BatchType ==
    ASSUME TypeOK, NEW s \in Senders
    PROVE  /\ Batch(s) \in Seq(Value)
           /\ Len(Batch(s)) = count[s]
           /\ \A i \in 1 .. count[s] : Batch(s)[i].from = s /\ Batch(s)[i].seq = sent[s] + i
<1>1. count[s] \in Nat /\ sent[s] \in Nat BY DEF TypeOK, TypeSender, TypeHistory
<1>2. \A i \in 1 .. count[s] : [from |-> s, seq |-> sent[s] + i] \in Value
  BY <1>1 DEF Value
<1> QED BY <1>1, <1>2 DEF Batch

(* The chute a scan looks at exists, and so does the next one. *)
LEMMA ScannedType ==
    ASSUME TypeReceiver, scan < NChutes
    PROVE  Scanned \in Chutes /\ Wrap(Scanned + 1) \in Chutes
<1>1. cursor \in 0 .. NChutes - 1 /\ scan \in 0 .. NChutes - 1
  BY DEF TypeReceiver, Chutes
<1>2. Scanned \in Chutes BY <1>1, WrapInChutes DEF Scanned
<1>3. Scanned + 1 \in Nat /\ Scanned + 1 < 2 * NChutes BY <1>2 DEF Chutes
<1> QED BY <1>2, <1>3, WrapInChutes

(* Spillway's variables keep their types under every step of the channel. *)
LEMMA TypeOKStep == TypeOK /\ [Next]_vars => TypeOK'
<1> SUFFICES ASSUME TypeOK, [Next]_vars PROVE TypeOK'
  OBVIOUS
<1>a. TypeShared /\ TypeSender /\ TypeReceiver /\ TypeHistory BY DEF TypeOK
<1> SUFFICES TypeShared' /\ TypeSender' /\ TypeReceiver' /\ TypeHistory' BY DEF TypeOK
<1>b. ASSUME UNCHANGED receiverVars PROVE TypeReceiver'
  BY <1>a, <1>b DEF TypeReceiver, receiverVars
<1>c. ASSUME UNCHANGED senderVars PROVE TypeSender'
  BY <1>a, <1>c DEF TypeSender, senderVars
<1>d. ASSUME UNCHANGED history PROVE TypeHistory'
  BY <1>a, <1>d DEF TypeHistory, history
<1>e. ASSUME UNCHANGED <<sharedVars, notified>> PROVE TypeShared'
  BY <1>a, <1>e DEF TypeShared, sharedVars
<1>1. ASSUME NEW s \in Senders, NEW t \in Senders, Clone(s, t)
      PROVE  TypeShared' /\ TypeSender' /\ TypeReceiver' /\ TypeHistory'
  <2>1. chute_clock \in Chutes BY <1>a DEF TypeShared
  <2>2. chute_clock + 1 \in Nat /\ chute_clock + 1 < 2 * NChutes BY <2>1 DEF Chutes
  <2>3. Wrap(chute_clock + 1) \in Chutes BY <2>2, WrapInChutes
  <2>4. TypeShared' BY <1>1, <1>a, <2>3 DEF Clone, TypeShared
  <2>5. TypeSender' BY <1>1, <1>a, <2>1 DEF Clone, TypeSender, SenderSteps
  <2> QED BY <1>1, <1>b, <1>d, <2>4, <2>5 DEF Clone
<1>2. ASSUME NEW s \in Senders, NEW k \in BatchSizes, BeginSend(s, k)
      PROVE  TypeShared' /\ TypeSender' /\ TypeReceiver' /\ TypeHistory'
  <2>1. k \in Nat OBVIOUS
  <2>2. TypeShared' BY <1>2, <1>a, <2>1 DEF BeginSend, TypeShared
  <2>3. TypeSender' BY <1>2, <1>a, <2>1 DEF BeginSend, TypeSender, SenderSteps
  <2> QED BY <1>2, <1>b, <1>d, <2>2, <2>3 DEF BeginSend
<1>3. ASSUME NEW s \in Senders, Rollback(s)
      PROVE  TypeShared' /\ TypeSender' /\ TypeReceiver' /\ TypeHistory'
  <2>1. count[s] \in Nat BY <1>a DEF TypeSender
  <2>2. TypeShared' BY <1>3, <1>a, <2>1 DEF Rollback, TypeShared
  <2>3. TypeSender' BY <1>3, <1>a DEF Rollback, TypeSender, SenderSteps
  <2> QED BY <1>3, <1>b, <1>d, <2>2, <2>3 DEF Rollback
<1>4. ASSUME NEW s \in Senders, Commit(s)
      PROVE  TypeShared' /\ TypeSender' /\ TypeReceiver' /\ TypeHistory'
  <2>1. chute[s] \in Chutes /\ count[s] \in Nat /\ sent[s] \in Nat
    BY <1>a DEF TypeSender, TypeHistory
  <2>2. chutes[chute[s]] \o Batch(s) \in Seq(Value)
    BY <1>a, <2>1, BatchType, ConcatProperties DEF TypeShared
  <2>3. chutes' \in [Chutes -> Seq(Value)]
    BY <1>4, <1>a, <2>2 DEF Commit, TypeShared
  <2>4. clean' \in [Chutes -> BOOLEAN]
    BY <1>4, <1>a, Zenon DEF Commit, TypeShared
  <2>5. TypeShared' BY <1>4, <1>a, <2>3, <2>4 DEF Commit, TypeShared
  <2>6. TypeSender' BY <1>4, <1>a DEF Commit, TypeSender, SenderSteps
  <2>7. TypeHistory' BY <1>4, <1>a, <2>1 DEF Commit, TypeHistory
  <2> QED BY <1>4, <1>b, <2>5, <2>6, <2>7 DEF Commit
<1>5. ASSUME NEW s \in Senders, WakeForDirty(s) \/ WakeForLastDrop(s)
      PROVE  TypeShared' /\ TypeSender' /\ TypeReceiver' /\ TypeHistory'
  <2>1. TypeShared' BY <1>5, <1>a DEF WakeForDirty, WakeForLastDrop, WakeReceiver, TypeShared
  <2>2. TypeSender' BY <1>5, <1>a DEF WakeForDirty, WakeForLastDrop, TypeSender, SenderSteps
  <2> QED BY <1>5, <1>b, <1>d, <2>1, <2>2 DEF WakeForDirty, WakeForLastDrop
<1>6. ASSUME NEW s \in Senders, DropSender(s)
      PROVE  TypeShared' /\ TypeSender' /\ TypeReceiver' /\ TypeHistory'
  <2>1. TypeShared' BY <1>6, <1>a DEF DropSender, TypeShared
  <2>2. TypeSender' BY <1>6, <1>a DEF DropSender, TypeSender, SenderSteps
  <2> QED BY <1>6, <1>b, <1>d, <2>1, <2>2 DEF DropSender
<1>7. ASSUME NEW m \in Modes, StartPoll(m)
      PROVE  TypeShared' /\ TypeSender' /\ TypeReceiver' /\ TypeHistory'
  <2>1. TypeReceiver' BY <1>7, <1>a DEF StartPoll, TypeReceiver, ReceiverSteps
  <2> QED BY <1>7, <1>c, <1>d, <1>e, <2>1 DEF StartPoll
<1>8. ASSUME FindDirty \/ FindClean \/ CheckSenders
      PROVE  TypeShared' /\ TypeSender' /\ TypeReceiver' /\ TypeHistory'
  <2>1. TypeReceiver'
    BY <1>8, <1>a DEF FindDirty, FindClean, AfterCleanScan, CheckSenders, TypeReceiver, ReceiverSteps
  <2> QED BY <1>8, <1>c, <1>d, <1>e, <2>1 DEF FindDirty, FindClean, CheckSenders
<1>9. ASSUME Register
      PROVE  TypeShared' /\ TypeSender' /\ TypeReceiver' /\ TypeHistory'
  <2>1. TypeShared' BY <1>9, <1>a DEF Register, TypeShared
  <2>2. TypeReceiver' BY <1>9, <1>a DEF Register, TypeReceiver, ReceiverSteps
  <2> QED BY <1>9, <1>c, <1>d, <2>1, <2>2 DEF Register
<1>10. ASSUME Swap
      PROVE  TypeShared' /\ TypeSender' /\ TypeReceiver' /\ TypeHistory'
  <2>1. Scanned \in Chutes /\ Wrap(Scanned + 1) \in Chutes
    BY <1>10, <1>a, ScannedType DEF Swap, TypeReceiver
  <2>2. chutes' \in [Chutes -> Seq(Value)] BY <1>10, <1>a, <2>1 DEF Swap, TypeShared
  <2>3. TypeShared' BY <1>10, <1>a, <2>2 DEF Swap, TypeShared
  <2>4. buffer' \in Seq(Value) BY <1>10, <1>a, <2>1 DEF Swap, TypeShared
  <2>5. TypeReceiver' BY <1>10, <1>a, <2>1, <2>4 DEF Swap, TypeReceiver, ReceiverSteps
  <2> QED BY <1>10, <1>c, <1>d, <2>3, <2>5 DEF Swap
<1>11. ASSUME TakeOne
      PROVE  TypeShared' /\ TypeSender' /\ TypeReceiver' /\ TypeHistory'
  <2>1. buffer' \in Seq(Value) /\ TypeHistory' BY <1>11, DeliverType DEF TakeOne
  <2>2. TypeShared' BY <1>11, <1>a DEF TakeOne, Sized, TypeShared
  <2>3. TypeReceiver' BY <1>11, <1>a, <2>1 DEF TakeOne, TypeReceiver, ReceiverSteps
  <2> QED BY <1>11, <1>c, <2>1, <2>2, <2>3 DEF TakeOne
<1>12. ASSUME TakeForBatch \/ PutBack \/ DrainDrop
      PROVE  TypeShared' /\ TypeSender' /\ TypeReceiver' /\ TypeHistory'
  <2>1. Len(buffer) \in Nat BY <1>a, LenProperties DEF TypeReceiver
  <2>2. TypeShared'
    BY <1>12, <1>a, <2>1 DEF TakeForBatch, PutBack, DrainDrop, Sized, TypeShared, TypeReceiver
  <2>3. TypeReceiver'
    BY <1>12, <1>a, <2>1 DEF TakeForBatch, PutBack, DrainDrop, TypeReceiver, ReceiverSteps
  <2> QED BY <1>12, <1>c, <1>d, <2>2, <2>3 DEF TakeForBatch, PutBack, DrainDrop
<1>13. ASSUME DrainNext
      PROVE  TypeShared' /\ TypeSender' /\ TypeReceiver' /\ TypeHistory'
  <2>1. buffer' \in Seq(Value) /\ TypeHistory' BY <1>13, DeliverType DEF DrainNext
  <2>2. TypeReceiver' BY <1>13, <1>a, <2>1 DEF DrainNext, TypeReceiver
  <2> QED BY <1>13, <1>c, <1>e, <2>1, <2>2 DEF DrainNext
<1>14. ASSUME Wakeup \/ SpuriousPoll
      PROVE  TypeShared' /\ TypeSender' /\ TypeReceiver' /\ TypeHistory'
  <2>1. TypeShared' BY <1>14, <1>a DEF Wakeup, SpuriousPoll, TaskPolled, TypeShared, sharedVars
  <2>2. TypeReceiver'
    BY <1>14, <1>a DEF Wakeup, SpuriousPoll, TaskPolled, TypeReceiver, ReceiverSteps
  <2> QED BY <1>14, <1>c, <1>d, <2>1, <2>2 DEF Wakeup, SpuriousPoll, TaskPolled
<1>15. ASSUME DropReceiver
      PROVE  TypeShared' /\ TypeSender' /\ TypeReceiver' /\ TypeHistory'
  <2>1. TypeReceiver' BY <1>15, <1>a DEF DropReceiver, TypeReceiver, ReceiverSteps
  <2> QED BY <1>15, <1>c, <1>d, <1>e, <2>1 DEF DropReceiver
<1>16. ASSUME UNCHANGED vars
      PROVE  TypeShared' /\ TypeSender' /\ TypeReceiver' /\ TypeHistory'
  BY <1>16, <1>b, <1>c, <1>d, <1>e DEF vars
<1> QED
  BY <1>1, <1>2, <1>3, <1>4, <1>5, <1>6, <1>7, <1>8, <1>9, <1>10, <1>11, <1>12, <1>13,
     <1>14, <1>15, <1>16
  DEF Next, SenderStep, ReceiverStep, Finished

(* Every reachable state of the channel has the types of TypeOK. *)
THEOREM TypeCorrect == Spec => []TypeOK
<1>1. Init => TypeOK
  <2> SUFFICES ASSUME Init PROVE TypeOK OBVIOUS
  <2>1. Wrap(1) \in Chutes BY WrapInChutes
  <2>2. 0 \in Chutes BY DEF Chutes
  <2>3. TypeShared
    <3>1. <<>> \in Seq(Value) OBVIOUS
    <3>2. chutes \in [Chutes -> Seq(Value)] BY <3>1 DEF Init
    <3>3. clean \in [Chutes -> BOOLEAN] BY DEF Init
    <3>4. chute_clock \in Chutes BY <2>1 DEF Init
    <3>5. waker \in BOOLEAN /\ notified \in BOOLEAN BY DEF Init
    <3>6. senders \in Int /\ channel_size \in Int BY DEF Init
    <3> QED BY <3>2, <3>3, <3>4, <3>5, <3>6 DEF TypeShared
  <2>4. TypeSender BY <2>2 DEF Init, TypeSender, SenderSteps
  <2>5. TypeReceiver BY <2>2 DEF Init, TypeReceiver, ReceiverSteps
  <2>6. TypeHistory BY DEF Init, TypeHistory
  <2> QED BY <2>3, <2>4, <2>5, <2>6 DEF TypeOK
<1> QED BY <1>1, TypeOKStep, PTL DEF Spec

-----------------------------------------------------------------------------
(* Wakeups, the end of the channel, and the receiver's expect. *)

(* The handles form a finite set. *)
LEMMA LiveFinite == IsFiniteSet(Live) /\ Cardinality(Live) \in Nat
<1>1. Live \in SUBSET Senders BY DEF Live
<1>2. IsFiniteSet(Live)
  <2>1. IsFiniteSet(Senders) OBVIOUS
  <2> QED BY <1>1, <2>1, FS_Subset
<1> QED BY <1>2, FS_CardinalityType

(* Which steps change the set of counted handles. *)
LEMMA LiveSteps ==
    ASSUME TypeOK, [Next]_vars
    PROVE  \/ Live' = Live /\ senders' = senders
           \/ \E s, t \in Senders : /\ Clone(s, t) /\ s \in Live /\ t \notin Live
                                    /\ Live' = Live \cup {t} /\ senders' = senders + 1
           \/ \E s \in Senders : /\ DropSender(s) /\ s \in Live
                                 /\ Live' = Live \ {s} /\ senders' = senders - 1
<1>a. pc \in [Senders -> SenderSteps] BY DEF TypeOK, TypeSender
<1>1. ASSUME NEW s \in Senders, NEW t \in Senders, Clone(s, t)
      PROVE  /\ s \in Live /\ t \notin Live
             /\ Live' = Live \cup {t} /\ senders' = senders + 1
  BY <1>a, <1>1 DEF Clone, Live
<1>2. ASSUME NEW s \in Senders, DropSender(s)
      PROVE  s \in Live /\ Live' = Live \ {s} /\ senders' = senders - 1
  <2>1. pc'[s] \in {"wakedrop", "dropped"} /\ \A u \in Senders : u # s => pc'[u] = pc[u]
    BY <1>a, <1>2 DEF DropSender
  <2>2. pc[s] = "idle" /\ senders' = senders - 1 BY <1>2 DEF DropSender
  <2> QED BY <2>1, <2>2 DEF Live
<1>3. ASSUME NEW s \in Senders, NEW k \in BatchSizes, BeginSend(s, k)
      PROVE  Live' = Live /\ senders' = senders
  <2>1. pc[s] = "idle" /\ pc'[s] \in {"rollback", "commit"} /\ \A u \in Senders : u # s => pc'[u] = pc[u]
    BY <1>a, <1>3 DEF BeginSend
  <2> QED BY <1>3, <2>1 DEF Live, BeginSend
<1>4. ASSUME NEW s \in Senders, Commit(s)
      PROVE  Live' = Live /\ senders' = senders
  <2>1. pc[s] = "commit" /\ pc'[s] \in {"wake", "idle"} /\ \A u \in Senders : u # s => pc'[u] = pc[u]
    BY <1>a, <1>4 DEF Commit
  <2> QED BY <1>4, <2>1 DEF Live, Commit
<1>5. ASSUME NEW s \in Senders, Rollback(s) \/ WakeForDirty(s) \/ WakeForLastDrop(s)
      PROVE  Live' = Live /\ senders' = senders
  BY <1>a, <1>5 DEF Live, Rollback, WakeForDirty, WakeForLastDrop
<1>6. ASSUME UNCHANGED <<pc, senders>> PROVE Live' = Live /\ senders' = senders
  BY <1>6 DEF Live
<1>7. ASSUME \/ \E m \in Modes : StartPoll(m)
             \/ ReceiverStep \/ Wakeup \/ SpuriousPoll \/ DropReceiver \/ UNCHANGED vars
      PROVE  UNCHANGED <<pc, senders>>
  BY <1>7 DEF StartPoll, ReceiverStep, FindDirty, FindClean, Register, CheckSenders, Swap, TakeOne,
              TakeForBatch, PutBack, DrainNext, DrainDrop, Wakeup, SpuriousPoll, TaskPolled,
              DropReceiver, vars, sharedVars, senderVars
<1> QED BY <1>1, <1>2, <1>3, <1>4, <1>5, <1>6, <1>7 DEF Next, SenderStep, Finished

(* The counter of handles is exact. *)
LEMMA SendersCountedStep ==
    ASSUME TypeOK, SendersCounted, [Next]_vars
    PROVE  SendersCounted'
<1>1. CASE Live' = Live /\ senders' = senders BY <1>1 DEF SendersCounted
<1>2. ASSUME NEW t \in Senders, t \notin Live, Live' = Live \cup {t}, senders' = senders + 1
      PROVE  SendersCounted'
  BY <1>2, LiveFinite, FS_AddElement DEF SendersCounted
<1>3. ASSUME NEW s \in Senders, s \in Live, Live' = Live \ {s}, senders' = senders - 1
      PROVE  SendersCounted'
  BY <1>3, LiveFinite, FS_RemoveElement DEF SendersCounted
<1> QED BY <1>1, <1>2, <1>3, LiveSteps

-----------------------------------------------------------------------------
(* A flag that says clean is right about its queue, although it is read without the mutex. *)
LEMMA CleanMeansEmptyStep ==
    ASSUME TypeOK, CleanMeansEmpty, [Next]_vars
    PROVE  CleanMeansEmpty'
<1>a. /\ chutes \in [Chutes -> Seq(Value)] /\ clean \in [Chutes -> BOOLEAN]
      /\ chute \in [Senders -> Chutes]
  BY DEF TypeOK, TypeShared, TypeSender
<1>1. ASSUME NEW s \in Senders, Commit(s) PROVE CleanMeansEmpty'
  <2>1. PICK c0 \in Chutes : c0 = chute[s] BY <1>a
  <2>2. clean'[c0] = (clean[c0] /\ chutes[c0] # <<>>)
    BY <1>1, <1>a, <2>1 DEF Commit, FallingEdge
  <2>3. ~clean'[c0] BY <2>2 DEF CleanMeansEmpty
  <2>4. \A c \in Chutes : c # c0 => clean'[c] = clean[c] /\ chutes'[c] = chutes[c]
    BY <1>1, <1>a, <2>1 DEF Commit
  <2> QED BY <2>3, <2>4 DEF CleanMeansEmpty
<1>2. ASSUME Swap PROVE CleanMeansEmpty'
  <2>1. PICK c0 \in Chutes : c0 = Scanned
    BY <1>2, ScannedType DEF Swap, TypeOK, TypeReceiver
  <2>2. chutes'[c0] = <<>> BY <1>2, <1>a, <2>1 DEF Swap
  <2>3. \A c \in Chutes : c # c0 => clean'[c] = clean[c] /\ chutes'[c] = chutes[c]
    BY <1>2, <1>a, <2>1 DEF Swap
  <2> QED BY <2>2, <2>3 DEF CleanMeansEmpty
<1>3. ASSUME ~Swap, \A s \in Senders : ~Commit(s) PROVE UNCHANGED <<chutes, clean>>
  BY <1>3
  DEF Next, SenderStep, ReceiverStep, Finished, Clone, BeginSend, Rollback, WakeForDirty,
      DropSender, WakeForLastDrop, StartPoll, FindDirty, FindClean, Register, CheckSenders, TakeOne,
      TakeForBatch, PutBack, DrainNext, DrainDrop, Wakeup, SpuriousPoll, TaskPolled, DropReceiver,
      vars, sharedVars
<1> QED BY <1>1, <1>2, <1>3 DEF CleanMeansEmpty

(* What a step of a sender does to the mutexes while the receiver stays where it is. *)
LEMMA WatchingSender ==
    ASSUME TypeOK, Watching, NEW s \in Senders, SenderStep(s)
    PROVE  Watching'
<1>a. /\ pc \in [Senders -> SenderSteps] /\ chute \in [Senders -> Chutes]
      /\ chutes \in [Chutes -> Seq(Value)]
  BY DEF TypeOK, TypeSender, TypeShared
<1>b. UNCHANGED receiverVars
  BY DEF SenderStep, Clone, BeginSend, Rollback, Commit, WakeForDirty, DropSender, WakeForLastDrop
<1>c. UNCHANGED <<rpc, mode, cursor, scan>> BY <1>b DEF receiverVars
<1> SUFFICES ASSUME rpc \in {"scan2", "senders", "parked"}, mode # "try", ~notified'
             PROVE  /\ waker'
                    /\ \A c \in Chutes : Distance(c) < scan /\ chutes'[c] # <<>> => Locked(c)'
  BY <1>c DEF Watching, Distance
<1>1. ASSUME WakeForDirty(s) \/ WakeForLastDrop(s) PROVE FALSE
  BY <1>1 DEF WakeForDirty, WakeForLastDrop, WakeReceiver, Watching
<1>2. ASSUME Commit(s)
      PROVE  /\ waker'
             /\ \A c \in Chutes : Distance(c) < scan /\ chutes'[c] # <<>> => Locked(c)'
  <2>1. UNCHANGED <<waker, notified, chute>> BY <1>2 DEF Commit
  <2>2. waker /\ \A c \in Chutes : Distance(c) < scan /\ chutes[c] # <<>> => Locked(c)
    BY <2>1 DEF Watching
  <2>3. PICK c0 \in Chutes : c0 = chute[s] BY <1>a
  <2>4. pc[s] = "commit" /\ ~Locked(c0) /\ \A u \in Senders : u # s => pc'[u] = pc[u]
    BY <1>2, <1>a, <2>3 DEF Commit
  <2>5. Distance(c0) < scan => Locked(c0)'
    <3> SUFFICES ASSUME Distance(c0) < scan PROVE Locked(c0)' OBVIOUS
    <3>1. chutes[c0] = <<>> BY <2>2, <2>4
    <3>2. pc'[s] = "wake" BY <1>2, <1>a, <2>3, <3>1 DEF Commit, FallingEdge
    <3> QED BY <2>1, <2>3, <3>2 DEF Locked
  <2>6. \A c \in Chutes : c # c0 => chutes'[c] = chutes[c] BY <1>2, <1>a, <2>3 DEF Commit
  <2>7. ASSUME NEW c \in Chutes, Locked(c) PROVE Locked(c)'
    <3>1. PICK u \in Senders : pc[u] = "wake" /\ chute[u] = c BY <2>7 DEF Locked
    <3>2. u # s BY <2>4, <3>1
    <3> QED BY <2>1, <2>4, <3>1, <3>2 DEF Locked
  <2> QED BY <2>1, <2>2, <2>5, <2>6, <2>7
<1>3. ASSUME \/ \E t \in Senders : Clone(s, t)
             \/ \E k \in BatchSizes : BeginSend(s, k)
             \/ Rollback(s) \/ DropSender(s)
      PROVE  /\ waker'
             /\ \A c \in Chutes : Distance(c) < scan /\ chutes'[c] # <<>> => Locked(c)'
  <2>1. UNCHANGED <<waker, notified, chutes>>
    BY <1>3 DEF Clone, BeginSend, Rollback, DropSender
  <2>2. \A u \in Senders : pc[u] = "wake" => pc'[u] = "wake" /\ chute'[u] = chute[u]
    BY <1>3, <1>a DEF Clone, BeginSend, Rollback, DropSender
  <2>3. ASSUME NEW c \in Chutes, Locked(c) PROVE Locked(c)'
    BY <2>2, <2>3 DEF Locked
  <2> QED BY <2>1, <2>3 DEF Watching
<1> QED BY <1>1, <1>2, <1>3 DEF SenderStep

(* The receiver's own steps: it looks, registers, looks again and parks. *)
LEMMA WatchingReceiver ==
    ASSUME TypeOK, CleanMeansEmpty, Watching,
           \/ \E m \in Modes : StartPoll(m)
           \/ ReceiverStep \/ Wakeup \/ SpuriousPoll \/ DropReceiver
    PROVE  Watching'
<1>a. /\ chutes \in [Chutes -> Seq(Value)] /\ clean \in [Chutes -> BOOLEAN]
      /\ cursor \in 0 .. NChutes - 1 /\ scan \in 0 .. NChutes
      /\ (rpc \in {"scan1", "scan2", "swap"} => scan < NChutes)
  BY DEF TypeOK, TypeShared, TypeReceiver, Chutes
<1>b. ASSUME NEW c \in Chutes PROVE Distance(c) \in 0 .. NChutes - 1
  BY <1>a DEF Distance, Chutes
<1>1. CASE FindClean
  <2>1. UNCHANGED <<mode, cursor, chutes, notified, waker, pc, chute>>
    BY <1>1 DEF FindClean, sharedVars, senderVars
  <2>2. CASE rpc = "scan1" BY <1>1, <2>2 DEF FindClean, AfterCleanScan, Watching
  <2>3. CASE rpc = "scan2"
    <3> SUFFICES ASSUME mode # "try", ~notified
                 PROVE  /\ waker
                        /\ \A c \in Chutes : Distance(c) < scan + 1 /\ chutes[c] # <<>> => Locked(c)
      BY <1>1, <2>1 DEF FindClean, Watching, Distance, Locked
    <3>1. waker /\ \A c \in Chutes : Distance(c) < scan /\ chutes[c] # <<>> => Locked(c)
      BY <2>3 DEF Watching
    <3>2. ASSUME NEW c \in Chutes, Distance(c) = scan PROVE chutes[c] = <<>>
      <4>1. c = Scanned BY <1>a, <2>3, <3>2 DEF Distance, Scanned, Wrap, Chutes
      <4> QED BY <1>1, <4>1 DEF FindClean, CleanMeansEmpty
    <3>3. \A c \in Chutes : Distance(c) < scan + 1 => Distance(c) < scan \/ Distance(c) = scan
      BY <1>a, <1>b
    <3> QED BY <3>1, <3>2, <3>3
  <2> QED BY <1>1, <2>2, <2>3 DEF FindClean
<1>2. CASE Register
  <2>1. scan' = 0 /\ waker' = (mode # "try") /\ mode' = mode /\ cursor' = cursor
    BY <1>2 DEF Register
  <2>2. \A c \in Chutes : ~(Distance(c)' < scan')
    BY <1>b, <2>1 DEF Distance
  <2> QED BY <2>1, <2>2 DEF Watching
<1>3. CASE CheckSenders
  <2>1. UNCHANGED <<mode, cursor, scan, chutes, notified, waker, pc, chute>>
    BY <1>3 DEF CheckSenders, sharedVars, senderVars
  <2>2. rpc = "senders" /\ rpc' \in {"idle", "done", "parked"} BY <1>3 DEF CheckSenders
  <2> QED BY <2>1, <2>2 DEF Watching, Distance, Locked
<1>4. ASSUME \/ \E m \in Modes : StartPoll(m)
             \/ FindDirty \/ Swap \/ TakeOne \/ TakeForBatch \/ PutBack \/ DrainNext \/ DrainDrop
             \/ Wakeup \/ SpuriousPoll \/ DropReceiver
      PROVE  rpc' \notin {"scan2", "senders", "parked"}
  BY <1>4 DEF StartPoll, FindDirty, Swap, TakeOne, TakeForBatch, PutBack, DrainNext, DrainDrop,
              Wakeup, SpuriousPoll, TaskPolled, DropReceiver
<1> QED BY <1>1, <1>2, <1>3, <1>4 DEF ReceiverStep, Watching

-----------------------------------------------------------------------------
(* WakeInv is inductive. *)
LEMMA WakeInvStep == TypeOK /\ WakeInv /\ [Next]_vars => WakeInv'
<1> SUFFICES ASSUME TypeOK, WakeInv, [Next]_vars PROVE WakeInv'
  OBVIOUS
<1>a. pc \in [Senders -> SenderSteps] BY DEF TypeOK, TypeSender
<1>b. /\ CleanMeansEmpty /\ ScanComplete /\ Watching /\ SendersCounted /\ EndAnnounced
      /\ (rpc = "parked" => mode # "try") /\ (rpc = "done" => Live = {})
  BY DEF WakeInv
<1>1. CleanMeansEmpty' BY <1>b, CleanMeansEmptyStep
<1>2. SendersCounted' BY <1>b, SendersCountedStep
<1>3. Watching'
  <2>1. ASSUME UNCHANGED vars PROVE Watching'
    BY <1>b, <2>1 DEF vars, sharedVars, senderVars, receiverVars, Watching, Distance, Locked
  <2> QED BY <1>b, <2>1, WatchingSender, WatchingReceiver DEF Next, Finished
<1>4. ASSUME NEW s \in Senders, SenderStep(s) PROVE UNCHANGED receiverVars
  BY <1>4
  DEF SenderStep, Clone, BeginSend, Rollback, Commit, WakeForDirty, DropSender, WakeForLastDrop
<1>5. (rpc = "parked" => mode # "try")' /\ ScanComplete'
  BY <1>4, <1>b
  DEF ScanComplete, Next, ReceiverStep, Finished, StartPoll, FindDirty, FindClean, AfterCleanScan,
      Register, CheckSenders, Swap, TakeOne, TakeForBatch, PutBack, DrainNext, DrainDrop, Wakeup,
      SpuriousPoll, TaskPolled, DropReceiver, vars, receiverVars
<1>6. /\ rpc' = "done" => rpc = "done" \/ (CheckSenders /\ senders = 0)
      /\ rpc' = "parked" => rpc = "parked" \/ (CheckSenders /\ senders # 0)
  BY <1>4
  DEF Next, ReceiverStep, Finished, StartPoll, FindDirty, FindClean, AfterCleanScan, Register,
      CheckSenders, Swap, TakeOne, TakeForBatch, PutBack, DrainNext, DrainDrop, Wakeup,
      SpuriousPoll, TaskPolled, DropReceiver, vars, receiverVars
<1>7. CheckSenders => UNCHANGED <<pc, senders, notified>> /\ Live' = Live
  BY DEF CheckSenders, sharedVars, senderVars, Live
<1>8. (rpc = "done" => Live = {})'
  <2> SUFFICES ASSUME rpc' = "done" PROVE Live' = {} OBVIOUS
  <2>1. CASE CheckSenders /\ senders = 0
    BY <1>b, <1>7, <2>1, LiveFinite, FS_EmptySet DEF SendersCounted
  <2>2. CASE rpc = "done"
    BY <1>b, <2>2, LiveSteps
  <2> QED BY <1>6, <2>1, <2>2
<1>9. EndAnnounced'
  <2> SUFFICES ASSUME rpc' = "parked", ~notified', Live' = {}
               PROVE  \E s \in Senders : pc'[s] = "wakedrop"
    BY DEF EndAnnounced
  <2>1. CASE CheckSenders /\ senders # 0
    BY <1>b, <1>7, <2>1, LiveFinite, FS_EmptySet DEF SendersCounted
  <2>2. CASE rpc = "parked" /\ Live = {}
    <3>1. ~ CheckSenders BY <2>2 DEF CheckSenders
    <3>2. \A s \in Senders : pc[s] \in {"unborn", "wakedrop", "dropped"} BY <2>2 DEF Live
    <3>3. ASSUME NEW s \in Senders, SenderStep(s) PROVE WakeForLastDrop(s)
      BY <3>2, <3>3
      DEF SenderStep, Clone, BeginSend, Rollback, Commit, WakeForDirty, DropSender
    <3>4. ASSUME NEW s \in Senders, WakeForLastDrop(s) PROVE FALSE
      BY <1>b, <2>2, <3>4 DEF WakeForLastDrop, WakeReceiver, Watching
    <3>5. UNCHANGED <<pc, notified>>
      BY <2>2, <3>3, <3>4
      DEF Next, ReceiverStep, Finished, StartPoll, FindDirty, FindClean, Register, CheckSenders,
          Swap, TakeOne, TakeForBatch, PutBack, DrainNext, DrainDrop, Wakeup, SpuriousPoll,
          TaskPolled, DropReceiver, vars, senderVars
    <3> QED BY <1>b, <2>2, <3>5 DEF EndAnnounced
  <2>3. CASE rpc = "parked" /\ Live # {}
    <3>1. PICK s \in Senders : DropSender(s) /\ s \in Live /\ Live' = Live \ {s}
      BY <2>3, LiveSteps
    <3>2. Live = {s} BY <3>1
    <3>3. senders = 1 BY <1>b, <3>2, FS_Singleton DEF SendersCounted
    <3>4. pc'[s] = "wakedrop" BY <1>a, <3>1, <3>3 DEF DropSender, LastSender
    <3> QED BY <3>4
  <2> QED BY <1>6, <2>1, <2>2, <2>3
<1> QED BY <1>1, <1>2, <1>3, <1>5, <1>8, <1>9 DEF WakeInv

(* What the receiver and the senders know of each other, in every reachable state. *)
THEOREM WakeInvariant == Spec => []WakeInv
<1>1. Init => WakeInv
  <2> SUFFICES ASSUME Init PROVE WakeInv OBVIOUS
  <2>1. Live = {First} BY DEF Init, Live
  <2>2. SendersCounted BY <2>1, FS_Singleton DEF Init, SendersCounted
  <2>3. CleanMeansEmpty /\ ScanComplete /\ Watching /\ EndAnnounced
    BY DEF Init, CleanMeansEmpty, ScanComplete, Watching, EndAnnounced
  <2> QED BY <2>2, <2>3 DEF Init, WakeInv
<1> QED BY <1>1, WakeInvStep, TypeCorrect, PTL DEF Spec

(* A parked, un-notified receiver leaves no value and no end of channel unannounced (NoLostWakeup), *)
(* whatever the interleaving of senders, clones, drops and the scan.                                *)
THEOREM NoWakeupIsLost == Spec => []NoLostWakeup
<1>1. TypeOK /\ WakeInv => NoLostWakeup
  <2> SUFFICES ASSUME TypeOK, WakeInv, rpc = "parked", ~notified
               PROVE  /\ waker
                      /\ \A c \in Chutes : chutes[c] # <<>> => Locked(c)
                      /\ Live = {} => \E s \in Senders : pc[s] = "wakedrop"
    BY DEF NoLostWakeup
  <2>1. scan = NChutes /\ mode # "try" /\ Watching BY DEF WakeInv, ScanComplete
  <2>2. cursor \in 0 .. NChutes - 1 BY DEF TypeOK, TypeReceiver, Chutes
  <2>3. \A c \in Chutes : Distance(c) < scan BY <2>1, <2>2 DEF Distance, Chutes
  <2>4. waker /\ \A c \in Chutes : chutes[c] # <<>> => Locked(c)
    BY <2>1, <2>3 DEF Watching
  <2> QED BY <2>4 DEF WakeInv, EndAnnounced
<1> QED BY <1>1, TypeCorrect, WakeInvariant, PTL

(* Ready(None) is given only when no handle is left, and the counter of handles is exact *)
(* (NoneMeansNoSender).                                                                  *)
THEOREM EndIsReal == Spec => []NoneMeansNoSender
<1>1. WakeInv => NoneMeansNoSender BY DEF WakeInv, SendersCounted, NoneMeansNoSender
<1> QED BY <1>1, WakeInvariant, PTL

-----------------------------------------------------------------------------
(* A chute that is marked dirty stays so, with its value, until the receiver takes it, if every *)
(* batch has one.                                                                               *)
LEMMA DirtyInvStep ==
    ASSUME 0 \notin BatchSizes, TypeOK, DirtyInv, CountFromCall, [Next]_vars
    PROVE  DirtyInv'
<1>a. /\ chutes \in [Chutes -> Seq(Value)] /\ clean \in [Chutes -> BOOLEAN]
      /\ chute \in [Senders -> Chutes] /\ pc \in [Senders -> SenderSteps] /\ TypeReceiver
  BY DEF TypeOK, TypeShared, TypeSender
<1>b. rpc \in {"scan1", "scan2", "swap"} => Scanned \in Chutes BY <1>a, ScannedType DEF TypeReceiver
<1>1. ASSUME NEW s \in Senders, Commit(s) PROVE DirtyInv'
  <2>1. PICK c \in Chutes : c = chute[s] BY <1>a
  <2>2. count[s] \in Nat /\ count[s] # 0 BY <1>1 DEF CountFromCall, Commit, TypeOK, TypeSender
  <2>3. Batch(s) \in Seq(Value) /\ Len(Batch(s)) = count[s] BY BatchType
  <2>4. chutes[c] \in Seq(Value) BY <1>a
  <2>5. chutes[c] \o Batch(s) \in Seq(Value) /\ Len(chutes[c] \o Batch(s)) = Len(chutes[c]) + count[s]
    BY <2>3, <2>4, ConcatProperties
  <2>6. Len(chutes[c]) \in Nat BY <2>4, LenProperties
  <2>7. Len(chutes[c] \o Batch(s)) # 0 BY <2>2, <2>5, <2>6
  <2>8. chutes[c] \o Batch(s) # <<>> BY <2>5, <2>7, EmptySeq
  <2>9. /\ chutes' = [chutes EXCEPT ![c] = chutes[c] \o Batch(s)]
        /\ clean' = [clean EXCEPT ![c] = clean[c] /\ ~FallingEdge(chutes[c])]
        /\ UNCHANGED <<rpc, cursor, scan, buffer>>
    BY <1>1, <2>1 DEF Commit, receiverVars
  <2>10. \A d \in Chutes : ~clean'[d] => chutes'[d] # <<>> BY <1>a, <2>8, <2>9 DEF DirtyInv
  <2>11. rpc' = "swap" => ~clean'[Scanned']
    <3>1. Scanned' = Scanned BY <2>9 DEF Scanned
    <3>2. \A d \in Chutes : ~clean[d] => ~clean'[d] BY <1>a, <2>9
    <3> QED BY <1>b, <2>9, <3>1, <3>2 DEF DirtyInv
  <2> QED BY <2>9, <2>10, <2>11 DEF DirtyInv, ExpectHolds
<1>2. ASSUME UNCHANGED <<chutes, clean, cursor, scan, buffer>>, rpc' = "swap" => rpc = "swap" \/ ~clean[Scanned],
             rpc' = "take" => rpc = "take" \/ buffer # <<>>
      PROVE  DirtyInv'
  BY <1>2 DEF DirtyInv, ExpectHolds, Scanned
<1>3. ASSUME NEW s \in Senders, SenderStep(s), ~Commit(s) PROVE DirtyInv'
  <2>1. UNCHANGED <<chutes, clean, rpc, cursor, scan, buffer>>
    BY <1>3 DEF SenderStep, Clone, BeginSend, Rollback, WakeForDirty, DropSender, WakeForLastDrop, receiverVars
  <2> QED BY <1>2, <2>1
<1>4. ASSUME Swap PROVE DirtyInv'
  <2>1. PICK c \in Chutes : c = Scanned BY <1>4, <1>b DEF Swap
  <2>2. chutes[c] # <<>> BY <1>4, <2>1 DEF DirtyInv, Swap
  <2>3. /\ buffer' = chutes[c] /\ chutes' = [chutes EXCEPT ![c] = <<>>] /\ clean' = [clean EXCEPT ![c] = TRUE]
        /\ rpc' = "take"
    BY <1>4, <2>1 DEF Swap
  <2>4. \A d \in Chutes : ~clean'[d] => chutes'[d] # <<>> BY <1>a, <2>3 DEF DirtyInv
  <2> QED BY <2>2, <2>3, <2>4 DEF DirtyInv, ExpectHolds
<1>5. ASSUME rpc' \notin {"swap", "take"}, UNCHANGED <<chutes, clean>> PROVE DirtyInv'
  BY <1>5 DEF DirtyInv, ExpectHolds
<1>6. ASSUME FindClean \/ Register PROVE DirtyInv'
  BY <1>5, <1>6 DEF FindClean, AfterCleanScan, Register, sharedVars
<1>7. ASSUME NEW m \in Modes, StartPoll(m) PROVE DirtyInv'
  <2>1. rpc' # "swap" /\ (rpc' = "take" => buffer' # <<>>) /\ UNCHANGED <<chutes, clean>>
    BY <1>7 DEF StartPoll, sharedVars
  <2> QED BY <2>1 DEF DirtyInv, ExpectHolds
<1>8. ASSUME FindDirty PROVE DirtyInv' BY <1>2, <1>8 DEF FindDirty, sharedVars
<1>9. ASSUME CheckSenders \/ TakeForBatch \/ PutBack \/ DrainDrop \/ TakeOne \/ DrainNext
             \/ Wakeup \/ SpuriousPoll \/ DropReceiver
      PROVE  DirtyInv'
  BY <1>5, <1>9
  DEF CheckSenders, TakeForBatch, PutBack, DrainDrop, TakeOne, DrainNext, Wakeup, SpuriousPoll, TaskPolled,
      DropReceiver, sharedVars
<1>10. ASSUME UNCHANGED vars PROVE DirtyInv' BY <1>2, <1>10 DEF vars, sharedVars, receiverVars
<1> QED BY <1>1, <1>3, <1>4, <1>6, <1>7, <1>8, <1>9, <1>10 DEF Next, ReceiverStep, Finished

(* Who is about to commit has a batch of one of the sizes that were asked for. *)
LEMMA CountFromCallStep ==
    ASSUME TypeOK, CountFromCall, [Next]_vars
    PROVE  CountFromCall'
<1>a. pc \in [Senders -> SenderSteps] /\ count \in [Senders -> Nat] BY DEF TypeOK, TypeSender
<1>1. ASSUME NEW s \in Senders, NEW k \in BatchSizes, BeginSend(s, k) PROVE CountFromCall'
  BY <1>1, <1>a DEF BeginSend, CountFromCall
<1>2. ASSUME UNCHANGED count, \A u \in Senders : pc'[u] = pc[u] \/ pc'[u] \notin {"rollback", "commit"}
      PROVE  CountFromCall'
  BY <1>2 DEF CountFromCall
<1>3. ASSUME NEW s \in Senders,
             \/ \E t \in Senders : Clone(s, t)
             \/ Rollback(s) \/ Commit(s) \/ WakeForDirty(s) \/ DropSender(s) \/ WakeForLastDrop(s)
      PROVE  CountFromCall'
  BY <1>2, <1>3, <1>a DEF Clone, Rollback, Commit, WakeForDirty, DropSender, WakeForLastDrop
<1>4. ASSUME \/ \E m \in Modes : StartPoll(m)
             \/ ReceiverStep \/ Wakeup \/ SpuriousPoll \/ DropReceiver \/ UNCHANGED vars
      PROVE  CountFromCall'
  <2>1. UNCHANGED <<pc, count>>
    BY <1>4 DEF StartPoll, ReceiverStep, FindDirty, FindClean, Register, CheckSenders, Swap, TakeOne,
                TakeForBatch, PutBack, DrainNext, DrainDrop, Wakeup, SpuriousPoll, TaskPolled,
                DropReceiver, vars, senderVars
  <2> QED BY <1>2, <2>1
<1> QED BY <1>1, <1>3, <1>4 DEF Next, SenderStep, Finished

(* poll_next's expect never fires, although the clean flag is read without the mutex and raced  *)
(* by senders and by swap: for any senders and chutes, the buffer a receiver swaps in has a     *)
(* first value, provided that no send_many is given an empty batch (which, in this code, marks  *)
(* an empty chute dirty).                                                                       *)
THEOREM ExpectNeverFires == (0 \notin BatchSizes) /\ Spec => []ExpectHolds
<1>1. Init => DirtyInv /\ CountFromCall
  <2> SUFFICES ASSUME Init PROVE DirtyInv /\ CountFromCall OBVIOUS
  <2> QED BY DEF Init, DirtyInv, ExpectHolds, CountFromCall
<1>2. ASSUME 0 \notin BatchSizes PROVE Spec => [](DirtyInv /\ CountFromCall)
  <2>1. TypeOK /\ DirtyInv /\ CountFromCall /\ [Next]_vars => (DirtyInv /\ CountFromCall)'
    BY <1>2, DirtyInvStep, CountFromCallStep
  <2> QED BY <1>1, <2>1, TypeCorrect, PTL DEF Spec
<1>3. DirtyInv => ExpectHolds BY DEF DirtyInv
<1>4. ASSUME 0 \notin BatchSizes PROVE Spec => []ExpectHolds BY <1>2, <1>3, <1>4, PTL
<1> QED BY <1>4
=============================================================================
