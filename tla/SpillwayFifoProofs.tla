------------------------- MODULE SpillwayFifoProofs -------------------------
(***************************************************************************)
(* Spillway implements SenderFifo: per-sender order, no loss, no duplicate *)
(* and whole batches, for any number of senders and chutes.  Its size is   *)
(* exact and what it admits is within the capacity.                        *)
(***************************************************************************)
EXTENDS SpillwayProofs

(* A queue of values, element by element. *)
LEMMA ValueQueue ==
    ASSUME NEW q \in Seq(Value)
    PROVE  /\ Len(q) \in Nat
           /\ \A i \in 1 .. Len(q) : q[i].from \in Senders /\ q[i].seq \in Nat
<1>1. Len(q) \in Nat BY LenProperties
<1>2. \A i \in 1 .. Len(q) : q[i] \in Value BY ElementOfSeq
<1> QED BY <1>1, <1>2 DEF Value

(* The elements of a concatenation. *)
LEMMA Concatenated ==
    ASSUME NEW q \in Seq(Value), NEW b \in Seq(Value)
    PROVE  /\ q \o b \in Seq(Value)
           /\ Len(q \o b) = Len(q) + Len(b)
           /\ \A i \in 1 .. Len(q) : (q \o b)[i] = q[i]
           /\ \A i \in 1 .. Len(b) : (q \o b)[Len(q) + i] = b[i]
<1>1. Len(q) \in Nat /\ Len(b) \in Nat BY LenProperties
<1> QED BY <1>1, ConcatProperties

(* Enqueuing elsewhere keeps a queue as it should be. *)
LEMMA QueuedGrows ==
    ASSUME NEW q \in Seq(Value),
           NEW g \in [Senders -> Nat],
           NEW n \in [Senders -> Nat], NEW n2 \in [Senders -> Nat],
           NEW e \in [Senders -> SUBSET Nat], NEW e2 \in [Senders -> SUBSET Nat],
           \A t \in Senders : n[t] <= n2[t] /\ e[t] \subseteq e2[t],
           Queued(q, g, n, e)
    PROVE  Queued(q, g, n2, e2)
<1>1. Pending(q, g, n2) BY ValueQueue DEF Queued, Pending
<1>2. Whole(q, e2) BY ValueQueue DEF Queued, Whole
<1> QED BY <1>1, <1>2 DEF Queued

(* r is q extended by a batch of k values of s, and the history follows suit. *)
Extends(q, r, s, k, g, n, n2, e, e2) ==
    /\ \A t \in Senders : n[t] <= n2[t] /\ e[t] \subseteq e2[t]
    /\ n2[s] = n[s] + k /\ n[s] + k \in e2[s] /\ g[s] <= n[s]
    /\ Len(r) = Len(q) + k
    /\ \A i \in 1 .. Len(q) : r[i] = q[i]
    /\ \A i \in 1 .. k : r[Len(q) + i].from = s /\ r[Len(q) + i].seq = n[s] + i

(* A queue extended by the batch of one sender. *)
LEMMA QueuedExtended ==
    ASSUME NEW q \in Seq(Value), NEW r \in Seq(Value), NEW s \in Senders, NEW k \in Nat,
           NEW g \in [Senders -> Nat],
           NEW n \in [Senders -> Nat], NEW n2 \in [Senders -> Nat],
           NEW e \in [Senders -> SUBSET Nat], NEW e2 \in [Senders -> SUBSET Nat],
           Queued(q, g, n, e),
           Extends(q, r, s, k, g, n, n2, e, e2)
    PROVE  Queued(r, g, n2, e2)
<1> USE DEF Extends
<1>1. Queued(q, g, n2, e2) BY QueuedGrows
<1>2. Len(q) \in Nat /\ \A i \in 1 .. Len(q) : q[i].from \in Senders /\ q[i].seq \in Nat
  BY ValueQueue
<1>3. \A i \in 1 .. Len(r) : i > Len(q) =>
         i - Len(q) \in 1 .. k /\ r[i].from = s /\ r[i].seq = n[s] + (i - Len(q))
  <2> SUFFICES ASSUME NEW i \in 1 .. Len(r), i > Len(q)
               PROVE  i - Len(q) \in 1 .. k /\ r[i].from = s /\ r[i].seq = n[s] + (i - Len(q))
    OBVIOUS
  <2>1. i - Len(q) \in 1 .. k BY <1>2
  <2>2. i = Len(q) + (i - Len(q)) BY <1>2
  <2> QED BY <2>1, <2>2
<1>4. Pending(r, g, n2)
  <2> SUFFICES ASSUME NEW i \in 1 .. Len(r)
               PROVE  g[r[i].from] < r[i].seq /\ r[i].seq <= n2[r[i].from]
    BY DEF Pending
  <2>1. CASE i <= Len(q)
    <3>1. i \in 1 .. Len(q) BY <1>2, <2>1
    <3> QED BY <1>1, <3>1 DEF Queued, Pending
  <2>2. CASE i > Len(q)
    <3>1. i - Len(q) \in 1 .. k /\ r[i].from = s /\ r[i].seq = n[s] + (i - Len(q))
      BY <1>3, <2>2
    <3>2. n[s] \in Nat /\ g[s] \in Nat OBVIOUS
    <3> QED BY <3>1, <3>2
  <2> QED BY <1>2, <2>1, <2>2
<1>5. Ordered(r)
  <2> SUFFICES ASSUME NEW i \in 1 .. Len(r), NEW j \in 1 .. Len(r), i < j, r[i].from = r[j].from
               PROVE  r[i].seq < r[j].seq
    BY DEF Ordered
  <2>1. CASE j <= Len(q)
    <3>1. i \in 1 .. Len(q) /\ j \in 1 .. Len(q) BY <1>2, <2>1
    <3> QED BY <3>1 DEF Queued, Ordered
  <2>2. CASE i <= Len(q) /\ j > Len(q)
    <3>1. i \in 1 .. Len(q) /\ r[i] = q[i] BY <1>2, <2>2
    <3>2. j - Len(q) \in 1 .. k /\ r[j].from = s /\ r[j].seq = n[s] + (j - Len(q))
      BY <1>3, <2>2
    <3>3. q[i].seq <= n[s] BY <3>1, <3>2 DEF Queued, Pending
    <3>4. q[i].seq \in Nat /\ n[s] \in Nat BY <1>2, <3>1
    <3> QED BY <3>1, <3>2, <3>3, <3>4
  <2>3. CASE i > Len(q)
    <3>1. r[i].seq = n[s] + (i - Len(q)) BY <1>3, <2>3
    <3>2. j > Len(q) BY <1>2, <2>3
    <3>3. r[j].seq = n[s] + (j - Len(q)) BY <1>3, <3>2
    <3>4. n[s] \in Nat OBVIOUS
    <3> QED BY <1>2, <3>1, <3>3, <3>4
  <2> QED BY <1>2, <2>1, <2>2, <2>3
<1>6. ASSUME NEW i \in 1 .. Len(r) - 1, r[i].from # r[i + 1].from
      PROVE  r[i].seq \in e2[r[i].from]
  <2>1. CASE i + 1 <= Len(q)
    <3>1. i \in 1 .. Len(q) - 1 /\ i \in 1 .. Len(q) /\ i + 1 \in 1 .. Len(q) BY <1>2, <2>1
    <3>2. r[i] = q[i] /\ r[i + 1] = q[i + 1] BY <3>1
    <3> QED BY <1>1, <1>6, <3>1, <3>2 DEF Queued, Whole
  <2>2. CASE i = Len(q)
    <3>1. Len(q) > 0 /\ r[i] = q[Len(q)] BY <1>2, <2>2
    <3> QED BY <1>1, <3>1 DEF Queued, Whole
  <2>3. CASE i > Len(q)
    <3>1. i \in 1 .. Len(r) /\ i + 1 \in 1 .. Len(r) /\ i + 1 > Len(q) BY <1>2, <2>3
    <3>2. r[i].from = s /\ r[i + 1].from = s BY <1>3, <2>3, <3>1
    <3> QED BY <1>6, <3>2
  <2> QED BY <1>2, <2>1, <2>2, <2>3
<1>7. ASSUME Len(r) > 0 PROVE r[Len(r)].seq \in e2[r[Len(r)].from]
  <2>1. CASE k = 0
    <3>1. Len(q) > 0 /\ Len(r) = Len(q) /\ r[Len(r)] = q[Len(q)] BY <1>2, <1>7, <2>1
    <3> QED BY <1>1, <3>1 DEF Queued, Whole
  <2>2. CASE k > 0
    <3>1. k \in 1 .. k BY <2>2
    <3>2. r[Len(r)].from = s /\ r[Len(r)].seq = n[s] + k BY <3>1
    <3> QED BY <3>2
  <2> QED BY <2>1, <2>2
<1> QED BY <1>4, <1>5, <1>6, <1>7 DEF Queued, Whole

(* r is q without its first value, which becomes the last one received of its sender. *)
Popped(q, r, g, g2) ==
    /\ Len(q) > 0
    /\ g2[q[1].from] = q[1].seq
    /\ \A t \in Senders : t # q[1].from => g2[t] = g[t]
    /\ Len(r) = Len(q) - 1
    /\ \A i \in 1 .. Len(r) : r[i] = q[i + 1]

(* A queue whose first value has been received. *)
LEMMA QueuedPopped ==
    ASSUME NEW q \in Seq(Value), NEW r \in Seq(Value),
           NEW g \in [Senders -> Nat], NEW g2 \in [Senders -> Nat],
           NEW n \in [Senders -> Nat], NEW e \in [Senders -> SUBSET Nat],
           Queued(q, g, n, e),
           Popped(q, r, g, g2)
    PROVE  Queued(r, g2, n, e)
<1> USE DEF Popped
<1>1. Len(q) \in Nat /\ \A i \in 1 .. Len(q) : q[i].from \in Senders /\ q[i].seq \in Nat
  BY ValueQueue
<1>2. \A i \in 1 .. Len(r) : i + 1 \in 1 .. Len(q) /\ 1 \in 1 .. Len(q) /\ 1 < i + 1
  BY <1>1
<1>3. Pending(r, g2, n)
  <2> SUFFICES ASSUME NEW i \in 1 .. Len(r)
               PROVE  g2[r[i].from] < r[i].seq /\ r[i].seq <= n[r[i].from]
    BY DEF Pending
  <2>1. r[i] = q[i + 1] /\ i + 1 \in 1 .. Len(q) /\ 1 \in 1 .. Len(q) BY <1>2
  <2>2. q[i + 1].seq <= n[q[i + 1].from] /\ g[q[i + 1].from] < q[i + 1].seq
    BY <2>1 DEF Queued, Pending
  <2>3. CASE q[i + 1].from = q[1].from
    <3>1. q[1].seq < q[i + 1].seq BY <1>2, <2>1, <2>3 DEF Queued, Ordered
    <3> QED BY <2>1, <2>2, <2>3, <3>1
  <2>4. CASE q[i + 1].from # q[1].from
    BY <1>1, <2>1, <2>2, <2>4
  <2> QED BY <2>3, <2>4
<1>4. Ordered(r)
  <2> SUFFICES ASSUME NEW i \in 1 .. Len(r), NEW j \in 1 .. Len(r), i < j, r[i].from = r[j].from
               PROVE  r[i].seq < r[j].seq
    BY DEF Ordered
  <2>1. i + 1 \in 1 .. Len(q) /\ j + 1 \in 1 .. Len(q) /\ i + 1 < j + 1 BY <1>2
  <2> QED BY <2>1 DEF Queued, Ordered
<1>5. ASSUME NEW i \in 1 .. Len(r) - 1, r[i].from # r[i + 1].from
      PROVE  r[i].seq \in e[r[i].from]
  <2>1. i + 1 \in 1 .. Len(q) - 1 /\ i \in 1 .. Len(r) /\ i + 1 \in 1 .. Len(r) BY <1>1
  <2>2. r[i] = q[i + 1] /\ r[i + 1] = q[i + 1 + 1] BY <2>1
  <2> QED BY <1>5, <2>1, <2>2 DEF Queued, Whole
<1>6. ASSUME Len(r) > 0 PROVE r[Len(r)].seq \in e[r[Len(r)].from]
  <2>1. Len(r) \in 1 .. Len(r) /\ Len(r) + 1 = Len(q) BY <1>1, <1>6
  <2>2. r[Len(r)] = q[Len(q)] BY <2>1
  <2> QED BY <2>2 DEF Queued, Whole
<1> QED BY <1>3, <1>4, <1>5, <1>6 DEF Queued, Whole

-----------------------------------------------------------------------------
(* A step that moves no value keeps FifoInv. *)
LEMMA FifoFrame ==
    ASSUME FifoInv,
           UNCHANGED <<chutes, chute, buffer, sent, got, ends, last>>,
           BufferEmptyWhileScanning', UnbornSentNothing', CountFromCall'
    PROVE  FifoInv'
<1>1. Queued(buffer, got, sent, ends)' BY DEF FifoInv, Queued, Pending, Ordered, Whole
<1>2. ChutesQueued' BY DEF FifoInv, ChutesQueued, Queued, Pending, Ordered, Whole
<1>3. InOwnChute' BY DEF FifoInv, InOwnChute
<1>4. BufferFirst' BY DEF FifoInv, BufferFirst
<1>5. NothingMissing' BY DEF FifoInv, NothingMissing, Contains
<1>6. BatchGoesOn' BY DEF FifoInv, BatchGoesOn
<1> QED BY <1>1, <1>2, <1>3, <1>4, <1>5, <1>6 DEF FifoInv

(* Enqueuing a batch keeps FifoInv: Chute::send_many extends the queue under the mutex. *)
LEMMA CommitFifo ==
    ASSUME TypeOK, FifoInv, NEW s \in Senders, Commit(s)
    PROVE  FifoInv'
<1>1. /\ sent \in [Senders -> Nat] /\ got \in [Senders -> Nat]
      /\ ends \in [Senders -> SUBSET Nat] /\ chute \in [Senders -> Chutes]
      /\ chutes \in [Chutes -> Seq(Value)] /\ buffer \in Seq(Value)
      /\ last \in Senders \cup {Nobody} /\ count \in [Senders -> Nat]
  BY DEF TypeOK, TypeHistory, TypeSender, TypeShared, TypeReceiver
<1>2. PICK c0 \in Chutes : c0 = chute[s] BY <1>1
<1>3. PICK k \in Nat : k = count[s] BY <1>1
<1>4. PICK q \in Seq(Value) : q = chutes[c0] BY <1>1
<1>5. PICK r \in Seq(Value) :
         /\ chutes' = [chutes EXCEPT ![c0] = r]
         /\ Len(r) = Len(q) + k
         /\ \A i \in 1 .. Len(q) : r[i] = q[i]
         /\ \A i \in 1 .. k : r[Len(q) + i].from = s /\ r[Len(q) + i].seq = sent[s] + i
  <2>1. PICK b \in Seq(Value) :
           /\ b = Batch(s) /\ Len(b) = k
           /\ \A i \in 1 .. k : b[i].from = s /\ b[i].seq = sent[s] + i
    BY <1>3, BatchType
  <2>2. chutes' = [chutes EXCEPT ![c0] = q \o b] BY <1>2, <1>4, <2>1 DEF Commit
  <2>3. PICK r \in Seq(Value) :
           /\ r = q \o b
           /\ Len(r) = Len(q) + Len(b)
           /\ \A i \in 1 .. Len(q) : r[i] = q[i]
           /\ \A i \in 1 .. Len(b) : r[Len(q) + i] = b[i]
    BY Concatenated
  <2>4. \A i \in 1 .. k : r[Len(q) + i].from = s /\ r[Len(q) + i].seq = sent[s] + i
    BY <2>1, <2>3
  <2> QED BY <2>1, <2>2, <2>3, <2>4
<1>6. /\ UNCHANGED <<chute, count, buffer, got, last, rpc>>
      /\ sent' = [sent EXCEPT ![s] = sent[s] + k]
      /\ ends' = [ends EXCEPT ![s] = ends[s] \cup {sent[s] + k}]
  BY <1>3 DEF Commit, receiverVars
<1>7. /\ sent' \in [Senders -> Nat] /\ sent'[s] = sent[s] + k
      /\ \A t \in Senders : t # s => sent'[t] = sent[t]
      /\ \A t \in Senders : sent[t] <= sent'[t]
  <2>1. sent[s] \in Nat /\ sent[s] + k \in Nat /\ sent[s] <= sent[s] + k BY <1>1
  <2>2. sent' \in [Senders -> Nat] /\ sent'[s] = sent[s] + k BY <1>1, <1>6, <2>1
  <2>3. \A t \in Senders : t # s => sent'[t] = sent[t] BY <1>1, <1>6
  <2>4. \A t \in Senders : sent[t] <= sent[t] BY <1>1
  <2> QED BY <2>1, <2>2, <2>3, <2>4
<1>8. /\ ends' \in [Senders -> SUBSET Nat] /\ sent[s] + k \in ends'[s]
      /\ \A t \in Senders : ends[t] \subseteq ends'[t]
  BY <1>1, <1>6
<1>17. chutes'[c0] = r /\ \A c \in Chutes : c # c0 => chutes'[c] = chutes[c]
  BY <1>1, <1>5
<1>18. got[s] <= sent[s] BY DEF FifoInv, NothingMissing
<1>19. Len(q) \in Nat /\ \A i \in 1 .. Len(q) : q[i].from \in Senders /\ q[i].seq \in Nat
  BY ValueQueue
<1>20. \A i \in 1 .. Len(r) : i \in 1 .. Len(q) \/ (i - Len(q) \in 1 .. k /\ i = Len(q) + (i - Len(q)))
  BY <1>5, <1>19
<1>21. \A i \in 1 .. Len(q) : i \in 1 .. Len(r)
  BY <1>5, <1>19
<1>9. BufferEmptyWhileScanning' BY <1>6 DEF FifoInv, BufferEmptyWhileScanning
<1>10. UnbornSentNothing' /\ CountFromCall'
  BY <1>6, <1>7 DEF FifoInv, UnbornSentNothing, CountFromCall, Commit, TypeOK, TypeSender
<1>11. Queued(buffer, got, sent, ends)'
  <2>1. Queued(buffer, got, sent', ends')
    BY <1>1, <1>7, <1>8, QueuedGrows DEF FifoInv
  <2> QED BY <1>6, <2>1 DEF Queued, Pending, Ordered, Whole
<1>12. ChutesQueued'
  <2> SUFFICES ASSUME NEW c \in Chutes PROVE Queued(chutes'[c], got', sent', ends')
    BY DEF ChutesQueued, Queued, Pending, Ordered, Whole
  <2>1. Queued(chutes[c], got, sent, ends) /\ Queued(q, got, sent, ends)
    BY <1>4 DEF FifoInv, ChutesQueued
  <2>2. CASE c = c0
    <3>1. Extends(q, r, s, k, got, sent, sent', ends, ends')
      BY <1>5, <1>7, <1>8, <1>18 DEF Extends
    <3>2. Queued(r, got, sent', ends') BY <1>1, <1>7, <1>8, <2>1, <3>1, QueuedExtended
    <3> QED BY <1>6, <1>17, <2>2, <3>2
  <2>3. CASE c # c0
    <3>1. Queued(chutes[c], got, sent', ends') BY <1>1, <1>7, <1>8, <2>1, QueuedGrows
    <3> QED BY <1>6, <1>17, <2>3, <3>1
  <2> QED BY <2>2, <2>3
<1>13. InOwnChute'
  <2> SUFFICES ASSUME NEW c \in Chutes, NEW i \in 1 .. Len(chutes'[c])
               PROVE  chute[chutes'[c][i].from] = c
    BY <1>6 DEF InOwnChute
  <2>1. CASE c = c0 /\ i \in 1 .. Len(q)
    <3>1. chutes'[c][i] = chutes[c0][i] BY <1>4, <1>5, <1>17, <2>1
    <3> QED BY <1>4, <2>1, <3>1 DEF FifoInv, InOwnChute
  <2>2. CASE c = c0 /\ i - Len(q) \in 1 .. k /\ i = Len(q) + (i - Len(q))
    <3>1. r[Len(q) + (i - Len(q))].from = s BY <1>5, <2>2
    <3>2. chutes'[c][i].from = s BY <1>17, <2>2, <3>1
    <3> QED BY <1>2, <2>2, <3>2
  <2>3. CASE c # c0 BY <1>17, <2>3 DEF FifoInv, InOwnChute
  <2> QED BY <1>17, <1>20, <2>1, <2>2, <2>3
<1>14. BufferFirst'
  <2> SUFFICES ASSUME NEW c \in Chutes, NEW i \in 1 .. Len(buffer), NEW j \in 1 .. Len(chutes'[c]),
                      buffer[i].from = chutes'[c][j].from
               PROVE  buffer[i].seq < chutes'[c][j].seq
    BY <1>6 DEF BufferFirst
  <2>1. CASE c = c0 /\ j \in 1 .. Len(q)
    <3>1. chutes'[c][j] = chutes[c0][j] BY <1>4, <1>5, <1>17, <2>1
    <3> QED BY <1>4, <2>1, <3>1 DEF FifoInv, BufferFirst
  <2>2. CASE c = c0 /\ j - Len(q) \in 1 .. k /\ j = Len(q) + (j - Len(q))
    <3>1. chutes'[c][j].from = s /\ chutes'[c][j].seq = sent[s] + (j - Len(q))
      BY <1>5, <1>17, <2>2
    <3>2. buffer[i].seq <= sent[s] BY <3>1 DEF FifoInv, Queued, Pending
    <3>3. buffer[i].seq \in Nat /\ sent[s] \in Nat BY <1>1, ValueQueue
    <3> QED BY <2>2, <3>1, <3>2, <3>3
  <2>3. CASE c # c0 BY <1>17, <2>3 DEF FifoInv, BufferFirst
  <2> QED BY <1>17, <1>20, <2>1, <2>2, <2>3
<1>15. NothingMissing'
  <2> SUFFICES ASSUME NEW t \in Senders
               PROVE  /\ got'[t] <= sent'[t]
                      /\ \A n \in got'[t] + 1 .. sent'[t] :
                            Contains(buffer', t, n) \/ Contains(chutes'[chute'[t]], t, n)
    BY DEF NothingMissing, Contains
  <2>1. got[t] <= sent[t] /\ got[t] \in Nat /\ sent[t] \in Nat /\ sent'[t] \in Nat
    BY <1>1, <1>7 DEF FifoInv, NothingMissing
  <2>2. got[t] <= sent'[t] BY <1>7, <2>1
  <2>3. ASSUME NEW n \in got[t] + 1 .. sent'[t]
        PROVE  Contains(buffer, t, n) \/ Contains(chutes'[chute[t]], t, n)
    <3>1. CASE n <= sent[t]
      <4>1. n \in got[t] + 1 .. sent[t] BY <2>1, <3>1
      <4>2. CASE Contains(buffer, t, n) BY <4>2
      <4>3. CASE Contains(chutes[chute[t]], t, n)
        <5>1. CASE chute[t] = c0
          <6>1. PICK i \in 1 .. Len(q) : q[i].from = t /\ q[i].seq = n
            BY <1>4, <4>3, <5>1 DEF Contains
          <6>2. r[i].from = t /\ r[i].seq = n /\ i \in 1 .. Len(r) BY <1>5, <1>21, <6>1
          <6> QED BY <1>17, <5>1, <6>2 DEF Contains
        <5>2. CASE chute[t] # c0
          <6>1. chute[t] \in Chutes BY <1>1
          <6> QED BY <1>17, <4>3, <5>2, <6>1
        <5> QED BY <5>1, <5>2
      <4> QED BY <4>1, <4>2, <4>3 DEF FifoInv, NothingMissing
    <3>2. CASE n > sent[t]
      <4>1. t = s BY <1>7, <2>1, <3>2
      <4>2. n - sent[s] \in 1 .. k /\ n = sent[s] + (n - sent[s])
        BY <1>7, <2>1, <3>2, <4>1
      <4>3. r[Len(q) + (n - sent[s])].from = s /\ r[Len(q) + (n - sent[s])].seq = n
        BY <1>5, <4>2
      <4>4. Len(q) + (n - sent[s]) \in 1 .. Len(r) BY <1>5, <1>19, <4>2
      <4> QED BY <1>2, <1>17, <4>1, <4>3, <4>4 DEF Contains
    <3> QED BY <2>1, <3>1, <3>2
  <2> QED BY <1>6, <2>2, <2>3
<1>16. BatchGoesOn'
  BY <1>1, <1>6, <1>8 DEF FifoInv, BatchGoesOn
<1> QED BY <1>9, <1>10, <1>11, <1>12, <1>13, <1>14, <1>15, <1>16 DEF FifoInv

(* Swapping the dirty chute with the empty buffer keeps FifoInv. *)
LEMMA SwapFifo ==
    ASSUME TypeOK, FifoInv, Swap
    PROVE  FifoInv'
<1>1. /\ chute \in [Senders -> Chutes]
      /\ chutes \in [Chutes -> Seq(Value)] /\ buffer = <<>>
  BY DEF TypeOK, TypeSender, TypeShared, FifoInv, BufferEmptyWhileScanning, Swap
<1>2. PICK c0 \in Chutes : c0 = Scanned
  BY ScannedType DEF Swap, TypeOK, TypeReceiver
<1>3. /\ buffer' = chutes[c0] /\ chutes' = [chutes EXCEPT ![c0] = <<>>]
      /\ rpc' = "take" /\ UNCHANGED <<chute, pc, count, sent, got, ends, last>>
  BY <1>2 DEF Swap, senderVars, history
<1>4. chutes'[c0] = <<>> /\ Len(chutes'[c0]) = 0
  BY <1>1, <1>3
<1>5. \A c \in Chutes : c # c0 => chutes'[c] = chutes[c]
  BY <1>1, <1>3
<1>6. BufferEmptyWhileScanning' BY <1>3 DEF BufferEmptyWhileScanning
<1>7. UnbornSentNothing' /\ CountFromCall'
  BY <1>3 DEF FifoInv, UnbornSentNothing, CountFromCall
<1>8. Queued(buffer, got, sent, ends)'
  <2>1. Queued(chutes[c0], got, sent, ends) BY DEF FifoInv, ChutesQueued
  <2> QED BY <1>3, <2>1 DEF Queued, Pending, Ordered, Whole
<1>9. ChutesQueued'
  <2> SUFFICES ASSUME NEW c \in Chutes PROVE Queued(chutes'[c], got, sent, ends)
    BY <1>3 DEF ChutesQueued, Queued, Pending, Ordered, Whole
  <2>1. CASE c = c0 BY <1>4, <2>1 DEF Queued, Pending, Ordered, Whole
  <2>2. CASE c # c0 BY <1>5, <2>2 DEF FifoInv, ChutesQueued
  <2> QED BY <2>1, <2>2
<1>10. InOwnChute'
  <2> SUFFICES ASSUME NEW c \in Chutes, NEW i \in 1 .. Len(chutes'[c])
               PROVE  chute[chutes'[c][i].from] = c
    BY <1>3 DEF InOwnChute
  <2>1. c # c0 BY <1>4
  <2> QED BY <1>5, <2>1 DEF FifoInv, InOwnChute
<1>11. BufferFirst'
  <2> SUFFICES ASSUME NEW c \in Chutes, NEW i \in 1 .. Len(chutes[c0]),
                      NEW j \in 1 .. Len(chutes'[c]),
                      chutes[c0][i].from = chutes'[c][j].from
               PROVE  FALSE
    BY <1>3 DEF BufferFirst
  <2>1. c # c0 BY <1>4
  <2>2. chute[chutes[c0][i].from] = c0 BY DEF FifoInv, InOwnChute
  <2>3. chute[chutes[c][j].from] = c BY <1>5, <2>1 DEF FifoInv, InOwnChute
  <2> QED BY <1>5, <2>1, <2>2, <2>3
<1>12. NothingMissing'
  <2> SUFFICES ASSUME NEW t \in Senders
               PROVE  /\ got'[t] <= sent'[t]
                      /\ \A n \in got'[t] + 1 .. sent'[t] :
                            Contains(buffer', t, n) \/ Contains(chutes'[chute'[t]], t, n)
    BY DEF NothingMissing, Contains
  <2>1. ASSUME NEW n \in got[t] + 1 .. sent[t]
        PROVE  Contains(chutes[c0], t, n) \/ Contains(chutes'[chute[t]], t, n)
    <3>1. ~Contains(buffer, t, n) BY <1>1 DEF Contains
    <3>2. Contains(chutes[chute[t]], t, n) BY <3>1 DEF FifoInv, NothingMissing
    <3>3. chute[t] \in Chutes BY <1>1
    <3> QED BY <1>5, <3>2, <3>3
  <2>2. got[t] <= sent[t] BY DEF FifoInv, NothingMissing
  <2> QED BY <1>3, <2>1, <2>2
<1>13. BatchGoesOn'
  <2>1. last # Nobody => got[last] \in ends[last] BY <1>1 DEF FifoInv, BatchGoesOn
  <2> QED BY <1>3, <2>1 DEF BatchGoesOn
<1> QED BY <1>6, <1>7, <1>8, <1>9, <1>10, <1>11, <1>12, <1>13 DEF FifoInv

(* The first value of the buffer is the one its sender sent after the last received one. *)
LEMMA HeadIsNext ==
    ASSUME TypeOK, FifoInv, Len(buffer) > 0
    PROVE  /\ buffer[1].from \in Senders
           /\ buffer[1].seq = got[buffer[1].from] + 1
           /\ buffer[1].seq <= sent[buffer[1].from]
<1>1. /\ buffer \in Seq(Value) /\ chutes \in [Chutes -> Seq(Value)]
      /\ sent \in [Senders -> Nat] /\ got \in [Senders -> Nat] /\ chute \in [Senders -> Chutes]
  BY DEF TypeOK, TypeReceiver, TypeShared, TypeHistory, TypeSender
<1>2. Len(buffer) \in Nat /\ 1 \in 1 .. Len(buffer)
      /\ \A i \in 1 .. Len(buffer) : buffer[i].from \in Senders /\ buffer[i].seq \in Nat
  BY <1>1, ValueQueue
<1>3. PICK s \in Senders : s = buffer[1].from BY <1>2
<1>4. PICK m \in Nat : m = buffer[1].seq BY <1>2
<1>5. got[s] < m /\ m <= sent[s] BY <1>2, <1>3, <1>4 DEF FifoInv, Queued, Pending
<1>6. got[s] \in Nat /\ sent[s] \in Nat BY <1>1
<1>7. got[s] + 1 \in got[s] + 1 .. sent[s] BY <1>5, <1>6
<1>8. m <= got[s] + 1
  <2>1. CASE Contains(buffer, s, got[s] + 1)
    <3>1. PICK i \in 1 .. Len(buffer) : buffer[i].from = s /\ buffer[i].seq = got[s] + 1
      BY <2>1 DEF Contains
    <3>2. CASE i = 1 BY <1>4, <1>6, <3>1, <3>2
    <3>3. CASE 1 < i
      <4>1. buffer[1].seq < buffer[i].seq
        BY <1>2, <1>3, <3>1, <3>3 DEF FifoInv, Queued, Ordered
      <4> QED BY <1>4, <1>6, <3>1, <4>1
    <3> QED BY <1>2, <3>2, <3>3
  <2>2. CASE Contains(chutes[chute[s]], s, got[s] + 1)
    <3>1. PICK j \in 1 .. Len(chutes[chute[s]]) :
             chutes[chute[s]][j].from = s /\ chutes[chute[s]][j].seq = got[s] + 1
      BY <2>2 DEF Contains
    <3>2. chute[s] \in Chutes BY <1>1
    <3>3. buffer[1].seq < chutes[chute[s]][j].seq
      BY <1>2, <1>3, <3>1, <3>2 DEF FifoInv, BufferFirst
    <3> QED BY <1>4, <1>6, <3>1, <3>3
  <2> QED BY <1>7, <2>1, <2>2 DEF FifoInv, NothingMissing
<1> QED BY <1>3, <1>4, <1>5, <1>6, <1>8

(* Handing the first value of the buffer to the caller keeps FifoInv. *)
LEMMA DeliverFifo ==
    ASSUME TypeOK, FifoInv, buffer # <<>>, Deliver,
           BufferEmptyWhileScanning', UNCHANGED <<chutes, chute, pc, count>>
    PROVE  FifoInv'
<1>1. /\ buffer \in Seq(Value) /\ chutes \in [Chutes -> Seq(Value)]
      /\ sent \in [Senders -> Nat] /\ got \in [Senders -> Nat]
      /\ ends \in [Senders -> SUBSET Nat] /\ chute \in [Senders -> Chutes]
  BY DEF TypeOK, TypeReceiver, TypeShared, TypeHistory, TypeSender
<1>2. /\ Len(buffer) \in Nat /\ Len(buffer) > 0 /\ 1 \in 1 .. Len(buffer)
      /\ \A i \in 1 .. Len(buffer) : buffer[i].from \in Senders /\ buffer[i].seq \in Nat
  <2>1. Len(buffer) \in Nat /\ Len(buffer) # 0 BY <1>1, EmptySeq, LenProperties
  <2> QED BY <1>1, <2>1, ValueQueue
<1>3. PICK s \in Senders : s = buffer[1].from BY <1>2
<1>4. PICK m \in Nat : m = buffer[1].seq BY <1>2
<1>5. PICK r \in Seq(Value) :
         /\ r = Tail(buffer) /\ Len(r) = Len(buffer) - 1
         /\ \A i \in 1 .. Len(r) : r[i] = buffer[i + 1]
  BY <1>1, HeadTailProperties
<1>6. /\ buffer' = r /\ got' = [got EXCEPT ![s] = m] /\ last' = s
      /\ UNCHANGED <<sent, ends, chutes, chute, pc, count>>
  <2>1. Head(buffer) = buffer[1] BY <1>1, <1>2
  <2> QED BY <1>3, <1>4, <1>5, <2>1 DEF Deliver
<1>7. /\ got' \in [Senders -> Nat] /\ got'[s] = m
      /\ \A t \in Senders : t # s => got'[t] = got[t]
  BY <1>1, <1>6
<1>8. \A i \in 1 .. Len(r) : i + 1 \in 1 .. Len(buffer) BY <1>2, <1>5
<1>9. \A i \in 1 .. Len(buffer) : i # 1 =>
         i - 1 \in 1 .. Len(r) /\ r[i - 1] = buffer[i]
  <2> SUFFICES ASSUME NEW i \in 1 .. Len(buffer), i # 1
               PROVE  i - 1 \in 1 .. Len(r) /\ r[i - 1] = buffer[i]
    OBVIOUS
  <2>1. i - 1 \in 1 .. Len(r) /\ (i - 1) + 1 = i BY <1>2, <1>5
  <2> QED BY <1>5, <2>1
<1>10. UnbornSentNothing' /\ CountFromCall'
  BY <1>6 DEF FifoInv, UnbornSentNothing, CountFromCall
<1>11. Queued(buffer, got, sent, ends)'
  <2>1. Queued(buffer, got, sent, ends) BY DEF FifoInv
  <2>2. Popped(buffer, r, got, got') BY <1>2, <1>3, <1>4, <1>5, <1>7 DEF Popped
  <2>3. Queued(r, got', sent, ends) BY <1>1, <1>7, <2>1, <2>2, QueuedPopped
  <2> QED BY <1>6, <2>3 DEF Queued, Pending, Ordered, Whole
<1>12. ChutesQueued'
  <2> SUFFICES ASSUME NEW c \in Chutes PROVE Queued(chutes[c], got', sent, ends)
    BY <1>6 DEF ChutesQueued, Queued, Pending, Ordered, Whole
  <2>1. Queued(chutes[c], got, sent, ends) BY DEF FifoInv, ChutesQueued
  <2>2. \A i \in 1 .. Len(chutes[c]) : chutes[c][i].from \in Senders
    BY <1>1, ValueQueue
  <2>3. \A i \in 1 .. Len(chutes[c]) : chutes[c][i].from = s => m < chutes[c][i].seq
    BY <1>2, <1>3, <1>4 DEF FifoInv, BufferFirst
  <2>4. Pending(chutes[c], got', sent)
    BY <1>7, <2>1, <2>2, <2>3 DEF Queued, Pending
  <2> QED BY <2>1, <2>4 DEF Queued
<1>13. InOwnChute' BY <1>6 DEF FifoInv, InOwnChute
<1>14. BufferFirst'
  <2> SUFFICES ASSUME NEW c \in Chutes, NEW i \in 1 .. Len(r), NEW j \in 1 .. Len(chutes[c]),
                      r[i].from = chutes[c][j].from
               PROVE  r[i].seq < chutes[c][j].seq
    BY <1>6 DEF BufferFirst
  <2> QED BY <1>5, <1>8 DEF FifoInv, BufferFirst
<1>15. NothingMissing'
  <2> SUFFICES ASSUME NEW t \in Senders
               PROVE  /\ got'[t] <= sent'[t]
                      /\ \A n \in got'[t] + 1 .. sent'[t] :
                            Contains(buffer', t, n) \/ Contains(chutes'[chute'[t]], t, n)
    BY DEF NothingMissing, Contains
  <2>1. got[t] <= sent[t] /\ got[t] \in Nat /\ sent[t] \in Nat /\ got'[t] \in Nat
    BY <1>1, <1>7 DEF FifoInv, NothingMissing
  <2>2. got[s] < m /\ m <= sent[s]
    BY <1>2, <1>3, <1>4 DEF FifoInv, Queued, Pending
  <2>3. got[t] <= got'[t] /\ got'[t] <= sent[t]
    BY <1>7, <2>1, <2>2
  <2>4. ASSUME NEW n \in got'[t] + 1 .. sent[t]
        PROVE  Contains(r, t, n) \/ Contains(chutes[chute[t]], t, n)
    <3>1. n \in got[t] + 1 .. sent[t] BY <2>1, <2>3
    <3>2. CASE Contains(buffer, t, n)
      <4>1. PICK i \in 1 .. Len(buffer) : buffer[i].from = t /\ buffer[i].seq = n
        BY <3>2 DEF Contains
      <4>2. i # 1 BY <1>3, <1>4, <1>7, <4>1
      <4>3. i - 1 \in 1 .. Len(r) /\ r[i - 1] = buffer[i] BY <1>9, <4>2
      <4> QED BY <4>1, <4>3 DEF Contains
    <3> QED BY <3>1, <3>2 DEF FifoInv, NothingMissing
  <2> QED BY <1>6, <2>3, <2>4
<1>16. BatchGoesOn'
  <2>1. Whole(buffer, ends) BY DEF FifoInv, Queued
  <2>2. CASE Len(r) > 0
    <3>1. 1 \in 1 .. Len(r) /\ 1 \in 1 .. Len(buffer) - 1 BY <1>2, <1>5, <2>2
    <3>2. r[1] = buffer[1 + 1] BY <1>5, <3>1
    <3>3. buffer[1].from # r[1].from => m \in ends[s]
      BY <1>3, <1>4, <2>1, <3>1, <3>2 DEF Whole
    <3> QED BY <1>3, <1>6, <1>7, <2>2, <3>3 DEF BatchGoesOn
  <2>3. CASE ~(Len(r) > 0)
    <3>1. Len(buffer) = 1 BY <1>2, <1>5, <2>3
    <3>2. m \in ends[s] BY <1>3, <1>4, <2>1, <3>1 DEF Whole
    <3> QED BY <1>6, <1>7, <3>2 DEF BatchGoesOn
  <2> QED BY <2>2, <2>3
<1> QED BY <1>10, <1>11, <1>12, <1>13, <1>14, <1>15, <1>16 DEF FifoInv

(* A new handle has sent nothing, so its choice of a chute moves no value. *)
LEMMA CloneFifo ==
    ASSUME TypeOK, FifoInv, NEW s \in Senders, NEW t \in Senders, Clone(s, t)
    PROVE  FifoInv'
<1>1. /\ chute \in [Senders -> Chutes] /\ pc \in [Senders -> SenderSteps]
      /\ chutes \in [Chutes -> Seq(Value)]
      /\ sent \in [Senders -> Nat] /\ got \in [Senders -> Nat]
  BY DEF TypeOK, TypeSender, TypeShared, TypeHistory
<1>2. /\ chute' = [chute EXCEPT ![t] = chute_clock] /\ pc' = [pc EXCEPT ![t] = "idle"]
      /\ UNCHANGED <<chutes, buffer, rpc, count, sent, got, ends, last>>
  BY DEF Clone, receiverVars, history
<1>3. sent[t] = 0 BY DEF FifoInv, UnbornSentNothing, Clone
<1>4. BufferEmptyWhileScanning' BY <1>2 DEF FifoInv, BufferEmptyWhileScanning
<1>5. UnbornSentNothing' /\ CountFromCall'
  BY <1>1, <1>2 DEF FifoInv, UnbornSentNothing, CountFromCall
<1>6. Queued(buffer, got, sent, ends)' BY <1>2 DEF FifoInv, Queued, Pending, Ordered, Whole
<1>7. ChutesQueued' BY <1>2 DEF FifoInv, ChutesQueued, Queued, Pending, Ordered, Whole
<1>8. InOwnChute'
  <2> SUFFICES ASSUME NEW c \in Chutes, NEW i \in 1 .. Len(chutes[c])
               PROVE  chute'[chutes[c][i].from] = c
    BY <1>2 DEF InOwnChute
  <2>1. PICK f \in Senders : f = chutes[c][i].from BY <1>1, ValueQueue
  <2>2. got[f] < sent[f]
    <3>1. chutes[c][i].seq \in Nat BY <1>1, ValueQueue
    <3>2. got[f] < chutes[c][i].seq /\ chutes[c][i].seq <= sent[f]
      BY <2>1 DEF FifoInv, ChutesQueued, Queued, Pending
    <3>3. got[f] \in Nat /\ sent[f] \in Nat BY <1>1
    <3> QED BY <3>1, <3>2, <3>3
  <2>3. f # t BY <1>1, <1>3, <2>2
  <2> QED BY <1>1, <1>2, <2>1, <2>3 DEF FifoInv, InOwnChute
<1>9. BufferFirst' BY <1>2 DEF FifoInv, BufferFirst
<1>10. NothingMissing'
  <2> SUFFICES ASSUME NEW u \in Senders
               PROVE  /\ got'[u] <= sent'[u]
                      /\ \A n \in got'[u] + 1 .. sent'[u] :
                            Contains(buffer', u, n) \/ Contains(chutes'[chute'[u]], u, n)
    BY DEF NothingMissing, Contains
  <2>1. got[u] <= sent[u] /\ got[u] \in Nat BY <1>1 DEF FifoInv, NothingMissing
  <2>2. CASE u = t
    <3>1. \A n \in got[u] + 1 .. sent[u] : FALSE BY <1>3, <2>1, <2>2
    <3> QED BY <1>2, <2>1, <3>1
  <2>3. CASE u # t
    <3>1. chute'[u] = chute[u] BY <1>1, <1>2, <2>3
    <3> QED BY <1>2, <3>1 DEF FifoInv, NothingMissing
  <2> QED BY <2>2, <2>3
<1>11. BatchGoesOn' BY <1>2 DEF FifoInv, BatchGoesOn
<1> QED BY <1>4, <1>5, <1>6, <1>7, <1>8, <1>9, <1>10, <1>11 DEF FifoInv

(* FifoInv is inductive. *)
LEMMA FifoInvStep == TypeOK /\ FifoInv /\ [Next]_vars => FifoInv'
<1> SUFFICES ASSUME TypeOK, FifoInv, [Next]_vars PROVE FifoInv'
  OBVIOUS
<1>a. BufferEmptyWhileScanning /\ UnbornSentNothing /\ CountFromCall BY DEF FifoInv
<1>b. pc \in [Senders -> SenderSteps] /\ count \in [Senders -> Nat]
  BY DEF TypeOK, TypeSender
<1>1. ASSUME NEW s \in Senders, NEW t \in Senders, Clone(s, t) PROVE FifoInv'
  BY <1>1, CloneFifo
<1>2. ASSUME NEW s \in Senders, Commit(s) PROVE FifoInv'
  BY <1>2, CommitFifo
<1>3. ASSUME NEW s \in Senders, NEW k \in BatchSizes, BeginSend(s, k) PROVE FifoInv'
  <2>1. UNCHANGED <<chutes, chute, buffer, sent, got, ends, last, rpc>>
    BY <1>3 DEF BeginSend, receiverVars, history
  <2>2. BufferEmptyWhileScanning' BY <1>a, <2>1 DEF BufferEmptyWhileScanning
  <2>3. UnbornSentNothing' /\ CountFromCall'
    BY <1>3, <1>a, <1>b, <2>1 DEF BeginSend, UnbornSentNothing, CountFromCall
  <2> QED BY <2>1, <2>2, <2>3, FifoFrame
<1>4. ASSUME NEW s \in Senders,
             Rollback(s) \/ WakeForDirty(s) \/ DropSender(s) \/ WakeForLastDrop(s)
      PROVE  FifoInv'
  <2>1. UNCHANGED <<chutes, chute, buffer, sent, got, ends, last, rpc, count>>
    BY <1>4 DEF Rollback, WakeForDirty, DropSender, WakeForLastDrop, receiverVars, history
  <2>2. BufferEmptyWhileScanning' BY <1>a, <2>1 DEF BufferEmptyWhileScanning
  <2>3. \A u \in Senders : pc'[u] \in {pc[u], "idle", "wakedrop", "dropped"}
    BY <1>4, <1>b DEF Rollback, WakeForDirty, DropSender, WakeForLastDrop
  <2>4. UnbornSentNothing' /\ CountFromCall'
    BY <1>a, <2>1, <2>3 DEF UnbornSentNothing, CountFromCall
  <2> QED BY <2>1, <2>2, <2>4, FifoFrame
<1>5. ASSUME NEW m \in Modes, StartPoll(m) PROVE FifoInv'
  <2>1. UNCHANGED <<chutes, chute, buffer, sent, got, ends, last, pc, count>>
    BY <1>5 DEF StartPoll, sharedVars, senderVars, history
  <2>2. BufferEmptyWhileScanning' BY <1>5, <2>1 DEF StartPoll, BufferEmptyWhileScanning
  <2>3. UnbornSentNothing' /\ CountFromCall' BY <1>a, <2>1 DEF UnbornSentNothing, CountFromCall
  <2> QED BY <2>1, <2>2, <2>3, FifoFrame
<1>6. ASSUME FindDirty \/ FindClean \/ Register \/ CheckSenders \/ TakeForBatch \/ PutBack
             \/ DrainDrop \/ Wakeup \/ SpuriousPoll \/ DropReceiver \/ UNCHANGED vars
      PROVE  FifoInv'
  <2>1. UNCHANGED <<chutes, chute, buffer, sent, got, ends, last, pc, count>>
    BY <1>6 DEF FindDirty, FindClean, Register, CheckSenders, TakeForBatch, PutBack, DrainDrop,
                Wakeup, SpuriousPoll, TaskPolled, DropReceiver, vars, sharedVars, senderVars,
                receiverVars, history
  <2>2. BufferEmptyWhileScanning'
    BY <1>6, <1>a, <2>1
    DEF BufferEmptyWhileScanning, FindDirty, FindClean, AfterCleanScan, Register, CheckSenders,
        TakeForBatch, PutBack, DrainDrop, Wakeup, SpuriousPoll, TaskPolled, DropReceiver, vars,
        receiverVars
  <2>3. UnbornSentNothing' /\ CountFromCall' BY <1>a, <2>1 DEF UnbornSentNothing, CountFromCall
  <2> QED BY <2>1, <2>2, <2>3, FifoFrame
<1>7. ASSUME Swap PROVE FifoInv'
  BY <1>7, SwapFifo
<1>8. ASSUME TakeOne \/ DrainNext PROVE FifoInv'
  <2>1. buffer # <<>> /\ Deliver /\ UNCHANGED <<chutes, chute, pc, count>>
    BY <1>8 DEF TakeOne, DrainNext, sharedVars, senderVars
  <2>2. BufferEmptyWhileScanning' BY <1>8 DEF TakeOne, DrainNext, BufferEmptyWhileScanning
  <2> QED BY <2>1, <2>2, DeliverFifo
<1> QED
  BY <1>1, <1>2, <1>3, <1>4, <1>5, <1>6, <1>7, <1>8
  DEF Next, SenderStep, ReceiverStep, Finished

(* Where the values are and in which order, in every reachable state. *)
THEOREM FifoInvariant == Spec => []FifoInv
<1>1. Init => FifoInv
  <2> SUFFICES ASSUME Init PROVE FifoInv OBVIOUS
  <2>1. /\ buffer = <<>> /\ Len(buffer) = 0 /\ last = Nobody
        /\ sent = [s \in Senders |-> 0] /\ got = [s \in Senders |-> 0]
        /\ chutes = [c \in Chutes |-> <<>>]
        /\ pc = [s \in Senders |-> IF s = First THEN "idle" ELSE "unborn"]
    BY DEF Init
  <2>2. \A c \in Chutes : chutes[c] = <<>> /\ Len(chutes[c]) = 0 BY <2>1
  <2>3. Queued(buffer, got, sent, ends) BY <2>1 DEF Queued, Pending, Ordered, Whole
  <2>4. ChutesQueued BY <2>2 DEF ChutesQueued, Queued, Pending, Ordered, Whole
  <2>5. InOwnChute /\ BufferFirst BY <2>2 DEF InOwnChute, BufferFirst
  <2>6. NothingMissing BY <2>1 DEF NothingMissing
  <2>7. BufferEmptyWhileScanning /\ UnbornSentNothing /\ CountFromCall /\ BatchGoesOn
    BY <2>1 DEF BufferEmptyWhileScanning, UnbornSentNothing, CountFromCall, BatchGoesOn
  <2> QED BY <2>3, <2>4, <2>5, <2>6, <2>7 DEF FifoInv
<1> QED BY <1>1, FifoInvStep, TypeCorrect, PTL DEF Spec

-----------------------------------------------------------------------------
(* Every step of the channel is a step of SenderFifo or changes none of its variables. *)
LEMMA FifoSimulation == TypeOK /\ FifoInv /\ [Next]_vars => [Fifo!Next]_<<sent, got, ends, last>>
<1> SUFFICES ASSUME TypeOK, FifoInv, [Next]_vars,
                    ~ UNCHANGED <<sent, got, ends, last>>
             PROVE  Fifo!Next
  OBVIOUS
<1>1. ASSUME NEW s \in Senders, Commit(s) PROVE Fifo!Next
  <2>1. count[s] \in BatchSizes BY <1>1 DEF FifoInv, CountFromCall, Commit
  <2>2. Fifo!Send(s, count[s]) BY <1>1 DEF Commit, Fifo!Send
  <2> QED BY <2>1, <2>2 DEF Fifo!Next
<1>2. ASSUME TakeOne \/ DrainNext PROVE Fifo!Next
  <2>1. buffer # <<>> /\ Deliver BY <1>2 DEF TakeOne, DrainNext
  <2>2. buffer \in Seq(Value) /\ got \in [Senders -> Nat] /\ sent \in [Senders -> Nat]
        /\ last \in Senders \cup {Nobody}
    BY DEF TypeOK, TypeReceiver, TypeHistory
  <2>3. Len(buffer) \in Nat /\ Len(buffer) > 0 BY <2>1, <2>2, EmptySeq, LenProperties
  <2>4. Head(buffer) = buffer[1] BY <2>2, <2>3
  <2>5. PICK s \in Senders : s = buffer[1].from BY <2>3, HeadIsNext
  <2>6. buffer[1].seq = got[s] + 1 /\ buffer[1].seq <= sent[s] BY <2>3, <2>5, HeadIsNext
  <2>7. got' = [got EXCEPT ![s] = got[s] + 1] /\ last' = s /\ UNCHANGED <<sent, ends>>
    BY <2>1, <2>4, <2>5, <2>6 DEF Deliver
  <2>8. got[s] < sent[s] BY <2>2, <2>6
  <2>9. last \in {Nobody, s} \/ got[last] \in ends[last]
    BY <2>5 DEF FifoInv, BatchGoesOn
  <2>10. Fifo!Receive(s) BY <2>7, <2>8, <2>9 DEF Fifo!Receive
  <2> QED BY <2>10 DEF Fifo!Next
<1>3. ASSUME ~(TakeOne \/ DrainNext), \A s \in Senders : ~Commit(s)
      PROVE  UNCHANGED history
  BY <1>3
  DEF Next, SenderStep, ReceiverStep, Finished, Clone, BeginSend, Rollback, WakeForDirty,
      DropSender, WakeForLastDrop, StartPoll, FindDirty, FindClean, Register, CheckSenders, Swap,
      TakeForBatch, PutBack, DrainDrop, Wakeup, SpuriousPoll, TaskPolled, DropReceiver, vars
<1> QED BY <1>1, <1>2, <1>3 DEF history

(* Spillway implements SenderFifo (FifoSpec): for any senders, chutes, capacity, batch sizes     *)
(* and interleaving, every sender's values are received in order, none lost or duplicated among  *)
(* what is received, and a batch is received with nothing in between.                            *)
THEOREM ImplementsSenderFifo == Spec => FifoSpec
<1>1. Init => Fifo!Init BY DEF Init, Fifo!Init
<1> QED
  BY <1>1, FifoSimulation, TypeCorrect, FifoInvariant, PTL
  DEF Spec, FifoSpec, Fifo!Spec, Fifo!fifoVars

-----------------------------------------------------------------------------
(* Counting what is in flight. *)

(* The members of a region. *)
LEMMA RegionMembers ==
    ASSUME NEW lo, NEW hi, NEW x
    PROVE  x \in Region(lo, hi) <=> \E s \in Senders : \E n \in lo[s] + 1 .. hi[s] : x = <<s, n>>
BY DEF Region

(* The positions of one sender. *)
Block(s, a, b) == {<<s, n>> : n \in a + 1 .. b}

(* The size of a stretch of one sender's positions. *)
LEMMA BlockSize ==
    ASSUME NEW s, NEW a \in Nat, NEW k \in Nat
    PROVE  IsFiniteSet(Block(s, a, a + k)) /\ Cardinality(Block(s, a, a + k)) = k
<1>1. IsFiniteSet(a + 1 .. a + k) /\ Cardinality(a + 1 .. a + k) = k
  <2>1. a + 1 \in Int /\ a + k \in Int OBVIOUS
  <2>2. /\ IsFiniteSet(a + 1 .. a + k)
        /\ Cardinality(a + 1 .. a + k) = IF a + 1 > a + k THEN 0 ELSE (a + k) - (a + 1) + 1
    BY <2>1, FS_Interval
  <2>3. (IF a + 1 > a + k THEN 0 ELSE (a + k) - (a + 1) + 1) = k OBVIOUS
  <2> QED BY <2>2, <2>3
<1> DEFINE f == [n \in a + 1 .. a + k |-> <<s, n>>]
<1>2. f \in Bijection(a + 1 .. a + k, Block(s, a, a + k))
  <2>1. f \in [a + 1 .. a + k -> Block(s, a, a + k)] BY DEF Block
  <2>2. \A m, n \in a + 1 .. a + k : f[m] = f[n] => m = n OBVIOUS
  <2>3. \A x \in Block(s, a, a + k) : \E n \in a + 1 .. a + k : f[n] = x BY DEF Block
  <2> QED BY <2>1, <2>2, <2>3 DEF Bijection, Injection, Surjection, IsInjective
<1>3. ExistsBijection(a + 1 .. a + k, Block(s, a, a + k)) BY <1>2 DEF ExistsBijection
<1> QED BY <1>1, <1>3, FS_Bijection

(* Each sender's positions end at or after where they begin. *)
Spans(lo, hi) == lo \in [Senders -> Nat] /\ hi \in [Senders -> Nat] /\ \A s \in Senders : lo[s] <= hi[s]

(* A sender's region grows by k. *)
LEMMA RegionGrows ==
    ASSUME NEW lo, NEW hi, NEW hj, NEW s \in Senders, NEW k \in Nat, Spans(lo, hi),
           hj[s] = hi[s] + k, \A t \in Senders : t # s => hj[t] = hi[t], IsFiniteSet(Region(lo, hi))
    PROVE  /\ IsFiniteSet(Region(lo, hj))
           /\ Cardinality(Region(lo, hj)) = Cardinality(Region(lo, hi)) + k
<1>1. /\ lo \in [Senders -> Nat] /\ hi \in [Senders -> Nat] /\ \A t \in Senders : lo[t] <= hi[t]
      /\ \A t \in Senders : hj[t] = IF t = s THEN hi[s] + k ELSE hi[t]
  BY DEF Spans
<1>2. PICK a \in Nat : a = hi[s] BY <1>1
<1>3. Region(lo, hj) = Region(lo, hi) \cup Block(s, a, a + k)
  <2>1. ASSUME NEW x PROVE x \in Region(lo, hj) <=> x \in Region(lo, hi) \/ x \in Block(s, a, a + k)
    <3>1. ASSUME NEW t \in Senders, NEW n \in lo[t] + 1 .. hj[t], x = <<t, n>>
          PROVE  x \in Region(lo, hi) \/ x \in Block(s, a, a + k)
      <4>1. CASE t # s
        <5>1. n \in lo[t] + 1 .. hi[t] BY <1>1, <4>1
        <5> QED BY <3>1, <5>1, RegionMembers
      <4>2. CASE t = s /\ n <= a
        <5>1. n \in lo[t] + 1 .. hi[t] BY <1>1, <1>2, <4>2
        <5> QED BY <3>1, <5>1, RegionMembers
      <4>3. CASE t = s /\ n > a
        <5>1. n \in a + 1 .. a + k BY <1>1, <1>2, <4>3
        <5> QED BY <3>1, <4>3, <5>1 DEF Block
      <4>4. n \in Int /\ a \in Int BY <1>1
      <4> QED BY <4>1, <4>2, <4>3, <4>4
    <3>2. ASSUME NEW t \in Senders, NEW n \in lo[t] + 1 .. hi[t], x = <<t, n>> PROVE x \in Region(lo, hj)
      <4>1. n \in lo[t] + 1 .. hj[t] BY <1>1
      <4> QED BY <3>2, <4>1, RegionMembers
    <3>3. ASSUME NEW n \in a + 1 .. a + k, x = <<s, n>> PROVE x \in Region(lo, hj)
      <4>1. n \in lo[s] + 1 .. hj[s] BY <1>1, <1>2
      <4> QED BY <3>3, <4>1, RegionMembers
    <3>4. x \in Region(lo, hj) => x \in Region(lo, hi) \/ x \in Block(s, a, a + k) BY <3>1, RegionMembers
    <3>5. x \in Region(lo, hi) => x \in Region(lo, hj) BY <3>2, RegionMembers
    <3>6. x \in Block(s, a, a + k) => x \in Region(lo, hj) BY <3>3 DEF Block
    <3> QED BY <3>4, <3>5, <3>6
  <2> QED BY <2>1
<1>4. Region(lo, hi) \cap Block(s, a, a + k) = {}
  <2>1. ASSUME NEW x, x \in Region(lo, hi), x \in Block(s, a, a + k) PROVE FALSE
    <3>1. PICK t \in Senders : \E n \in lo[t] + 1 .. hi[t] : x = <<t, n>> BY <2>1, RegionMembers
    <3>2. PICK n \in lo[t] + 1 .. hi[t] : x = <<t, n>> BY <3>1
    <3>3. PICK m \in a + 1 .. a + k : x = <<s, m>> BY <2>1 DEF Block
    <3>4. t = s /\ n = m BY <3>2, <3>3
    <3> QED BY <1>1, <1>2, <3>4
  <2> QED BY <2>1
<1>5. IsFiniteSet(Block(s, a, a + k)) /\ Cardinality(Block(s, a, a + k)) = k BY BlockSize
<1>6. /\ IsFiniteSet(Region(lo, hi) \cup Block(s, a, a + k))
      /\ Cardinality(Region(lo, hi) \cup Block(s, a, a + k))
            = Cardinality(Region(lo, hi)) + Cardinality(Block(s, a, a + k))
              - Cardinality(Region(lo, hi) \cap Block(s, a, a + k))
  BY <1>5, FS_Union
<1>7. Cardinality({}) = 0 /\ Cardinality(Region(lo, hi)) \in Nat BY FS_EmptySet, FS_CardinalityType
<1>8. Cardinality(Region(lo, hi) \cap Block(s, a, a + k)) = 0 BY <1>4, <1>7
<1>9. Cardinality(Region(lo, hi) \cup Block(s, a, a + k)) = Cardinality(Region(lo, hi)) + k
  <2>1. PICK n \in Nat : n = Cardinality(Region(lo, hi)) BY <1>7
  <2> QED BY <1>5, <1>6, <1>8, <2>1
<1> QED BY <1>3, <1>6, <1>9

(* A sender's region loses its first position. *)
LEMMA RegionPops ==
    ASSUME NEW lo, NEW hi, NEW ln, NEW s \in Senders, Spans(lo, hi), lo[s] < hi[s],
           ln[s] = lo[s] + 1, \A t \in Senders : t # s => ln[t] = lo[t], IsFiniteSet(Region(lo, hi))
    PROVE  /\ IsFiniteSet(Region(ln, hi))
           /\ Cardinality(Region(ln, hi)) = Cardinality(Region(lo, hi)) - 1
<1>1. /\ lo \in [Senders -> Nat] /\ hi \in [Senders -> Nat] /\ \A t \in Senders : lo[t] <= hi[t]
      /\ \A t \in Senders : ln[t] = IF t = s THEN lo[s] + 1 ELSE lo[t]
  BY DEF Spans
<1>2. PICK a \in Nat : a = lo[s] BY <1>1
<1>3. <<s, a + 1>> \in Region(lo, hi)
  <2>1. a + 1 \in lo[s] + 1 .. hi[s] BY <1>1, <1>2
  <2> QED BY <2>1, RegionMembers
<1>4. Region(ln, hi) = Region(lo, hi) \ {<<s, a + 1>>}
  <2>1. ASSUME NEW x, x \in Region(ln, hi) PROVE x \in Region(lo, hi) /\ x # <<s, a + 1>>
    <3>1. PICK t \in Senders : \E n \in ln[t] + 1 .. hi[t] : x = <<t, n>> BY <2>1, RegionMembers
    <3>2. PICK n \in ln[t] + 1 .. hi[t] : x = <<t, n>> BY <3>1
    <3>3. n \in lo[t] + 1 .. hi[t] /\ ~(t = s /\ n = a + 1) BY <1>1, <1>2
    <3>4. x # <<s, a + 1>> BY <3>2, <3>3
    <3> QED BY <3>2, <3>3, <3>4, RegionMembers
  <2>2. ASSUME NEW x, x \in Region(lo, hi), x # <<s, a + 1>> PROVE x \in Region(ln, hi)
    <3>1. PICK t \in Senders : \E n \in lo[t] + 1 .. hi[t] : x = <<t, n>> BY <2>2, RegionMembers
    <3>2. PICK n \in lo[t] + 1 .. hi[t] : x = <<t, n>> BY <3>1
    <3>3. ~(t = s /\ n = a + 1) BY <2>2, <3>2
    <3>4. n \in ln[t] + 1 .. hi[t] BY <1>1, <1>2, <3>3
    <3> QED BY <3>2, <3>4, RegionMembers
  <2> QED BY <2>1, <2>2
<1> QED BY <1>3, <1>4, FS_RemoveElement

(* One region is part of another. *)
LEMMA RegionWithin ==
    ASSUME NEW lo, NEW hi, NEW ln, NEW hj, Spans(lo, hi), Spans(ln, hj),
           \A s \in Senders : lo[s] <= ln[s] /\ hj[s] <= hi[s], IsFiniteSet(Region(lo, hi))
    PROVE  /\ IsFiniteSet(Region(ln, hj))
           /\ Cardinality(Region(ln, hj)) <= Cardinality(Region(lo, hi))
<1>1. ASSUME NEW x, x \in Region(ln, hj) PROVE x \in Region(lo, hi)
  <2>1. PICK t \in Senders : \E n \in ln[t] + 1 .. hj[t] : x = <<t, n>> BY <1>1, RegionMembers
  <2>2. PICK n \in ln[t] + 1 .. hj[t] : x = <<t, n>> BY <2>1
  <2>3. n \in lo[t] + 1 .. hi[t] BY DEF Spans
  <2> QED BY <2>2, <2>3, RegionMembers
<1> QED BY <1>1, FS_Subset

(* Up to where a sender has reserved, and up to where it was admitted. *)
HeldTop == [s \in Senders |-> sent[s] + Reserved(s)]
AdmittedTop == [s \in Senders |-> sent[s] + Granted(s)]

(* What the counter stands for and what was admitted are regions. *)
LEMMA HeldRegion ==
    /\ Held = Region(got, HeldTop) /\ Admitted = Region(got, AdmittedTop)
    /\ Held' = Region(got', HeldTop') /\ Admitted' = Region(got', AdmittedTop')
<1>1. \A s \in Senders : HeldTop[s] = sent[s] + Reserved(s) BY DEF HeldTop
<1>2. \A s \in Senders : HeldTop'[s] = sent'[s] + Reserved(s)' BY DEF HeldTop
<1>3. Held = Region(got, HeldTop) BY <1>1 DEF Held, Region
<1>4. Held' = Region(got', HeldTop') BY <1>2 DEF Held, Region
<1> QED BY <1>3, <1>4 DEF Admitted, AdmittedTop

(* These regions begin where the receiver is, and the admitted one is within the counted one. *)
LEMMA TopSpans ==
    ASSUME TypeOK, FifoInv
    PROVE  /\ Spans(got, sent) /\ Spans(got, HeldTop) /\ Spans(got, AdmittedTop)
           /\ \A s \in Senders : sent[s] <= AdmittedTop[s] /\ AdmittedTop[s] <= HeldTop[s]
<1>1. /\ sent \in [Senders -> Nat] /\ got \in [Senders -> Nat] /\ count \in [Senders -> Nat]
      /\ \A s \in Senders : got[s] <= sent[s]
  BY DEF TypeOK, TypeHistory, TypeSender, FifoInv, NothingMissing
<1>2. ASSUME NEW s \in Senders
      PROVE  /\ HeldTop[s] = sent[s] + Reserved(s) /\ AdmittedTop[s] = sent[s] + Granted(s)
             /\ Reserved(s) \in Nat /\ Granted(s) \in Nat /\ Granted(s) <= Reserved(s)
  BY <1>1 DEF HeldTop, AdmittedTop, Reserved, Granted
<1>3. HeldTop \in [Senders -> Nat] /\ AdmittedTop \in [Senders -> Nat]
  <2>1. \A s \in Senders : sent[s] + Reserved(s) \in Nat /\ sent[s] + Granted(s) \in Nat BY <1>1, <1>2
  <2> QED BY <2>1 DEF HeldTop, AdmittedTop
<1> QED BY <1>1, <1>2, <1>3 DEF Spans

(* The count, less what the receiver's call in progress has not settled. *)
Unsettled == (IF rpc = "drain" THEN initial_len - Len(buffer) ELSE 0) - (IF rpc = "putback" THEN 1 ELSE 0)

HeldExact == IsFiniteSet(Held) /\ SizeIsExact

(* What is held and what is counted change together. *)
LEMMA HeldChanges ==
    ASSUME TypeOK, TypeOK', HeldExact, NEW d \in Int, IsFiniteSet(Held'),
           Cardinality(Held') = Cardinality(Held) + d,
           Bounded => channel_size' - Unsettled' = channel_size - Unsettled + d
    PROVE  HeldExact'
<1>1. /\ channel_size \in Int /\ channel_size' \in Int /\ initial_len \in Int /\ initial_len' \in Int
      /\ buffer \in Seq(Value) /\ buffer' \in Seq(Value)
  BY DEF TypeOK, TypeShared, TypeReceiver
<1>2. Len(buffer) \in Int /\ Len(buffer') \in Int BY <1>1, LenProperties
<1>3. Unsettled \in Int /\ Unsettled' \in Int BY <1>1, <1>2 DEF Unsettled
<1>4. Cardinality(Held) \in Int BY FS_CardinalityType DEF HeldExact
<1>5. Bounded => channel_size = Cardinality(Held) + Unsettled
  BY <1>1, <1>2, <1>4 DEF HeldExact, SizeIsExact, Unsettled
<1>6. ASSUME Bounded PROVE channel_size' = Cardinality(Held') + Unsettled'
  <2>1. PICK u, v, m, n \in Int : u = Unsettled /\ v = Unsettled' /\ m = channel_size' /\ n = Cardinality(Held)
    BY <1>1, <1>3, <1>4
  <2>2. channel_size = n + u /\ Cardinality(Held') = n + d BY <1>5, <1>6, <2>1
  <2>3. m - v = channel_size - u + d BY <1>6, <2>1
  <2>4. m = n + d + v BY <2>1, <2>2, <2>3
  <2> QED BY <2>1, <2>2, <2>4
<1>7. Cardinality(Held') \in Int BY <1>4
<1> QED BY <1>1, <1>2, <1>6, <1>7 DEF HeldExact, SizeIsExact, Unsettled

(* Steps that neither reserve, give back nor deliver: what is held stays. *)
LEMMA HeldStays ==
    ASSUME TypeOK, TypeOK', HeldExact, got' = got, \A s \in Senders : HeldTop'[s] = HeldTop[s],
           Bounded => channel_size' - Unsettled' = channel_size - Unsettled
    PROVE  HeldExact'
<1>1. HeldTop' = HeldTop BY DEF HeldTop
<1>2. Held' = Held BY <1>1, HeldRegion
<1>3. Cardinality(Held) \in Int /\ IsFiniteSet(Held) BY FS_CardinalityType DEF HeldExact
<1>4. channel_size \in Int /\ Unsettled \in Int
  <2>1. Len(buffer) \in Int BY LenProperties DEF TypeOK, TypeReceiver
  <2> QED BY <2>1 DEF TypeOK, TypeShared, TypeReceiver, Unsettled
<1>5. Cardinality(Held') = Cardinality(Held) + 0 /\ channel_size - Unsettled = channel_size - Unsettled + 0
  BY <1>2, <1>3, <1>4
<1> QED BY <1>2, <1>3, <1>5, HeldChanges

(* A reservation and its return. *)
LEMMA HeldReserves ==
    ASSUME TypeOK, TypeOK', FifoInv, HeldExact, NEW s \in Senders, NEW k \in BatchSizes, BeginSend(s, k)
    PROVE  HeldExact' /\ Cardinality(Held') = Cardinality(Held) + k
<1>1. /\ pc[s] = "idle" /\ count' = [count EXCEPT ![s] = k] /\ pc'[s] \in {"rollback", "commit"}
      /\ \A t \in Senders : t # s => pc'[t] = pc[t]
      /\ channel_size' = IF Bounded THEN channel_size + k ELSE channel_size
      /\ UNCHANGED <<rpc, buffer, initial_len, sent, got>>
  BY DEF BeginSend, receiverVars, history, TypeOK, TypeSender
<1>2. k \in Nat BY SpillwayAssumption
<1>3. count \in [Senders -> Nat] /\ sent \in [Senders -> Nat] BY DEF TypeOK, TypeSender, TypeHistory
<1>4. HeldTop[s] = sent[s] /\ HeldTop'[s] = sent[s] + k /\ \A t \in Senders : t # s => HeldTop'[t] = HeldTop[t]
  BY <1>1, <1>2, <1>3 DEF HeldTop, Reserved
<1>5. Spans(got, HeldTop) BY TopSpans
<1>6. HeldTop'[s] = HeldTop[s] + k BY <1>4
<1>7. IsFiniteSet(Held') /\ Cardinality(Held') = Cardinality(Held) + k
  <2>1. IsFiniteSet(Region(got, HeldTop)) BY HeldRegion DEF HeldExact
  <2>2. /\ IsFiniteSet(Region(got, HeldTop'))
        /\ Cardinality(Region(got, HeldTop')) = Cardinality(Region(got, HeldTop)) + k
    BY <1>2, <1>4, <1>5, <1>6, <2>1, RegionGrows
  <2>3. Held = Region(got, HeldTop) /\ Held' = Region(got, HeldTop') BY <1>1, HeldRegion
  <2> QED BY <2>2, <2>3
<1>8. Unsettled' = Unsettled BY <1>1 DEF Unsettled
<1>9. channel_size \in Int /\ Unsettled \in Int
  <2>1. Len(buffer) \in Int BY LenProperties DEF TypeOK, TypeReceiver
  <2> QED BY <2>1 DEF TypeOK, TypeShared, TypeReceiver, Unsettled
<1>10. Bounded => channel_size' - Unsettled' = channel_size - Unsettled + k BY <1>1, <1>2, <1>8, <1>9
<1> QED BY <1>2, <1>7, <1>10, HeldChanges

(* A refused call takes back what it added. *)
LEMMA HeldReturns ==
    ASSUME TypeOK, TypeOK', FifoInv, HeldExact, NEW s \in Senders, Rollback(s)
    PROVE  HeldExact'
<1>1. /\ pc[s] = "rollback" /\ pc'[s] = "idle" /\ \A t \in Senders : t # s => pc'[t] = pc[t]
      /\ channel_size' = channel_size - count[s]
      /\ UNCHANGED <<count, rpc, buffer, initial_len, sent, got>>
  BY DEF Rollback, receiverVars, history, TypeOK, TypeSender
<1>2. PICK k \in Nat : k = count[s] BY DEF TypeOK, TypeSender
<1>3. sent \in [Senders -> Nat] BY DEF TypeOK, TypeHistory
<1>4. HeldTop[s] = sent[s] + k /\ HeldTop'[s] = sent[s] /\ \A t \in Senders : t # s => HeldTop[t] = HeldTop'[t]
  BY <1>1, <1>2, <1>3 DEF HeldTop, Reserved
<1>5. Spans(got, HeldTop) /\ Spans(got, HeldTop')
  <2>1. Spans(got, HeldTop) BY TopSpans
  <2>2. got \in [Senders -> Nat] /\ \A t \in Senders : got[t] <= sent[t] BY TopSpans DEF Spans
  <2>3. \A t \in Senders : HeldTop'[t] \in Nat /\ got[t] <= HeldTop'[t] BY <1>3, <1>4, <2>1, <2>2 DEF Spans
  <2>4. HeldTop' \in [Senders -> Nat] BY <2>3 DEF HeldTop
  <2> QED BY <2>1, <2>2, <2>3, <2>4 DEF Spans
<1>6. HeldTop[s] = HeldTop'[s] + k BY <1>4
<1>7. IsFiniteSet(Held') /\ Cardinality(Held) = Cardinality(Held') + k
  <2>1. IsFiniteSet(Region(got, HeldTop)) BY HeldRegion DEF HeldExact
  <2>2. \A t \in Senders : got[t] <= got[t] /\ HeldTop'[t] <= HeldTop[t] BY <1>3, <1>4, <1>5 DEF Spans
  <2>3. IsFiniteSet(Region(got, HeldTop')) BY <1>5, <2>1, <2>2, RegionWithin
  <2>4. Cardinality(Region(got, HeldTop)) = Cardinality(Region(got, HeldTop')) + k
    BY <1>2, <1>4, <1>5, <1>6, <2>3, RegionGrows
  <2>5. Held = Region(got, HeldTop) /\ Held' = Region(got, HeldTop') BY <1>1, HeldRegion
  <2> QED BY <2>3, <2>4, <2>5
<1>8. Unsettled' = Unsettled BY <1>1 DEF Unsettled
<1>9. channel_size \in Int /\ Unsettled \in Int
  <2>1. Len(buffer) \in Int BY LenProperties DEF TypeOK, TypeReceiver
  <2> QED BY <2>1 DEF TypeOK, TypeShared, TypeReceiver, Unsettled
<1>10. channel_size' - Unsettled' = channel_size - Unsettled + (-k) BY <1>1, <1>2, <1>8, <1>9
<1>11. Cardinality(Held') = Cardinality(Held) + (-k)
  <2>1. Cardinality(Held') \in Nat BY <1>7, FS_CardinalityType
  <2> QED BY <1>2, <1>7, <2>1
<1> QED BY <1>2, <1>7, <1>10, <1>11, HeldChanges

(* The next value of a sender is delivered: what is held loses one, and so does the buffer. *)
LEMMA HeldDelivers ==
    ASSUME TypeOK, FifoInv, HeldExact, buffer # <<>>, Deliver, UNCHANGED <<pc, count>>
    PROVE  /\ IsFiniteSet(Held') /\ Cardinality(Held') = Cardinality(Held) + (-1)
           /\ Len(buffer') = Len(buffer) - 1 /\ Len(buffer) \in Nat
           /\ \A t \in Senders : got[t] <= got'[t] /\ got'[t] <= sent[t]
           /\ got' \in [Senders -> Nat]
<1>1. /\ buffer \in Seq(Value) /\ sent \in [Senders -> Nat] /\ got \in [Senders -> Nat]
  BY DEF TypeOK, TypeReceiver, TypeHistory
<1>2. Len(buffer) \in Nat /\ Len(buffer) > 0
  <2>1. Len(buffer) \in Nat /\ Len(buffer) # 0 BY <1>1, EmptySeq, LenProperties
  <2> QED BY <2>1
<1>3. PICK s \in Senders : s = buffer[1].from BY <1>2, HeadIsNext
<1>4. buffer[1].seq = got[s] + 1 /\ buffer[1].seq <= sent[s] BY <1>2, <1>3, HeadIsNext
<1>5. got' = [got EXCEPT ![s] = got[s] + 1] /\ sent' = sent /\ buffer' = Tail(buffer)
  <2>1. Head(buffer) = buffer[1] BY <1>1, <1>2
  <2> QED BY <1>3, <1>4, <2>1 DEF Deliver
<1>6. got'[s] = got[s] + 1 /\ (\A t \in Senders : t # s => got'[t] = got[t]) /\ got' \in [Senders -> Nat]
  BY <1>1, <1>5
<1>7. Len(buffer') = Len(buffer) - 1 BY <1>1, <1>5, HeadTailProperties
<1>8. Spans(got, HeldTop) /\ Spans(got, sent) /\ \A t \in Senders : sent[t] <= HeldTop[t] BY TopSpans DEF Spans
<1>9. HeldTop' = HeldTop BY <1>5 DEF HeldTop, Reserved
<1>10. IsFiniteSet(Held') /\ Cardinality(Held') = Cardinality(Held) - 1
  <2>1. IsFiniteSet(Region(got, HeldTop)) BY HeldRegion DEF HeldExact
  <2>2. got[s] < HeldTop[s] BY <1>1, <1>4, <1>8 DEF Spans
  <2>3. /\ IsFiniteSet(Region(got', HeldTop))
        /\ Cardinality(Region(got', HeldTop)) = Cardinality(Region(got, HeldTop)) - 1
    BY <1>6, <1>8, <2>1, <2>2, RegionPops
  <2>4. Held = Region(got, HeldTop) /\ Held' = Region(got', HeldTop) BY <1>9, HeldRegion
  <2> QED BY <2>3, <2>4
<1>11. ASSUME NEW t \in Senders PROVE got[t] <= got'[t] /\ got'[t] <= sent[t]
  <2>1. got[t] \in Nat /\ sent[t] \in Nat /\ got[t] <= sent[t] BY <1>1, <1>8 DEF Spans
  <2>2. got[s] + 1 <= sent[s] BY <1>4
  <2> QED BY <1>6, <2>1, <2>2
<1>12. Cardinality(Held) \in Nat BY FS_CardinalityType DEF HeldExact
<1>13. Cardinality(Held) - 1 = Cardinality(Held) + (-1) BY <1>12
<1> QED BY <1>2, <1>6, <1>7, <1>10, <1>11, <1>13

(* Every step keeps the counter exact. *)
LEMMA HeldExactStep ==
    ASSUME TypeOK, TypeOK', FifoInv, HeldExact, [Next]_vars
    PROVE  HeldExact'
<1>a. channel_size \in Int /\ initial_len \in Int /\ buffer \in Seq(Value) /\ Len(buffer) \in Int
  <2>1. buffer \in Seq(Value) BY DEF TypeOK, TypeReceiver
  <2> QED BY <2>1, LenProperties DEF TypeOK, TypeShared, TypeReceiver
<1>b. pc \in [Senders -> SenderSteps] /\ count \in [Senders -> Nat] /\ sent \in [Senders -> Nat]
  BY DEF TypeOK, TypeSender, TypeHistory
<1>1. ASSUME NEW s \in Senders,
             \/ \E t \in Senders : Clone(s, t)
             \/ Commit(s) \/ WakeForDirty(s) \/ DropSender(s) \/ WakeForLastDrop(s)
      PROVE  HeldExact'
  <2>1. UNCHANGED <<channel_size, count, rpc, buffer, initial_len, got>>
    BY <1>1 DEF Clone, Commit, WakeForDirty, DropSender, WakeForLastDrop, receiverVars, history
  <2>2. Unsettled' = Unsettled BY <2>1 DEF Unsettled
  <2>3. CASE Commit(s)
    <3>1. /\ pc[s] = "commit" /\ pc'[s] \in {"wake", "idle"} /\ sent'[s] = sent[s] + count[s]
          /\ \A t \in Senders : t # s => pc'[t] = pc[t] /\ sent'[t] = sent[t]
      BY <1>b, <2>3 DEF Commit
    <3>2. \A t \in Senders : HeldTop'[t] = HeldTop[t] BY <1>b, <2>1, <3>1 DEF HeldTop, Reserved
    <3> QED BY <2>1, <2>2, <3>2, HeldStays
  <2>4. CASE ~Commit(s)
    <3>1. /\ \A t \in Senders : \/ pc'[t] = pc[t]
                                \/ pc[t] \notin {"rollback", "commit"} /\ pc'[t] \notin {"rollback", "commit"}
          /\ sent' = sent
      BY <1>1, <1>b, <2>4 DEF Clone, WakeForDirty, DropSender, WakeForLastDrop, history
    <3>2. \A t \in Senders : HeldTop'[t] = HeldTop[t] BY <2>1, <3>1 DEF HeldTop, Reserved
    <3> QED BY <2>1, <2>2, <3>2, HeldStays
  <2> QED BY <2>3, <2>4
<1>2. ASSUME NEW s \in Senders, NEW k \in BatchSizes, BeginSend(s, k) PROVE HeldExact'
  BY <1>2, HeldReserves
<1>3. ASSUME NEW s \in Senders, Rollback(s) PROVE HeldExact' BY <1>3, HeldReturns
<1>4. ASSUME UNCHANGED <<pc, count, sent, got>>,
             Bounded => channel_size' - Unsettled' = channel_size - Unsettled
      PROVE  HeldExact'
  <2>1. HeldTop' = HeldTop BY <1>4 DEF HeldTop, Reserved
  <2> QED BY <1>4, <2>1, HeldStays
<1>5. ASSUME UNCHANGED <<pc, count, sent, got, channel_size>>,
             rpc \notin {"drain", "putback"}, rpc' \notin {"drain", "putback"}
      PROVE  HeldExact'
  <2>1. Unsettled' = Unsettled BY <1>5 DEF Unsettled
  <2> QED BY <1>4, <1>5, <2>1
<1>6. ASSUME \/ \E m \in Modes : StartPoll(m)
             \/ FindDirty \/ FindClean \/ Register \/ CheckSenders \/ Swap
             \/ Wakeup \/ SpuriousPoll \/ DropReceiver
      PROVE  HeldExact'
  <2>1. UNCHANGED <<pc, count, sent, got, channel_size>>
    BY <1>6 DEF StartPoll, FindDirty, FindClean, Register, CheckSenders, Swap, Wakeup, SpuriousPoll, TaskPolled,
                DropReceiver, sharedVars, senderVars, history
  <2>2. rpc \notin {"drain", "putback"} /\ rpc' \notin {"drain", "putback"}
    BY <1>6 DEF StartPoll, FindDirty, FindClean, AfterCleanScan, Register, CheckSenders, Swap, Wakeup,
                SpuriousPoll, TaskPolled, DropReceiver
  <2> QED BY <1>5, <2>1, <2>2
<1>7. ASSUME UNCHANGED vars PROVE HeldExact'
  <2>1. Unsettled' = Unsettled BY <1>7 DEF Unsettled, vars, receiverVars
  <2> QED BY <1>4, <1>7, <2>1 DEF vars, sharedVars, senderVars, history
<1>8. ASSUME TakeForBatch \/ PutBack \/ DrainDrop PROVE HeldExact'
  <2>1. UNCHANGED <<pc, count, sent, got, buffer>>
    BY <1>8 DEF TakeForBatch, PutBack, DrainDrop, senderVars, history
  <2>2. Bounded => channel_size' - Unsettled' = channel_size - Unsettled
    <3>1. CASE TakeForBatch
      <4>1. Unsettled = 0 /\ Unsettled' = -1 BY <3>1 DEF TakeForBatch, Unsettled
      <4> QED BY <1>a, <3>1, <4>1 DEF TakeForBatch, Sized
    <3>2. CASE PutBack
      <4>1. Unsettled = -1 /\ Unsettled' = 0 BY <1>a, <2>1, <3>2 DEF PutBack, Unsettled
      <4> QED BY <1>a, <3>2, <4>1 DEF PutBack, Sized
    <3>3. CASE DrainDrop
      <4>1. Unsettled = initial_len - Len(buffer) /\ Unsettled' = 0 BY <1>a, <3>3 DEF DrainDrop, Unsettled
      <4> QED BY <1>a, <3>3, <4>1 DEF DrainDrop, Sized
    <3> QED BY <1>8, <3>1, <3>2, <3>3
  <2> QED BY <1>4, <2>1, <2>2
<1>9. ASSUME TakeOne \/ DrainNext PROVE HeldExact'
  <2>1. buffer # <<>> /\ Deliver /\ UNCHANGED <<pc, count>> BY <1>9 DEF TakeOne, DrainNext, senderVars
  <2>2. IsFiniteSet(Held') /\ Cardinality(Held') = Cardinality(Held) + (-1) /\ Len(buffer') = Len(buffer) - 1
    BY <2>1, HeldDelivers
  <2>3. Bounded => channel_size' - Unsettled' = channel_size - Unsettled + (-1)
    <3>1. CASE TakeOne
      <4>1. Unsettled = 0 /\ Unsettled' = 0 BY <3>1 DEF TakeOne, Unsettled
      <4> QED BY <1>a, <3>1, <4>1 DEF TakeOne, Sized
    <3>2. CASE DrainNext
      <4>1. Unsettled = initial_len - Len(buffer) /\ Unsettled' = initial_len - Len(buffer')
        BY <1>a, <2>2, <3>2 DEF DrainNext, Unsettled
      <4>2. channel_size' = channel_size BY <3>2 DEF DrainNext, sharedVars
      <4> QED BY <1>a, <2>2, <4>1, <4>2
    <3> QED BY <1>9, <3>1, <3>2
  <2> QED BY <2>2, <2>3, HeldChanges
<1> QED BY <1>1, <1>2, <1>3, <1>6, <1>7, <1>8, <1>9 DEF Next, SenderStep, ReceiverStep, Finished

(* A BatchDrain gives out only what it was made with, and next_batch is what makes one. *)
DrainInv ==
    /\ rpc = "drain" => Len(buffer) <= initial_len
    /\ rpc = "putback" => mode = "batch"
    /\ mode = "batch" => "batch" \in Modes

(* Every step keeps what a BatchDrain knows of the buffer. *)
LEMMA DrainInvStep ==
    ASSUME TypeOK, DrainInv, [Next]_vars
    PROVE  DrainInv'
<1>a. buffer \in Seq(Value) /\ Len(buffer) \in Nat /\ initial_len \in Nat
  <2>1. buffer \in Seq(Value) BY DEF TypeOK, TypeReceiver
  <2> QED BY <2>1, LenProperties DEF TypeOK, TypeReceiver
<1>1. ASSUME NEW s \in Senders, SenderStep(s) PROVE DrainInv'
  <2>1. UNCHANGED <<rpc, mode, buffer, initial_len>>
    BY <1>1 DEF SenderStep, Clone, BeginSend, Rollback, Commit, WakeForDirty, DropSender, WakeForLastDrop,
                receiverVars
  <2> QED BY <2>1 DEF DrainInv
<1>2. ASSUME rpc' \notin {"drain", "putback"}, mode' \in Modes \cup {mode} PROVE DrainInv' BY <1>2 DEF DrainInv
<1>3. ASSUME \/ \E m \in Modes : StartPoll(m)
             \/ FindDirty \/ FindClean \/ Register \/ CheckSenders \/ Swap \/ TakeOne \/ DrainDrop
             \/ Wakeup \/ SpuriousPoll \/ DropReceiver
      PROVE  DrainInv'
  BY <1>2, <1>3
  DEF StartPoll, FindDirty, FindClean, AfterCleanScan, Register, CheckSenders, Swap, TakeOne, DrainDrop, Wakeup,
      SpuriousPoll, TaskPolled, DropReceiver
<1>4. ASSUME TakeForBatch PROVE DrainInv' BY <1>4 DEF DrainInv, TakeForBatch
<1>5. ASSUME PutBack PROVE DrainInv'
  <2>1. Len(buffer') <= initial_len' BY <1>5, <1>a DEF PutBack
  <2> QED BY <1>5, <2>1 DEF DrainInv, PutBack
<1>6. ASSUME DrainNext PROVE DrainInv'
  <2>1. buffer # <<>> /\ buffer' = Tail(buffer) /\ UNCHANGED <<rpc, mode, initial_len>> /\ rpc = "drain"
    BY <1>6 DEF DrainNext, Deliver
  <2>2. Len(buffer') = Len(buffer) - 1 BY <1>a, <2>1, HeadTailProperties
  <2>3. Len(buffer') <= initial_len' BY <1>a, <2>1, <2>2 DEF DrainInv
  <2> QED BY <2>1, <2>3 DEF DrainInv
<1>7. ASSUME UNCHANGED vars PROVE DrainInv' BY <1>7 DEF DrainInv, vars, receiverVars
<1> QED BY <1>1, <1>3, <1>4, <1>5, <1>6, <1>7 DEF Next, ReceiverStep, Finished

(* Nothing above the capacity, and the slack of next_batch, is admitted. *)
AdmittedBounded == Bounded => Cardinality(Admitted) <= Capacity + Slack

AdmittedHeld ==
    IsFiniteSet(Admitted) /\ Cardinality(Admitted) \in Nat /\ Cardinality(Admitted) <= Cardinality(Held)

(* Whoever is admitted has reserved, in this state and in the next. *)
LEMMA AdmittedFinite == TypeOK /\ FifoInv /\ HeldExact => AdmittedHeld
<1> SUFFICES ASSUME TypeOK, FifoInv, HeldExact PROVE AdmittedHeld OBVIOUS
<1>0. IsFiniteSet(Held) BY DEF HeldExact
<1>1. Spans(got, HeldTop) /\ Spans(got, AdmittedTop) /\ \A s \in Senders : AdmittedTop[s] <= HeldTop[s] BY TopSpans
<1>2. \A s \in Senders : got[s] <= got[s] /\ AdmittedTop[s] <= HeldTop[s] BY <1>1 DEF Spans
<1>3. Held = Region(got, HeldTop) /\ Admitted = Region(got, AdmittedTop) BY HeldRegion
<1>4. IsFiniteSet(Admitted) /\ Cardinality(Admitted) <= Cardinality(Held) BY <1>0, <1>1, <1>2, <1>3, RegionWithin
<1> QED BY <1>4, FS_CardinalityType DEF AdmittedHeld

(* The same facts after a step. *)
LEMMA AdmittedFiniteNext == TypeOK' /\ FifoInv' /\ HeldExact' => AdmittedHeld'
BY AdmittedFinite, PTL

(* A reservation that passes the check leaves room for what it admits: the count it is decided *)
(* on is at most one, lent by next_batch, below what is held.                                  *)
LEMMA AdmissionFits ==
    ASSUME TypeOK, TypeOK', FifoInv, FifoInv', HeldExact, DrainInv, Bounded,
           NEW s \in Senders, NEW k \in BatchSizes, BeginSend(s, k), ~OverCapacity(channel_size, k)
    PROVE  AdmittedBounded'
<1>1. HeldExact' /\ Cardinality(Held') = Cardinality(Held) + k BY HeldReserves
<1>2. k \in Nat /\ Capacity \in Nat BY SpillwayAssumption
<1>3. PICK h \in Nat : h = Cardinality(Held) BY FS_CardinalityType DEF HeldExact
<1>4. channel_size \in Int /\ channel_size + k <= Capacity
  BY <1>2 DEF OverCapacity, TypeOK, TypeShared
<1>5. channel_size >= h - Slack
  <2>1. channel_size = h + (IF rpc = "drain" THEN initial_len - Len(buffer) ELSE 0)
                         - (IF rpc = "putback" THEN 1 ELSE 0)
    BY <1>3 DEF HeldExact, SizeIsExact
  <2>2. Len(buffer) \in Int /\ initial_len \in Int
    <3>1. buffer \in Seq(Value) BY DEF TypeOK, TypeReceiver
    <3> QED BY <3>1, LenProperties DEF TypeOK, TypeReceiver
  <2>3. CASE rpc = "putback"
    <3>1. Slack = 1 BY <2>3 DEF DrainInv, Slack
    <3> QED BY <1>3, <2>1, <2>3, <3>1
  <2>4. CASE rpc = "drain"
    <3>1. Slack \in {0, 1} /\ Len(buffer) <= initial_len BY <2>4 DEF DrainInv, Slack
    <3> QED BY <1>3, <2>1, <2>2, <2>4, <3>1
  <2>5. CASE rpc \notin {"putback", "drain"}
    <3>1. Slack \in {0, 1} BY DEF Slack
    <3> QED BY <1>3, <2>1, <2>5, <3>1
  <2> QED BY <2>3, <2>4, <2>5
<1>6. Slack \in Nat BY DEF Slack
<1>7. h + k <= Capacity + Slack BY <1>2, <1>4, <1>5, <1>6
<1>8. Cardinality(Held') = h + k BY <1>1, <1>3
<1>9. Cardinality(Admitted') \in Nat /\ Cardinality(Admitted') <= Cardinality(Held')
  BY <1>1, AdmittedFiniteNext DEF AdmittedHeld
<1>10. Slack' = Slack BY DEF Slack
<1> QED BY <1>2, <1>3, <1>6, <1>7, <1>8, <1>9, <1>10 DEF AdmittedBounded

AdmittedSpans == Spans(got, AdmittedTop)

(* The admitted region begins where the receiver is. *)
LEMMA AdmittedSpansNow == TypeOK /\ FifoInv => AdmittedSpans
BY TopSpans DEF AdmittedSpans

(* And after a step. *)
LEMMA AdmittedSpansNext == TypeOK' /\ FifoInv' => AdmittedSpans'
BY AdmittedSpansNow, PTL

(* Steps that admit nothing. *)
LEMMA AdmittedShrinks ==
    ASSUME TypeOK, TypeOK', FifoInv, FifoInv', HeldExact, AdmittedBounded,
           \A s \in Senders : got[s] <= got'[s] /\ AdmittedTop'[s] <= AdmittedTop[s]
    PROVE  AdmittedBounded'
<1>1. Spans(got, AdmittedTop) /\ Spans(got', AdmittedTop')
  BY AdmittedSpansNow, AdmittedSpansNext DEF AdmittedSpans
<1>2. IsFiniteSet(Admitted) /\ Cardinality(Admitted) \in Nat BY AdmittedFinite DEF AdmittedHeld
<1>3. Admitted = Region(got, AdmittedTop) /\ Admitted' = Region(got', AdmittedTop') BY HeldRegion
<1>4. IsFiniteSet(Admitted') /\ Cardinality(Admitted') <= Cardinality(Admitted) BY <1>1, <1>2, <1>3, RegionWithin
<1>5. Cardinality(Admitted') \in Nat BY <1>4, FS_CardinalityType
<1>6. Slack' = Slack /\ Slack \in Nat /\ Capacity \in Nat BY SpillwayAssumption DEF Slack
<1> QED BY <1>2, <1>4, <1>5, <1>6 DEF AdmittedBounded

(* Every step keeps what was admitted within the capacity. *)
LEMMA AdmittedStep ==
    ASSUME TypeOK, TypeOK', FifoInv, FifoInv', HeldExact, DrainInv, AdmittedBounded, [Next]_vars
    PROVE  AdmittedBounded'
<1>a. /\ pc \in [Senders -> SenderSteps] /\ count \in [Senders -> Nat]
      /\ sent \in [Senders -> Nat] /\ got \in [Senders -> Nat]
  BY DEF TypeOK, TypeSender, TypeHistory
<1>b. \A t \in Senders : AdmittedTop[t] = sent[t] + Granted(t) /\ AdmittedTop'[t] = sent'[t] + Granted(t)'
  BY DEF AdmittedTop
<1>c. \A t \in Senders : Granted(t) \in Nat BY <1>a DEF Granted
<1>1. ASSUME got' = got, \A t \in Senders : sent'[t] + Granted(t)' = sent[t] + Granted(t) PROVE AdmittedBounded'
  <2>1. \A t \in Senders : got[t] <= got'[t] /\ AdmittedTop'[t] <= AdmittedTop[t] BY <1>1, <1>a, <1>b, <1>c
  <2> QED BY <2>1, AdmittedShrinks
<1>2. ASSUME NEW s \in Senders, NEW k \in BatchSizes, BeginSend(s, k) PROVE AdmittedBounded'
  <2>1. CASE ~Bounded BY <2>1 DEF AdmittedBounded
  <2>2. CASE Bounded /\ ~OverCapacity(channel_size, k) BY <1>2, <2>2, AdmissionFits
  <2>3. CASE Bounded /\ OverCapacity(channel_size, k)
    <3>1. /\ pc[s] = "idle" /\ pc'[s] = "rollback" /\ \A t \in Senders : t # s => pc'[t] = pc[t]
          /\ count' = [count EXCEPT ![s] = k] /\ UNCHANGED <<sent, got>>
      BY <1>2, <1>a, <2>3 DEF BeginSend, history
    <3>2. \A t \in Senders : Granted(t)' = Granted(t) BY <1>a, <3>1 DEF Granted
    <3> QED BY <1>1, <3>1, <3>2
  <2> QED BY <2>1, <2>2, <2>3
<1>3. ASSUME NEW s \in Senders, Commit(s) PROVE AdmittedBounded'
  <2>1. /\ pc[s] = "commit" /\ pc'[s] \in {"wake", "idle"} /\ sent'[s] = sent[s] + count[s]
        /\ \A t \in Senders : t # s => pc'[t] = pc[t] /\ sent'[t] = sent[t]
        /\ UNCHANGED <<count, got>>
    BY <1>3, <1>a DEF Commit
  <2>2. \A t \in Senders : sent'[t] + Granted(t)' = sent[t] + Granted(t) BY <1>a, <2>1 DEF Granted
  <2> QED BY <1>1, <2>1, <2>2
<1>4. ASSUME UNCHANGED <<count, sent, got>>,
             \A t \in Senders : pc'[t] = pc[t] \/ (pc[t] # "commit" /\ pc'[t] # "commit")
      PROVE  AdmittedBounded'
  <2>1. \A t \in Senders : sent'[t] + Granted(t)' = sent[t] + Granted(t) BY <1>4 DEF Granted
  <2> QED BY <1>1, <1>4, <2>1
<1>5. ASSUME NEW s \in Senders,
             \/ \E t \in Senders : Clone(s, t)
             \/ Rollback(s) \/ WakeForDirty(s) \/ DropSender(s) \/ WakeForLastDrop(s)
      PROVE  AdmittedBounded'
  BY <1>4, <1>5, <1>a DEF Clone, Rollback, WakeForDirty, DropSender, WakeForLastDrop, history
<1>6. ASSUME \/ \E m \in Modes : StartPoll(m)
             \/ FindDirty \/ FindClean \/ Register \/ CheckSenders \/ Swap \/ TakeForBatch \/ PutBack \/ DrainDrop
             \/ Wakeup \/ SpuriousPoll \/ DropReceiver \/ UNCHANGED vars
      PROVE  AdmittedBounded'
  <2>1. UNCHANGED <<pc, count, sent, got>>
    BY <1>6 DEF StartPoll, FindDirty, FindClean, Register, CheckSenders, Swap, TakeForBatch, PutBack, DrainDrop,
                Wakeup, SpuriousPoll, TaskPolled, DropReceiver, vars, senderVars, history
  <2> QED BY <1>4, <2>1
<1>7. ASSUME TakeOne \/ DrainNext PROVE AdmittedBounded'
  <2>1. buffer # <<>> /\ Deliver /\ UNCHANGED <<pc, count>> BY <1>7 DEF TakeOne, DrainNext, senderVars
  <2>2. sent' = sent BY <2>1 DEF Deliver
  <2>3. \A t \in Senders : Granted(t)' = Granted(t) BY <2>1 DEF Granted
  <2>4. \A t \in Senders : AdmittedTop'[t] <= AdmittedTop[t] BY <1>a, <1>b, <1>c, <2>2, <2>3
  <2>5. \A t \in Senders : got[t] <= got'[t] BY <2>1, HeldDelivers
  <2> QED BY <2>4, <2>5, AdmittedShrinks
<1> QED BY <1>2, <1>3, <1>5, <1>6, <1>7 DEF Next, SenderStep, ReceiverStep, Finished

(* The invariant by its parts. *)
LEMMA SizeInvParts == SizeInv <=> HeldExact /\ DrainInv /\ AdmittedBounded
BY DEF SizeInv, HeldExact, DrainInv, AdmittedBounded

(* What the channel counts, and how it decided what it admitted, in every reachable state.      *)
THEOREM SizeInvariant == Spec => []SizeInv
<1>1. Init => SizeInv
  <2> SUFFICES ASSUME Init PROVE SizeInv OBVIOUS
  <2>1. \A s \in Senders : got[s] = 0 /\ sent[s] = 0 /\ Reserved(s) = 0 /\ Granted(s) = 0
    BY DEF Init, Reserved, Granted
  <2>2. \A s \in Senders : HeldTop[s] = 0 /\ AdmittedTop[s] = 0 BY <2>1 DEF HeldTop, AdmittedTop
  <2>3. \A lo, hi : (\A s \in Senders : lo[s] = 0 /\ hi[s] = 0) => Region(lo, hi) = {}
    <3> SUFFICES ASSUME NEW lo, NEW hi, \A s \in Senders : lo[s] = 0 /\ hi[s] = 0, NEW x, x \in Region(lo, hi)
                 PROVE  FALSE
      OBVIOUS
    <3>1. PICK s \in Senders : \E n \in lo[s] + 1 .. hi[s] : x = <<s, n>> BY RegionMembers
    <3> QED BY <3>1
  <2>4. Held = {} /\ Admitted = {} BY <2>1, <2>2, <2>3, HeldRegion
  <2>5. IsFiniteSet(Held) /\ Cardinality(Held) = 0 /\ Cardinality(Admitted) = 0 BY <2>4, FS_EmptySet
  <2>6. rpc = "idle" /\ mode = "next" /\ channel_size = 0 BY DEF Init
  <2>7. 0 <= Capacity + Slack BY SpillwayAssumption DEF Slack
  <2> QED BY <2>5, <2>6, <2>7 DEF SizeInv, SizeIsExact
<1>2. TypeOK /\ TypeOK' /\ FifoInv /\ FifoInv' /\ SizeInv /\ [Next]_vars => SizeInv'
  <2> SUFFICES ASSUME TypeOK, TypeOK', FifoInv, FifoInv', SizeInv, [Next]_vars PROVE SizeInv' OBVIOUS
  <2>1. HeldExact /\ DrainInv /\ AdmittedBounded BY SizeInvParts
  <2>2. HeldExact' BY <2>1, HeldExactStep
  <2>3. DrainInv' BY <2>1, DrainInvStep
  <2>4. AdmittedBounded' BY <2>1, AdmittedStep
  <2> QED BY <2>2, <2>3, <2>4 DEF SizeInv, HeldExact, DrainInv, AdmittedBounded
<1> QED BY <1>1, <1>2, TypeCorrect, FifoInvariant, PTL DEF Spec

(* channel_size never leaks and never wraps: whatever reservations, rollbacks, deliveries, open *)
(* BatchDrains and early drops of one overlap, it is the number of values held or reserved and  *)
(* what the receiver's call in progress has not settled.                                        *)
THEOREM SizeStaysExact == Spec => []SizeIsExact
<1>1. SizeInv => SizeIsExact BY DEF SizeInv
<1> QED BY <1>1, SizeInvariant, PTL

(* The capacity of the channel bounds the values in flight, with a slack of one if next_batch   *)
(* is used, for any number of senders whose fetch_adds and fetch_subs race.                     *)
THEOREM CapacityHolds == Spec => []InFlightBounded
<1>1. TypeOK /\ FifoInv /\ SizeInv => InFlightBounded
  <2> SUFFICES ASSUME TypeOK, FifoInv, SizeInv, Bounded PROVE Cardinality(InFlight) <= Capacity + Slack
    BY DEF InFlightBounded
  <2>1. HeldExact /\ AdmittedBounded BY SizeInvParts
  <2>2. Spans(got, sent) /\ Spans(got, AdmittedTop) /\ \A s \in Senders : sent[s] <= AdmittedTop[s] BY TopSpans
  <2>3. IsFiniteSet(Admitted) /\ Cardinality(Admitted) \in Nat BY <2>1, AdmittedFinite DEF AdmittedHeld
  <2>4. InFlight = Region(got, sent) BY DEF InFlight, Region
  <2>5. Admitted = Region(got, AdmittedTop) BY HeldRegion
  <2>6. \A s \in Senders : got[s] <= got[s] BY <2>2 DEF Spans
  <2>7. IsFiniteSet(InFlight) /\ Cardinality(InFlight) <= Cardinality(Admitted)
    BY <2>2, <2>3, <2>4, <2>5, <2>6, RegionWithin
  <2>8. Cardinality(InFlight) \in Nat BY <2>7, FS_CardinalityType
  <2>9. Capacity \in Nat /\ Slack \in Nat BY SpillwayAssumption DEF Slack
  <2> QED BY <2>1, <2>3, <2>7, <2>8, <2>9 DEF AdmittedBounded
<1> QED BY <1>1, SizeInvariant, TypeCorrect, FifoInvariant, PTL
=============================================================================
