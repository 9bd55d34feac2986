--------------------------- MODULE Observers_proofs ---------------------------
(***************************************************************************)
(* The observers of a queue (Observers.tla), for any number of entries,    *)
(* stages, threads and failures, and any size of the delivery queue: one   *)
(* live registration of the decorated observer, and silence after          *)
(* unsubscribe.                                                            *)
(***************************************************************************)
EXTENDS Observers, RedisValues_proofs

\* Observers: the places of a registering thread, those from which it holds the
\* activating flag of the decorated observer, and the shapes of what it makes.
RegistrarPlaces ==
    {"choose", "register", "list", "activate", "queue", "finish", "failed", "undo", "done"}
Holding == {"register", "list", "activate", "queue", "finish", "failed"}
Registrations(n) == [active : BOOLEAN, initialising : BOOLEAN, pending : Seq(Snapshots),
                     started : 0 .. n, bootstrapped : 0 .. n]
Deliveries == [snapshot : Snapshots, target : Threads \cup {Everyone}, sequence : Nat]
Publishers == [pc : {"idle", "locked"}, next : Nat, seq : Nat, to : SUBSET Threads]
Decorations == [cancelled : BOOLEAN, activating : BOOLEAN, subscription : SUBSET Activators]

ObserverShapes ==
    /\ stored \in [Entries -> 0 .. LastStage] /\ sequence \in Nat
    /\ registrations \in Seq(Threads) /\ reg \in [Threads -> Registrations(sequence)]
    /\ events \in Seq(Deliveries) /\ Len(events) <= Capacity
    /\ decorated \in Decorations
    /\ publisher \in [Entries -> Publishers]
    /\ \A e \in Entries : publisher[e].pc = "locked" => publisher[e].next <= stored[e]
    /\ registrar \in [Threads -> [pc : RegistrarPlaces, batch : Seq(Snapshots)]]
    /\ DOMAIN times = Threads

\* One thread at most activates the decorated observer, while it has no
\* subscription, and a live registration is its own or the subscription's.
ActivationInv ==
    /\ \A t \in Threads : registrar[t].pc \in {"choose", "finish", "failed", "undo"} => t \in Activators
    /\ \A t \in Activators : registrar[t].pc \in Holding =>
          /\ decorated.activating /\ decorated.subscription = {}
          /\ \A x \in Activators : registrar[x].pc \in Holding => x = t
    /\ \A t \in Activators : registrar[t].pc = "undo" => t \in decorated.subscription
    /\ \A t, x \in decorated.subscription : t = x
    /\ \A t \in Activators : reg[t].active =>
          \/ registrar[t].pc \in Holding \ {"register", "failed"}
          \/ registrar[t].pc \in {"undo", "done"} /\ t \in decorated.subscription

\* An observer that was unsubscribed is inactive, or its activation is cancelled.
SilentInv ==
    /\ unsubscribed \subseteq Threads
    /\ \A t \in unsubscribed : registrar[t].pc = "done" => ~reg[t].active
    /\ \A t \in unsubscribed : t \notin Activators => registrar[t].pc = "done"
    /\ \A t \in unsubscribed \cap Activators :
          registrar[t].pc \in Holding \/ decorated.subscription = {} => decorated.cancelled

ObserversInv == ObserverShapes /\ ActivationInv /\ SilentInv

\* A callback that is about to be called has ended its initialisation, a decorated
\* one that has is the subscription when its thread is done, and so the handle
\* that unsubscribes it catches the call.
CaughtInv ==
    /\ "call" \in DOMAIN dispatcher
    /\ \A t \in dispatcher.call \cap Threads : ~reg[t].initialising
    /\ \A t \in Threads : ~reg[t].initialising =>
          /\ registrar[t].pc \in {"queue", "finish", "undo", "done"}
          /\ t \in Activators /\ registrar[t].pc \in {"undo", "done"} => t \in decorated.subscription
    /\ \A t \in unsubscribed \cap dispatcher.call : registrar[t].pc = "done" => t \in caught

LEMMA SnapshotFields ==
    ASSUME NEW s \in Snapshots
    PROVE  s[1] \in Nat /\ s[2] \in Nat /\ s = <<s[1], s[2]>>
<1>1. s[1] \in Entries /\ s[2] \in 0 .. LastStage /\ s = <<s[1], s[2]>>
  BY DEF Snapshots
<1>2. Entries \subseteq Nat
  BY ObserverConstantsOK, Zenon
<1> QED BY <1>1, <1>2

\* sorted() returns a list of the same snapshots.
LEMMA OrderedList ==
    ASSUME NEW list \in Seq(Snapshots)
    PROVE  Ordered(list) \in Seq(Snapshots)
<1>1. PICK n \in Nat : n = Len(list) /\ DOMAIN list = 1 .. n
  <2>1. Len(list) \in Nat /\ DOMAIN list = 1 .. Len(list)
    OBVIOUS
  <2> QED BY <2>1, Zenon
<1>2. PICK D : D = 1 .. n
  BY Zenon
<1>3. PICK f : f = [i \in D |-> list[i][1]]
  BY Zenon
<1>4. PICK g : g = [i \in D |-> list[i][2]]
  BY Zenon
<1>5. \A i \in D : i \in Nat /\ f[i] \in Nat /\ g[i] \in Nat
  BY <1>1, <1>2, <1>3, <1>4, SnapshotFields
<1>6. \A i, j \in D : Earlier(list, i, j) <=>
        f[i] < f[j] \/ (f[i] = f[j] /\ g[i] < g[j]) \/ (f[i] = f[j] /\ g[i] = g[j] /\ i <= j)
  <2>1. ASSUME NEW i \in D, NEW j \in D
        PROVE  list[i] = list[j] <=> f[i] = f[j] /\ g[i] = g[j]
    <3>1. list[i] = <<f[i], g[i]>> /\ list[j] = <<f[j], g[j]>>
      BY <1>1, <1>2, <1>3, <1>4, SnapshotFields
    <3> QED BY <3>1
  <2> QED BY <1>3, <1>4, <2>1, Zenon DEF Earlier
<1>7. PICK up : up = [i \in D |-> {j \in D : Earlier(list, j, i)}]
  BY Zenon
<1>8. \A i \in D : Place(list, i) = Cardinality(up[i])
  BY <1>1, <1>2, <1>7, Zenon DEF Place
<1>9. IsFiniteSet(D) /\ Cardinality(D) = n
  BY <1>2, FS_Interval
<1>10. \A i \in D : /\ up[i] \in SUBSET D /\ i \in up[i] /\ IsFiniteSet(up[i])
                    /\ Cardinality(up[i]) \in 1 .. n
  <2>1. ASSUME NEW i \in D
        PROVE  /\ up[i] \in SUBSET D /\ i \in up[i] /\ IsFiniteSet(up[i])
               /\ Cardinality(up[i]) \in 1 .. n
    <3>1. up[i] \in SUBSET D /\ i \in up[i]
      BY <1>5, <1>6, <1>7
    <3>2. IsFiniteSet(up[i]) /\ Cardinality(up[i]) <= n
      BY <1>9, <3>1, FS_Subset, Zenon
    <3>3. Cardinality(up[i]) \in Nat /\ Cardinality(up[i]) # 0
      BY <3>1, <3>2, FS_CardinalityType, FS_EmptySet, Zenon
    <3> QED BY <3>1, <3>2, <3>3
  <2> QED BY <2>1, Zenon
<1>11. ASSUME NEW i \in D, NEW j \in D, i # j, Earlier(list, i, j)
       PROVE  Cardinality(up[i]) # Cardinality(up[j])
  <2>1. ~Earlier(list, j, i)
    BY <1>5, <1>6, <1>11
  <2>2. ASSUME NEW k \in up[i] PROVE k \in up[j]
    <3>1. k \in D /\ Earlier(list, k, i)
      BY <1>7, <2>2, Zenon
    <3>2. Earlier(list, k, j)
      BY <1>5, <1>6, <1>11, <3>1, SMT, SMTT(30)
    <3> QED BY <1>7, <3>1, <3>2, Zenon
  <2>3. up[i] \in SUBSET up[j] /\ j \in up[j] /\ j \notin up[i]
    BY <1>7, <1>10, <2>1, <2>2, Zenon
  <2> QED BY <1>10, <2>3, FS_Subset, Zenon
<1>12. \A i, j \in D : i # j => Earlier(list, i, j) \/ Earlier(list, j, i)
  BY <1>5, <1>6
<1>13. PICK rank : rank = [i \in D |-> Cardinality(up[i])]
  BY Zenon
<1>14. rank \in Injection(D, 1 .. n)
  <2>1. rank \in [D -> 1 .. n]
    BY <1>10, <1>13, Zenon
  <2>2. \A i, j \in D : rank[i] = rank[j] => i = j
    BY <1>11, <1>12, <1>13, Zenon
  <2> QED BY <2>1, <2>2, Zenon DEF Injection, IsInjective
<1>15. rank \in Surjection(D, 1 .. n)
  BY <1>2, <1>9, <1>14, FS_Injection, Zenon
<1>16. \A k \in 1 .. n : \E i \in D : rank[i] = k
  BY <1>15, Zenon DEF Surjection
<1>17. ASSUME NEW k \in 1 .. n PROVE list[CHOOSE i \in DOMAIN list : Place(list, i) = k] \in Snapshots
  <2>1. \E i \in DOMAIN list : Place(list, i) = k
    <3>1. PICK i \in D : rank[i] = k
      BY <1>16, Zenon
    <3>2. Place(list, i) = k
      BY <1>8, <1>13, <3>1, Zenon
    <3>3. i \in DOMAIN list
      BY <1>1, <1>2, Zenon
    <3> QED BY <3>2, <3>3, Zenon
  <2>2. PICK c \in DOMAIN list : c = CHOOSE i \in DOMAIN list : Place(list, i) = k
    BY <2>1, Zenon
  <2> QED BY <2>2
<1>18. Ordered(list) \in [1 .. n -> Snapshots]
  BY <1>1, <1>17, Zenon DEF Ordered
<1> QED BY <1>18

\* list() returns the records, in some order.
LEMMA RetainedList ==
    ASSUME stored \in [Entries -> 0 .. LastStage]
    PROVE  Listed({<<e, stored[e]>> : e \in Entries}) \in Seq(Snapshots)
<1>1. PICK S : S = {<<e, stored[e]>> : e \in Entries}
  BY Zenon
<1>2. S \subseteq Snapshots
  BY <1>1 DEF Snapshots
<1>3. PICK f : f = [e \in Entries |-> <<e, stored[e]>>]
  BY Zenon
<1>4. f \in Surjection(Entries, S)
  <2>1. f \in [Entries -> S]
    BY <1>1, <1>3, Zenon
  <2>2. \A s \in S : \E e \in Entries : f[e] = s
    BY <1>1, <1>3, Zenon
  <2> QED BY <2>1, <2>2, Zenon DEF Surjection
<1>5. IsFiniteSet(S)
  BY <1>4, ObserverConstantsOK, FS_Surjection, Zenon
<1>6. Cardinality(S) \in Nat /\ ExistsBijection(1 .. Cardinality(S), S)
  BY <1>5, FS_CardinalityType, Zenon
<1>7. PICK n \in Nat : n = Cardinality(S)
  BY <1>6, Zenon
<1>8. Listed(S) \in Bijection(1 .. n, S)
  BY <1>6, <1>7, Zenon DEF ExistsBijection, Listed
<1>9. Listed(S) \in [1 .. n -> S]
  BY <1>8, Zenon DEF Bijection, Injection
<1>10. Listed(S) \in Seq(S)
  BY <1>9
<1> QED BY <1>1, <1>2, <1>10

LEMMA Queued ==
    ASSUME ObserverShapes, NEW d \in Deliveries, QueueEvent(d)
    PROVE  events' \in Seq(Deliveries) /\ Len(events') <= Capacity
<1>1. events \in Seq(Deliveries) /\ Len(events) <= Capacity /\ Capacity \in Nat /\ Len(events) \in Nat
  BY ObserverConstantsOK DEF ObserverShapes
<1>2. CASE Len(events) < Capacity
  <2>1. events' = Append(events, d)
    BY <1>2, Zenon DEF QueueEvent
  <2>2. Append(events, d) \in Seq(Deliveries) /\ Len(Append(events, d)) = Len(events) + 1
    BY <1>1
  <2> QED BY <1>1, <1>2, <2>1, <2>2
<1>3. CASE ~(Len(events) < Capacity)
  BY <1>1, <1>3, Zenon DEF QueueEvent
<1> QED BY <1>2, <1>3, Zenon

LEMMA Unregistered ==
    ASSUME ObserverShapes, NEW t \in Threads, Unregister(t)
    PROVE  /\ reg' \in [Threads -> Registrations(sequence)] /\ registrations' \in Seq(Threads)
           /\ ~reg'[t].active /\ reg'[t].initialising = reg[t].initialising
           /\ \A x \in Threads \ {t} : reg'[x] = reg[x]
<1>1. reg \in [Threads -> Registrations(sequence)] /\ registrations \in Seq(Threads)
  BY Zenon DEF ObserverShapes
<1>2. PICK new : new = [reg[t] EXCEPT !.active = FALSE]
  BY Zenon
<1>3. new \in Registrations(sequence) /\ ~new.active /\ new.initialising = reg[t].initialising
  BY <1>1, <1>2, Zenon DEF Registrations
<1>4. reg' = [reg EXCEPT ![t] = new]
  BY <1>2, Zenon DEF Unregister
<1>5. registrations' \in Seq(Threads)
  BY <1>1, KeepList, Zenon DEF Unregister
<1> QED BY <1>1, <1>3, <1>4, <1>5, Zenon

LEMMA GoesTo ==
    ASSUME ObserverShapes, NEW t \in Threads, NEW where \in RegistrarPlaces, Goto(t, where)
    PROVE  /\ registrar' \in [Threads -> [pc : RegistrarPlaces, batch : Seq(Snapshots)]]
           /\ registrar'[t].pc = where /\ \A x \in Threads \ {t} : registrar'[x] = registrar[x]
<1>1. registrar \in [Threads -> [pc : RegistrarPlaces, batch : Seq(Snapshots)]]
  BY Zenon DEF ObserverShapes
<1>2. PICK new : new = [registrar[t] EXCEPT !.pc = where]
  BY Zenon
<1>3. new \in [pc : RegistrarPlaces, batch : Seq(Snapshots)] /\ new.pc = where
  BY <1>1, <1>2, Zenon
<1>4. registrar' = [registrar EXCEPT ![t] = new]
  BY <1>2, Zenon DEF Goto
<1> QED BY <1>1, <1>3, <1>4, Zenon

\* The places of the other threads and what they made.
OthersStay(t) ==
    \A x \in Threads \ {t} : registrar'[x].pc = registrar[x].pc /\ reg'[x].active = reg[x].active

\* A step that neither moves a thread nor activates, stops or unsubscribes anything.
LEMMA SameActivation ==
    ASSUME ActivationInv, SilentInv, UNCHANGED <<decorated, unsubscribed>>,
           \A x \in Threads : registrar'[x].pc = registrar[x].pc /\ reg'[x].active = reg[x].active
    PROVE  ActivationInv' /\ SilentInv'
<1>1. Activators \subseteq Threads /\ unsubscribed \subseteq Threads
  BY Zenon DEF Threads, SilentInv
<1>2. ActivationInv'
  BY <1>1, Zenon DEF ActivationInv
<1>3. SilentInv'
  BY <1>1, Zenon DEF SilentInv
<1> QED BY <1>2, <1>3, Zenon

\* A registering thread goes on with its registration.
LEMMA HoldsOn ==
    ASSUME ActivationInv, SilentInv, UNCHANGED <<decorated, unsubscribed>>,
           NEW t \in Threads, OthersStay(t), registrar[t].pc \in Holding, registrar'[t].pc \in Holding,
           registrar'[t].pc # "register", registrar'[t].pc = "failed" => ~reg'[t].active,
           registrar'[t].pc \in {"finish", "failed"} => t \in Activators
    PROVE  ActivationInv' /\ SilentInv'
<1>1. Activators \subseteq Threads /\ unsubscribed \subseteq Threads
  BY Zenon DEF Threads, SilentInv
<1>2. "done" \notin Holding /\ "choose" \notin Holding /\ "undo" \notin Holding
  BY Zenon DEF Holding
<1>3. ASSUME NEW x \in Threads, registrar'[x].pc \in {"choose", "finish", "failed", "undo"}
      PROVE  x \in Activators
  <2>1. CASE x = t
    BY <1>2, <1>3, <2>1, Zenon
  <2>2. CASE x # t
    BY <1>3, <2>2, Zenon DEF OthersStay, ActivationInv
  <2> QED BY <2>1, <2>2, Zenon
<1>4. \A x \in Activators : registrar'[x].pc \in Holding <=> registrar[x].pc \in Holding
  BY <1>1, Zenon DEF OthersStay
<1>5. \A x \in Activators : registrar'[x].pc \in Holding =>
         /\ decorated'.activating /\ decorated'.subscription = {}
         /\ \A y \in Activators : registrar'[y].pc \in Holding => y = x
  BY <1>4, Zenon DEF ActivationInv
<1>6. \A x \in Activators : registrar'[x].pc = "undo" => x \in decorated'.subscription
  BY <1>1, <1>2, Zenon DEF ActivationInv, OthersStay
<1>7. ASSUME NEW x \in Activators, reg'[x].active
      PROVE  \/ registrar'[x].pc \in Holding \ {"register", "failed"}
             \/ registrar'[x].pc \in {"undo", "done"} /\ x \in decorated'.subscription
  <2>1. CASE x = t
    BY <1>7, <2>1, Zenon
  <2>2. CASE x # t
    BY <1>1, <1>7, <2>2, Zenon DEF OthersStay, ActivationInv
  <2> QED BY <2>1, <2>2, Zenon
<1>8. ActivationInv'
  BY <1>3, <1>5, <1>6, <1>7, Zenon DEF ActivationInv
<1>9. t \in unsubscribed => t \in Activators
  BY <1>2, Zenon DEF SilentInv
<1>10. \A x \in unsubscribed' : registrar'[x].pc = "done" => ~reg'[x].active
  BY <1>1, <1>2, Zenon DEF SilentInv, OthersStay
<1>11. \A x \in unsubscribed' : x \notin Activators => registrar'[x].pc = "done"
  BY <1>1, <1>9, Zenon DEF SilentInv, OthersStay
<1>12. \A x \in unsubscribed' \cap Activators :
          registrar'[x].pc \in Holding \/ decorated'.subscription = {} => decorated'.cancelled
  BY <1>4, Zenon DEF SilentInv
<1> QED BY <1>1, <1>8, <1>10, <1>11, <1>12, Zenon DEF SilentInv

\* The registration of a direct call is over.
LEMMA DirectDone ==
    ASSUME ActivationInv, SilentInv, UNCHANGED <<decorated, unsubscribed>>,
           NEW t \in Threads \ Activators, OthersStay(t), registrar[t].pc \in Holding,
           registrar'[t].pc = "done"
    PROVE  ActivationInv' /\ SilentInv'
<1>1. /\ Activators \subseteq Threads /\ unsubscribed \subseteq Threads
      /\ "done" \notin Holding /\ "done" \notin {"choose", "finish", "failed", "undo"}
  BY Zenon DEF Threads, SilentInv, Holding
<1>2. \A x \in Activators : registrar'[x].pc = registrar[x].pc /\ reg'[x].active = reg[x].active
  BY <1>1, Zenon DEF OthersStay
<1>3. ASSUME NEW x \in Threads, registrar'[x].pc \in {"choose", "finish", "failed", "undo"}
      PROVE  x \in Activators
  <2>1. x # t
    BY <1>1, <1>3, Zenon
  <2> QED BY <1>3, <2>1, Zenon DEF OthersStay, ActivationInv
<1>4. ActivationInv'
  BY <1>2, <1>3, Zenon DEF ActivationInv
<1>5. t \notin unsubscribed
  BY <1>1, Zenon DEF SilentInv
<1>6. \A x \in unsubscribed : registrar'[x].pc = registrar[x].pc /\ reg'[x].active = reg[x].active
  BY <1>1, <1>5, Zenon DEF OthersStay
<1>7. SilentInv'
  BY <1>6, Zenon DEF SilentInv
<1> QED BY <1>4, <1>7, Zenon

LEMMA ObserversSplit ==
    ASSUME ObserversInv
    PROVE  ObserverShapes /\ ActivationInv /\ SilentInv
  BY Zenon DEF ObserversInv

LEMMA RecordInv ==
    ASSUME ObserversInv, NEW e \in Entries, Record(e)
    PROVE  ObserversInv'
<1>1. /\ stored' = [stored EXCEPT ![e] = stored[e] + 1] /\ stored[e] < LastStage
      /\ UNCHANGED <<sequence, registrations, reg, events, publisher, registrar, decorated, times, unsubscribed>>
  BY Zenon DEF Record
<1>2. stored \in [Entries -> 0 .. LastStage] /\ LastStage \in Nat /\ publisher \in [Entries -> Publishers]
  BY ObserverConstantsOK, Zenon DEF ObserversInv, ObserverShapes
<1>3. stored' \in [Entries -> 0 .. LastStage] /\ \A x \in Entries : stored[x] <= stored'[x]
  BY <1>1, <1>2
<1>4. ASSUME NEW x \in Entries, publisher'[x].pc = "locked" PROVE publisher'[x].next <= stored'[x]
  <2>1. publisher[x].next <= stored[x] /\ publisher[x].next \in Nat
    BY <1>1, <1>2, <1>4, Zenon DEF ObserversInv, ObserverShapes, Publishers
  <2> QED BY <1>1, <1>2, <1>3, <2>1
<1>5. ObserverShapes'
  BY <1>1, <1>3, <1>4, Zenon DEF ObserversInv, ObserverShapes
<1>6. ActivationInv' /\ SilentInv'
  BY <1>1, SameActivation, Zenon DEF ObserversInv
<1> QED BY <1>5, <1>6, Zenon DEF ObserversInv

LEMMA PublishInv ==
    ASSUME ObserversInv, NEW e \in Entries, Publish(e)
    PROVE  ObserversInv'
<1>1. /\ sequence' = sequence + 1 /\ publisher[e].next <= stored[e]
      /\ UNCHANGED <<stored, registrations, events, registrar, decorated, times, unsubscribed>>
  BY Zenon DEF Publish
<1>2. /\ stored \in [Entries -> 0 .. LastStage] /\ sequence \in Nat /\ registrations \in Seq(Threads)
      /\ reg \in [Threads -> Registrations(sequence)] /\ publisher \in [Entries -> Publishers]
      /\ LastStage \in Nat
  BY ObserverConstantsOK, Zenon DEF ObserversInv, ObserverShapes
<1>3. PICK n \in Nat : n = publisher[e].next
  BY <1>2, Zenon DEF Publishers
<1>4. PICK s \in Snapshots : s = <<e, n>>
  <2>1. n \in 0 .. LastStage
    BY <1>1, <1>2, <1>3
  <2> QED BY <2>1, Zenon DEF Snapshots
<1>5. \A t \in Threads : /\ reg'[t] \in Registrations(sequence') /\ reg'[t].active = reg[t].active
                         /\ DOMAIN reg' = Threads
  <2>1. reg' = [t \in Threads |-> IF t \in Range(registrations) /\ reg[t].initialising
                   THEN [reg[t] EXCEPT !.pending = Append(reg[t].pending, s)] ELSE reg[t]]
    BY <1>3, <1>4, Zenon DEF Publish
  <2>2. ASSUME NEW t \in Threads
        PROVE  reg'[t] \in Registrations(sequence') /\ reg'[t].active = reg[t].active
    <3>1. PICK new : new = [reg[t] EXCEPT !.pending = Append(reg[t].pending, s)]
      BY Zenon
    <3>2. reg[t] \in Registrations(sequence') /\ reg[t] \in Registrations(sequence)
      <4>1. 0 .. sequence \subseteq 0 .. sequence'
        BY <1>1, <1>2
      <4> QED BY <1>2, <4>1, Zenon DEF Registrations
    <3>3. Append(reg[t].pending, s) \in Seq(Snapshots)
      BY <3>2 DEF Registrations
    <3>4. new \in Registrations(sequence') /\ new.active = reg[t].active
      BY <3>1, <3>2, <3>3, Zenon DEF Registrations
    <3>5. reg'[t] = new \/ reg'[t] = reg[t]
      BY <2>1, <3>1, Zenon
    <3> QED BY <3>2, <3>4, <3>5, Zenon
  <2> QED BY <2>1, <2>2, Zenon
<1>6. reg' \in [Threads -> Registrations(sequence')]
  <2>1. reg' = [t \in Threads |-> reg'[t]]
    BY Zenon DEF Publish
  <2> QED BY <1>5, <2>1, Zenon
<1>7. PICK new : new = [pc |-> "locked", next |-> n, seq |-> sequence', to |-> Range(registrations)]
  BY Zenon
<1>8. new \in Publishers /\ new.next = n
  <2>1. Range(registrations) \subseteq Threads
    BY <1>2 DEF Range
  <2> QED BY <1>1, <1>2, <1>7, <2>1 DEF Publishers
<1>9. publisher' = [publisher EXCEPT ![e] = new]
  BY <1>3, <1>7, Zenon DEF Publish
<1>10. publisher' \in [Entries -> Publishers]
  BY <1>2, <1>8, <1>9, Zenon
<1>11. \A x \in Entries : publisher'[x].pc = "locked" => publisher'[x].next <= stored'[x]
  BY <1>1, <1>2, <1>3, <1>8, <1>9, Zenon DEF ObserversInv, ObserverShapes
<1>12. ObserverShapes'
  BY <1>1, <1>2, <1>6, <1>10, <1>11, SMT, SMTT(30) DEF ObserversInv, ObserverShapes
<1>13. ActivationInv' /\ SilentInv'
  BY <1>1, <1>5, SameActivation, Zenon DEF ObserversInv
<1> QED BY <1>12, <1>13, Zenon DEF ObserversInv

LEMMA PublishQueueInv ==
    ASSUME ObserversInv, NEW e \in Entries, PublishQueue(e)
    PROVE  ObserversInv'
<1>1. /\ publisher[e].pc = "locked"
      /\ UNCHANGED <<stored, sequence, registrations, reg, registrar, decorated, times, unsubscribed>>
  BY Zenon DEF PublishQueue
<1>2. /\ stored \in [Entries -> 0 .. LastStage] /\ publisher \in [Entries -> Publishers]
      /\ LastStage \in Nat /\ ObserverShapes
  BY ObserverConstantsOK, Zenon DEF ObserversInv, ObserverShapes
<1>3. PICK n \in Nat : n = publisher[e].next /\ n <= stored[e]
  BY <1>1, <1>2, Zenon DEF Publishers, ObserverShapes
<1>4. PICK d : d = [snapshot |-> <<e, n>>, target |-> Everyone, sequence |-> publisher[e].seq]
  BY Zenon
<1>5. d \in Deliveries
  <2>1. n \in 0 .. LastStage
    BY <1>2, <1>3
  <2>2. <<e, n>> \in Snapshots /\ publisher[e].seq \in Nat
    BY <1>2, <2>1, Zenon DEF Snapshots, Publishers
  <2> QED BY <1>4, <2>2, Zenon DEF Deliveries
<1>6. events' \in Seq(Deliveries) /\ Len(events') <= Capacity
  <2>1. CASE QueueEvent(d)
    BY <1>2, <1>5, <2>1, Queued, Zenon
  <2>2. CASE events' = events
    BY <1>2, <2>2, Zenon DEF ObserverShapes
  <2> QED BY <1>3, <1>4, <2>1, <2>2, Zenon DEF PublishQueue
<1>7. PICK new : new = [publisher[e] EXCEPT !.pc = "idle", !.next = n + 1]
  BY Zenon
<1>8. new \in Publishers /\ new.pc = "idle"
  <2>1. publisher[e] \in Publishers /\ n + 1 \in Nat
    BY <1>2
  <2> QED BY <1>7, <2>1, Zenon DEF Publishers
<1>9. publisher' = [publisher EXCEPT ![e] = new]
  BY <1>2, <1>3, <1>7, Zenon DEF PublishQueue
<1>10. publisher' \in [Entries -> Publishers]
  BY <1>2, <1>8, <1>9, Zenon
<1>11. \A x \in Entries : publisher'[x].pc = "locked" => publisher'[x].next <= stored'[x]
  BY <1>1, <1>2, <1>8, <1>9, Zenon DEF ObserverShapes
<1>12. ObserverShapes'
  BY <1>1, <1>2, <1>6, <1>10, <1>11, Zenon DEF ObserverShapes
<1>13. ActivationInv' /\ SilentInv'
  BY <1>1, SameActivation, Zenon DEF ObserversInv
<1> QED BY <1>12, <1>13, Zenon DEF ObserversInv

\* _activate_pending_for: one thread at most gets past the flag.
LEMMA ChooseInv ==
    ASSUME ObserversInv, NEW t \in Threads, Choose(t)
    PROVE  ObserversInv'
<1>1. /\ registrar[t].pc = "choose"
      /\ UNCHANGED <<stored, sequence, registrations, reg, events, publisher, times, unsubscribed>>
      /\ ObserverShapes /\ ActivationInv /\ SilentInv
  BY ObserversSplit, Zenon DEF Choose
<1>2. /\ Activators \subseteq Threads /\ unsubscribed \subseteq Threads /\ t \in Activators
      /\ "choose" \notin Holding /\ "done" \notin Holding /\ "register" \in Holding
      /\ {"done", "register"} \subseteq RegistrarPlaces
      /\ decorated \in Decorations /\ ~reg[t].active
  BY <1>1, Zenon DEF Threads, SilentInv, ActivationInv, Holding, RegistrarPlaces, ObserverShapes
<1>3. CASE decorated.cancelled \/ decorated.activating \/ decorated.subscription # {}
  <2>1. Goto(t, "done") /\ decorated' = decorated
    BY <1>3, Zenon DEF Choose
  <2>2. /\ registrar' \in [Threads -> [pc : RegistrarPlaces, batch : Seq(Snapshots)]]
        /\ registrar'[t].pc = "done" /\ \A x \in Threads \ {t} : registrar'[x] = registrar[x]
    BY <1>1, <1>2, <2>1, GoesTo, Zenon
  <2>3. ObserverShapes'
    BY <1>1, <2>1, <2>2, Zenon DEF ObserverShapes
  <2>4. ActivationInv'
    <3>1. \A x \in Threads : registrar'[x].pc \in {"choose", "finish", "failed", "undo"} =>
             registrar[x].pc \in {"choose", "finish", "failed", "undo"}
      BY <2>2, Zenon
    <3>2. \A x \in Activators : registrar'[x].pc \in Holding => registrar[x].pc \in Holding
      BY <1>2, <2>2, Zenon
    <3>3. \A x \in Activators : registrar'[x].pc = "undo" => registrar[x].pc = "undo"
      BY <1>2, <2>2, Zenon
    <3>4. \A x \in Activators : reg'[x].active => reg[x].active /\ registrar'[x].pc = registrar[x].pc
      BY <1>1, <1>2, <2>2, Zenon
    <3> QED BY <1>1, <2>1, <3>1, <3>2, <3>3, <3>4, Zenon DEF ActivationInv
  <2>5. SilentInv'
    <3>1. \A x \in unsubscribed : registrar'[x].pc = "done" => ~reg'[x].active
      BY <1>1, <1>2, <2>2, Zenon DEF SilentInv
    <3>2. \A x \in unsubscribed : x \notin Activators => registrar'[x].pc = "done"
      BY <1>1, <1>2, <2>2, Zenon DEF SilentInv
    <3>3. \A x \in unsubscribed : registrar'[x].pc \in Holding => registrar[x].pc \in Holding
      BY <1>2, <2>2, Zenon
    <3> QED BY <1>1, <1>2, <2>1, <3>1, <3>2, <3>3, Zenon DEF SilentInv
  <2> QED BY <2>3, <2>4, <2>5, Zenon DEF ObserversInv
<1>4. CASE ~(decorated.cancelled \/ decorated.activating \/ decorated.subscription # {})
  <2>1. Goto(t, "register") /\ decorated' = [decorated EXCEPT !.activating = TRUE]
    BY <1>4, Zenon DEF Choose
  <2>2. /\ decorated' \in Decorations /\ decorated'.activating
        /\ decorated'.subscription = {} /\ decorated'.cancelled = decorated.cancelled
    BY <1>2, <1>4, <2>1, Zenon DEF Decorations
  <2>3. /\ registrar' \in [Threads -> [pc : RegistrarPlaces, batch : Seq(Snapshots)]]
        /\ registrar'[t].pc = "register" /\ \A x \in Threads \ {t} : registrar'[x] = registrar[x]
    BY <1>1, <1>2, <2>1, GoesTo, Zenon
  <2>4. ObserverShapes'
    BY <1>1, <2>2, <2>3, Zenon DEF ObserverShapes
  <2>5. \A x \in Activators : registrar[x].pc \notin Holding
    BY <1>1, <1>4, Zenon DEF ActivationInv
  <2>6. ActivationInv'
    <3>1. \A x \in Threads : registrar'[x].pc \in {"choose", "finish", "failed", "undo"} => x \in Activators
      BY <1>1, <1>2, <2>3, Zenon DEF ActivationInv
    <3>2. \A x \in Activators : registrar'[x].pc \in Holding => x = t
      BY <1>2, <2>3, <2>5, Zenon
    <3>3. \A x \in Activators : registrar'[x].pc # "undo"
      BY <1>1, <1>2, <1>4, <2>3, Zenon DEF ActivationInv
    <3>4. \A x \in Activators : ~reg'[x].active
      BY <1>1, <1>4, <2>5, Zenon DEF ActivationInv
    <3> QED BY <2>2, <3>1, <3>2, <3>3, <3>4, Zenon DEF ActivationInv
  <2>7. SilentInv'
    <3>1. \A x \in unsubscribed : x \notin Activators
      BY <1>1, <1>4, Zenon DEF SilentInv
    <3>2. \A x \in unsubscribed : registrar'[x] = registrar[x]
      BY <1>2, <2>3, <3>1, Zenon
    <3> QED BY <1>1, <3>1, <3>2, Zenon DEF SilentInv
  <2> QED BY <2>4, <2>6, <2>7, Zenon DEF ObserversInv
<1> QED BY <1>3, <1>4, Zenon

LEMMA RegisterInv ==
    ASSUME ObserversInv, NEW t \in Threads, Register(t)
    PROVE  ObserversInv'
<1>1. /\ registrar[t].pc = "register" /\ Goto(t, "list") /\ registrations' = Append(registrations, t)
      /\ UNCHANGED <<stored, sequence, events, publisher, decorated, times, unsubscribed>>
      /\ ObserverShapes /\ ActivationInv /\ SilentInv
  BY ObserversSplit, Zenon DEF Register
<1>2. reg \in [Threads -> Registrations(sequence)] /\ registrations \in Seq(Threads) /\ sequence \in Nat
  BY <1>1, Zenon DEF ObserverShapes
<1>3. PICK new : new = [reg[t] EXCEPT !.active = TRUE, !.started = sequence]
  BY Zenon
<1>4. new \in Registrations(sequence)
  <2>1. reg[t] \in Registrations(sequence) /\ sequence \in 0 .. sequence
    BY <1>2
  <2> QED BY <1>3, <2>1, Zenon DEF Registrations
<1>5. reg' = [reg EXCEPT ![t] = new]
  BY <1>2, <1>3, Zenon DEF Register
<1>6. reg' \in [Threads -> Registrations(sequence)] /\ \A x \in Threads \ {t} : reg'[x] = reg[x]
  BY <1>2, <1>4, <1>5, Zenon
<1>7. /\ registrar' \in [Threads -> [pc : RegistrarPlaces, batch : Seq(Snapshots)]]
      /\ registrar'[t].pc = "list" /\ \A x \in Threads \ {t} : registrar'[x] = registrar[x]
  <2>1. "list" \in RegistrarPlaces
    BY Zenon DEF RegistrarPlaces
  <2> QED BY <1>1, <2>1, GoesTo, Zenon
<1>8. registrations' \in Seq(Threads)
  BY <1>1, <1>2, SMT, SMTT(30)
<1>9. ObserverShapes'
  BY <1>1, <1>6, <1>7, <1>8, Zenon DEF ObserverShapes
<1>10. ActivationInv' /\ SilentInv'
  <2>1. OthersStay(t) /\ registrar[t].pc \in Holding /\ registrar'[t].pc \in Holding
    BY <1>1, <1>6, <1>7, Zenon DEF OthersStay, Holding
  <2> QED BY <1>1, <1>7, <2>1, HoldsOn, Zenon
<1> QED BY <1>9, <1>10, Zenon DEF ObserversInv

LEMMA ListInv ==
    ASSUME ObserversInv, NEW t \in Threads, List(t)
    PROVE  ObserversInv'
<1>1. /\ registrar[t].pc = "list"
      /\ UNCHANGED <<stored, sequence, registrations, reg, events, publisher, decorated, times, unsubscribed>>
      /\ ObserverShapes /\ ActivationInv /\ SilentInv
  BY ObserversSplit, Zenon DEF List
<1>2. /\ registrar \in [Threads -> [pc : RegistrarPlaces, batch : Seq(Snapshots)]]
      /\ stored \in [Entries -> 0 .. LastStage]
  BY <1>1, Zenon DEF ObserverShapes
<1>3. PICK list \in Seq(Snapshots) : list = Listed({<<e, stored[e]>> : e \in Entries})
  <2>1. Listed({<<e, stored[e]>> : e \in Entries}) \in Seq(Snapshots)
    BY <1>2, RetainedList, Zenon
  <2> QED BY <2>1, Zenon
<1>4. PICK new : new = [registrar[t] EXCEPT !.pc = "activate", !.batch = list]
  BY Zenon
<1>5. new \in [pc : RegistrarPlaces, batch : Seq(Snapshots)] /\ new.pc = "activate"
  <2>1. registrar[t] \in [pc : RegistrarPlaces, batch : Seq(Snapshots)]
    BY <1>2, Zenon
  <2>2. "activate" \in RegistrarPlaces
    BY Zenon DEF RegistrarPlaces
  <2> QED BY <1>3, <1>4, <2>1, <2>2, Zenon
<1>6. registrar' = [registrar EXCEPT ![t] = new]
  <2>1. registrar' = [registrar EXCEPT ![t].pc = "activate", ![t].batch = list]
    BY <1>3, Zenon DEF List
  <2> QED BY <1>2, <1>4, <2>1, ZenonT(30)
<1>7. /\ registrar' \in [Threads -> [pc : RegistrarPlaces, batch : Seq(Snapshots)]]
      /\ registrar'[t].pc = "activate" /\ \A x \in Threads \ {t} : registrar'[x] = registrar[x]
  BY <1>2, <1>5, <1>6, Zenon
<1>8. ObserverShapes'
  BY <1>1, <1>7, Zenon DEF ObserverShapes
<1>9. ActivationInv' /\ SilentInv'
  <2>1. OthersStay(t) /\ registrar[t].pc \in Holding /\ registrar'[t].pc \in Holding
    BY <1>1, <1>7, Zenon DEF OthersStay, Holding
  <2> QED BY <1>1, <1>7, <2>1, HoldsOn, Zenon
<1> QED BY <1>8, <1>9, Zenon DEF ObserversInv

LEMMA ListFailsInv ==
    ASSUME ObserversInv, NEW t \in Threads, ListFails(t)
    PROVE  ObserversInv'
<1>1. /\ registrar[t].pc = "list" /\ Unregister(t)
      /\ UNCHANGED <<stored, sequence, events, publisher, decorated, times, unsubscribed>>
      /\ ObserverShapes /\ ActivationInv /\ SilentInv
  BY ObserversSplit, Zenon DEF ListFails
<1>2. PICK where : where = IF t \in Activators THEN "failed" ELSE "done"
  BY Zenon
<1>3. where \in RegistrarPlaces /\ Goto(t, where)
  <2>1. where \in RegistrarPlaces
    BY <1>2, Zenon DEF RegistrarPlaces
  <2>2. Goto(t, where)
    BY <1>2, Zenon DEF ListFails, Goto
  <2> QED BY <2>1, <2>2, Zenon
<1>4. /\ registrar' \in [Threads -> [pc : RegistrarPlaces, batch : Seq(Snapshots)]]
      /\ registrar'[t].pc = where /\ \A x \in Threads \ {t} : registrar'[x] = registrar[x]
  BY <1>1, <1>3, GoesTo, Zenon
<1>5. /\ reg' \in [Threads -> Registrations(sequence)] /\ registrations' \in Seq(Threads)
      /\ ~reg'[t].active /\ \A x \in Threads \ {t} : reg'[x] = reg[x]
  BY <1>1, Unregistered, Zenon
<1>6. ObserverShapes'
  BY <1>1, <1>4, <1>5, Zenon DEF ObserverShapes
<1>7. OthersStay(t) /\ registrar[t].pc \in Holding /\ "failed" \in Holding
  BY <1>1, <1>4, <1>5, Zenon DEF OthersStay, Holding
<1>8. CASE t \in Activators
  <2>1. registrar'[t].pc = "failed"
    BY <1>2, <1>4, <1>8, Zenon
  <2>2. ActivationInv' /\ SilentInv'
    BY <1>1, <1>5, <1>7, <1>8, <2>1, HoldsOn, Zenon
  <2> QED BY <1>6, <2>2, Zenon DEF ObserversInv
<1>9. CASE t \notin Activators
  <2>1. registrar'[t].pc = "done"
    BY <1>2, <1>4, <1>9, Zenon
  <2>2. ActivationInv' /\ SilentInv'
    BY <1>1, <1>7, <1>9, <2>1, DirectDone, Zenon
  <2> QED BY <1>6, <2>2, Zenon DEF ObserversInv
<1> QED BY <1>8, <1>9, Zenon

\* The activating thread ends without a registration, and keeps the flag.
LEMMA AnotherFailsInv ==
    ASSUME ObserversInv, NEW t \in Threads, AnotherFails(t)
    PROVE  ObserversInv'
<1>1. /\ registrar[t].pc = "register" /\ t \in Activators /\ Goto(t, "done")
      /\ UNCHANGED <<stored, sequence, registrations, reg, events, publisher, decorated, times, unsubscribed>>
      /\ ObserverShapes /\ ActivationInv /\ SilentInv
  BY ObserversSplit, Zenon DEF AnotherFails
<1>2. /\ Activators \subseteq Threads /\ unsubscribed \subseteq Threads
      /\ "done" \in RegistrarPlaces /\ "done" \notin Holding
  BY <1>1, Zenon DEF Threads, SilentInv, RegistrarPlaces, Holding
<1>3. /\ registrar' \in [Threads -> [pc : RegistrarPlaces, batch : Seq(Snapshots)]]
      /\ registrar'[t].pc = "done" /\ \A x \in Threads \ {t} : registrar'[x] = registrar[x]
  BY <1>1, <1>2, GoesTo, Zenon
<1>4. ObserverShapes'
  BY <1>1, <1>3, Zenon DEF ObserverShapes
<1>5. ~reg[t].active
  BY <1>1, Zenon DEF ActivationInv
<1>6. ActivationInv'
  <2>1. \A x \in Threads : registrar'[x].pc \in {"choose", "finish", "failed", "undo"} => x \in Activators
    BY <1>1, <1>3, Zenon DEF ActivationInv
  <2>2. \A x \in Activators : registrar'[x].pc \in Holding => registrar[x].pc \in Holding
    BY <1>2, <1>3, Zenon
  <2>3. \A x \in Activators : registrar'[x].pc = "undo" => registrar[x].pc = "undo"
    BY <1>2, <1>3, Zenon
  <2>4. \A x \in Activators : reg'[x].active => reg[x].active /\ registrar'[x].pc = registrar[x].pc
    BY <1>1, <1>2, <1>3, <1>5, Zenon
  <2> QED BY <1>1, <2>1, <2>2, <2>3, <2>4, Zenon DEF ActivationInv
<1>7. SilentInv'
  <2>1. \A x \in unsubscribed : registrar'[x].pc = "done" => ~reg'[x].active
    BY <1>1, <1>2, <1>3, <1>5, Zenon DEF SilentInv
  <2>2. \A x \in unsubscribed : x \notin Activators => registrar'[x].pc = "done"
    BY <1>1, <1>2, <1>3, Zenon DEF SilentInv
  <2>3. \A x \in unsubscribed : registrar'[x].pc \in Holding => registrar[x].pc \in Holding
    BY <1>2, <1>3, Zenon
  <2> QED BY <1>1, <1>2, <2>1, <2>2, <2>3, Zenon DEF SilentInv
<1> QED BY <1>4, <1>6, <1>7, Zenon DEF ObserversInv

LEMMA ActivateInv ==
    ASSUME ObserversInv, NEW t \in Threads, Activate(t)
    PROVE  ObserversInv'
<1>1. /\ registrar[t].pc = "activate"
      /\ UNCHANGED <<stored, sequence, registrations, events, publisher, decorated, times, unsubscribed>>
      /\ ObserverShapes /\ ActivationInv /\ SilentInv
  BY ObserversSplit, Zenon DEF Activate
<1>2. /\ registrar \in [Threads -> [pc : RegistrarPlaces, batch : Seq(Snapshots)]]
      /\ reg \in [Threads -> Registrations(sequence)] /\ sequence \in Nat
  BY <1>1, Zenon DEF ObserverShapes
<1>3. registrar[t].batch \in Seq(Snapshots) /\ reg[t].pending \in Seq(Snapshots)
  BY <1>2, Zenon DEF Registrations
<1>4. PICK list \in Seq(Snapshots) : list = Ordered(registrar[t].batch \o reg[t].pending)
  <2>1. registrar[t].batch \o reg[t].pending \in Seq(Snapshots)
    BY <1>3
  <2>2. Ordered(registrar[t].batch \o reg[t].pending) \in Seq(Snapshots)
    BY <2>1, OrderedList, Zenon
  <2> QED BY <2>2, Zenon
<1>5. PICK new : new = [registrar[t] EXCEPT !.pc = "queue", !.batch = list]
  BY Zenon
<1>6. new \in [pc : RegistrarPlaces, batch : Seq(Snapshots)] /\ new.pc = "queue"
  <2>1. registrar[t] \in [pc : RegistrarPlaces, batch : Seq(Snapshots)]
    BY <1>2, Zenon
  <2>2. "queue" \in RegistrarPlaces
    BY Zenon DEF RegistrarPlaces
  <2> QED BY <1>4, <1>5, <2>1, <2>2, Zenon
<1>7. registrar' = [registrar EXCEPT ![t] = new]
  <2>1. registrar' = [registrar EXCEPT ![t].pc = "queue", ![t].batch = list]
    BY <1>4, Zenon DEF Activate
  <2> QED BY <1>2, <1>5, <2>1, Zenon
<1>8. /\ registrar' \in [Threads -> [pc : RegistrarPlaces, batch : Seq(Snapshots)]]
      /\ registrar'[t].pc = "queue" /\ \A x \in Threads \ {t} : registrar'[x] = registrar[x]
  BY <1>2, <1>6, <1>7, Zenon
<1>9. PICK r : r = [reg[t] EXCEPT !.pending = <<>>, !.initialising = FALSE, !.bootstrapped = sequence]
  BY Zenon
<1>10. r \in Registrations(sequence) /\ r.active = reg[t].active
  <2>1. reg[t] \in Registrations(sequence) /\ sequence \in 0 .. sequence /\ <<>> \in Seq(Snapshots)
    BY <1>2
  <2> QED BY <1>9, <2>1, Zenon DEF Registrations
<1>11. reg' = [reg EXCEPT ![t] = r]
  BY <1>2, <1>9, Zenon DEF Activate
<1>12. /\ reg' \in [Threads -> Registrations(sequence)]
       /\ \A x \in Threads \ {t} : reg'[x] = reg[x]
  BY <1>2, <1>10, <1>11, Zenon
<1>13. ObserverShapes'
  BY <1>1, <1>8, <1>12, Zenon DEF ObserverShapes
<1>14. ActivationInv' /\ SilentInv'
  <2>1. OthersStay(t) /\ registrar[t].pc \in Holding /\ registrar'[t].pc \in Holding
    BY <1>1, <1>8, <1>12, Zenon DEF OthersStay, Holding
  <2> QED BY <1>1, <1>8, <2>1, HoldsOn, Zenon
<1> QED BY <1>13, <1>14, Zenon DEF ObserversInv

LEMMA QueueBatchInv ==
    ASSUME ObserversInv, NEW t \in Threads, QueueBatch(t)
    PROVE  ObserversInv'
<1>1. /\ registrar[t].pc = "queue"
      /\ UNCHANGED <<stored, sequence, registrations, reg, publisher, decorated, times, unsubscribed>>
      /\ ObserverShapes /\ ActivationInv /\ SilentInv
  BY ObserversSplit, Zenon DEF QueueBatch
<1>2. /\ registrar \in [Threads -> [pc : RegistrarPlaces, batch : Seq(Snapshots)]]
      /\ "queue" \in Holding /\ "finish" \in Holding
  BY <1>1, Zenon DEF ObserverShapes, Holding
<1>3. CASE registrar[t].batch = <<>>
  <2>1. PICK where : where = IF t \in Activators THEN "finish" ELSE "done"
    BY Zenon
  <2>2. where \in RegistrarPlaces /\ Goto(t, where) /\ events' = events
    <3>1. where \in RegistrarPlaces
      BY <2>1, Zenon DEF RegistrarPlaces
    <3>2. Goto(t, where) /\ events' = events
      BY <1>3, <2>1, Zenon DEF QueueBatch
    <3> QED BY <3>1, <3>2, Zenon
  <2>3. /\ registrar' \in [Threads -> [pc : RegistrarPlaces, batch : Seq(Snapshots)]]
        /\ registrar'[t].pc = where /\ \A x \in Threads \ {t} : registrar'[x] = registrar[x]
    BY <1>1, <2>2, GoesTo, Zenon
  <2>4. ObserverShapes'
    BY <1>1, <2>2, <2>3, Zenon DEF ObserverShapes
  <2>5. OthersStay(t)
    BY <1>1, <2>3, Zenon DEF OthersStay
  <2>6. CASE t \in Activators
    <3>1. registrar'[t].pc = "finish"
      BY <2>1, <2>3, <2>6, Zenon
    <3>2. ActivationInv' /\ SilentInv'
      BY <1>1, <1>2, <2>5, <2>6, <3>1, HoldsOn, Zenon
    <3> QED BY <2>4, <3>2, Zenon DEF ObserversInv
  <2>7. CASE t \notin Activators
    <3>1. registrar'[t].pc = "done"
      BY <2>1, <2>3, <2>7, Zenon
    <3>2. ActivationInv' /\ SilentInv'
      BY <1>1, <1>2, <2>5, <2>7, <3>1, DirectDone, Zenon
    <3> QED BY <2>4, <3>2, Zenon DEF ObserversInv
  <2> QED BY <2>6, <2>7, Zenon
<1>4. CASE registrar[t].batch # <<>>
  <2>1. PICK b \in Seq(Snapshots) : b = registrar[t].batch /\ b # <<>>
    BY <1>2, <1>4, Zenon
  <2>2. PICK d : d = [snapshot |-> Head(b), target |-> t, sequence |-> 0]
    BY Zenon
  <2>3. d \in Deliveries
    <3>1. Head(b) \in Snapshots
      BY <2>1
    <3> QED BY <2>2, <3>1, Zenon DEF Deliveries
  <2>4. QueueEvent(d) /\ registrar' = [registrar EXCEPT ![t].batch = Tail(b)]
    BY <1>4, <2>1, <2>2, Zenon DEF QueueBatch
  <2>5. events' \in Seq(Deliveries) /\ Len(events') <= Capacity
    BY <1>1, <2>3, <2>4, Queued, Zenon
  <2>6. PICK new : new = [registrar[t] EXCEPT !.batch = Tail(b)]
    BY Zenon
  <2>7. new \in [pc : RegistrarPlaces, batch : Seq(Snapshots)] /\ new.pc = registrar[t].pc
    <3>1. registrar[t] \in [pc : RegistrarPlaces, batch : Seq(Snapshots)] /\ Tail(b) \in Seq(Snapshots)
      BY <1>2, <2>1
    <3> QED BY <2>6, <3>1, Zenon
  <2>8. /\ registrar' \in [Threads -> [pc : RegistrarPlaces, batch : Seq(Snapshots)]]
        /\ \A x \in Threads : registrar'[x].pc = registrar[x].pc
    BY <1>2, <2>4, <2>6, <2>7, Zenon
  <2>9. ObserverShapes'
    BY <1>1, <2>5, <2>8, Zenon DEF ObserverShapes
  <2>10. ActivationInv' /\ SilentInv'
    BY <1>1, <2>8, SameActivation, Zenon
  <2> QED BY <2>9, <2>10, Zenon DEF ObserversInv
<1> QED BY <1>3, <1>4, Zenon

\* _activate_pending_for, the finally clause: the flag goes, and the registration
\* becomes the subscription.
LEMMA FinishInv ==
    ASSUME ObserversInv, NEW t \in Threads, Finish(t)
    PROVE  ObserversInv'
<1>1. /\ registrar[t].pc \in {"finish", "failed"}
      /\ UNCHANGED <<stored, sequence, registrations, reg, events, publisher, times, unsubscribed>>
      /\ ObserverShapes /\ ActivationInv /\ SilentInv
  BY ObserversSplit, Zenon DEF Finish
<1>2. /\ Activators \subseteq Threads /\ unsubscribed \subseteq Threads /\ t \in Activators
      /\ registrar[t].pc \in Holding /\ decorated \in Decorations
      /\ "done" \notin Holding /\ "undo" \notin Holding
  BY <1>1, Zenon DEF Threads, SilentInv, ActivationInv, Holding, ObserverShapes
<1>3. /\ decorated.subscription = {}
      /\ \A x \in Activators : registrar[x].pc \in Holding => x = t
      /\ \A x \in Activators : registrar[x].pc # "undo"
      /\ \A x \in Activators \ {t} : ~reg[x].active
  BY <1>1, <1>2, Zenon DEF ActivationInv
<1>4. PICK where \in {"undo", "done"} :
         /\ Goto(t, where)
         /\ where = IF registrar[t].pc = "finish" /\ decorated.cancelled THEN "undo" ELSE "done"
  BY Zenon DEF Finish
<1>5. /\ registrar' \in [Threads -> [pc : RegistrarPlaces, batch : Seq(Snapshots)]]
      /\ registrar'[t].pc = where /\ \A x \in Threads \ {t} : registrar'[x] = registrar[x]
  <2>1. where \in RegistrarPlaces
    BY <1>4, Zenon DEF RegistrarPlaces
  <2> QED BY <1>1, <1>4, <2>1, GoesTo, Zenon
<1>6. \A x \in Activators : registrar'[x].pc \notin Holding
  BY <1>2, <1>3, <1>4, <1>5, Zenon
<1>7. \A x \in Threads : registrar'[x].pc \in {"choose", "finish", "failed", "undo"} => x \in Activators
  BY <1>1, <1>2, <1>5, Zenon DEF ActivationInv
<1>8. \A x \in unsubscribed : x \notin Activators => registrar'[x].pc = "done"
  BY <1>1, <1>2, <1>5, Zenon DEF SilentInv
<1>9. CASE registrar[t].pc = "finish"
  <2>1. decorated' = [decorated EXCEPT !.activating = FALSE, !.subscription = {t}]
    BY <1>9, Zenon DEF Finish
  <2>2. decorated' \in Decorations /\ decorated'.subscription = {t}
    BY <1>2, <2>1, Zenon DEF Decorations
  <2>3. ObserverShapes'
    BY <1>1, <1>5, <2>2, Zenon DEF ObserverShapes
  <2>4. ActivationInv'
    <3>1. \A x \in Activators : registrar'[x].pc = "undo" => x = t
      BY <1>2, <1>3, <1>5, Zenon
    <3>2. ASSUME NEW x \in Activators, reg'[x].active PROVE x = t /\ registrar'[x].pc \in {"undo", "done"}
      BY <1>1, <1>3, <1>4, <1>5, <3>2, Zenon
    <3> QED BY <1>6, <1>7, <2>2, <3>1, <3>2, Zenon DEF ActivationInv
  <2>5. ASSUME NEW x \in unsubscribed, registrar'[x].pc = "done" PROVE ~reg[x].active
    <3>1. CASE x = t
      <4>1. decorated.cancelled
        BY <1>1, <1>2, <2>5, <3>1, Zenon DEF SilentInv
      <4>2. where = "undo"
        BY <1>4, <1>9, <4>1, Zenon
      <4> QED BY <1>5, <2>5, <3>1, <4>2, Zenon
    <3>2. CASE x # t
      BY <1>1, <1>2, <1>5, <2>5, <3>2, Zenon DEF SilentInv
    <3> QED BY <3>1, <3>2, Zenon
  <2>6. SilentInv'
    BY <1>1, <1>2, <1>6, <1>8, <2>2, <2>5, Zenon DEF SilentInv
  <2> QED BY <2>3, <2>4, <2>6, Zenon DEF ObserversInv
<1>10. CASE registrar[t].pc = "failed"
  <2>1. decorated' = [decorated EXCEPT !.activating = FALSE, !.subscription = {}]
    BY <1>3, <1>10, Zenon DEF Finish
  <2>2. decorated' \in Decorations /\ decorated'.subscription = {} /\ decorated'.cancelled = decorated.cancelled
    BY <1>2, <2>1, Zenon DEF Decorations
  <2>3. ObserverShapes'
    BY <1>1, <1>5, <2>2, Zenon DEF ObserverShapes
  <2>4. ~reg[t].active /\ where = "done"
    BY <1>1, <1>2, <1>3, <1>4, <1>10, Zenon DEF ActivationInv
  <2>5. ActivationInv'
    <3>1. \A x \in Activators : registrar'[x].pc # "undo"
      BY <1>2, <1>3, <1>5, <2>4, Zenon
    <3>2. \A x \in Activators : ~reg'[x].active
      BY <1>1, <1>3, <2>4, Zenon
    <3> QED BY <1>6, <1>7, <2>2, <3>1, <3>2, Zenon DEF ActivationInv
  <2>6. SilentInv'
    <3>1. \A x \in unsubscribed : registrar'[x].pc = "done" => ~reg'[x].active
      BY <1>1, <1>2, <1>5, <2>4, Zenon DEF SilentInv
    <3>2. \A x \in unsubscribed \cap Activators : decorated'.cancelled
      BY <1>1, <1>3, <2>2, Zenon DEF SilentInv
    <3> QED BY <1>1, <1>2, <1>8, <3>1, <3>2, Zenon DEF SilentInv
  <2> QED BY <2>3, <2>5, <2>6, Zenon DEF ObserversInv
<1> QED BY <1>1, <1>9, <1>10, Zenon

LEMMA UndoInv ==
    ASSUME ObserversInv, NEW t \in Threads, Undo(t)
    PROVE  ObserversInv'
<1>1. /\ registrar[t].pc = "undo" /\ Unregister(t) /\ Goto(t, "done")
      /\ UNCHANGED <<stored, sequence, events, publisher, decorated, times, unsubscribed>>
      /\ ObserverShapes /\ ActivationInv /\ SilentInv
  BY ObserversSplit, Zenon DEF Undo
<1>2. /\ Activators \subseteq Threads /\ unsubscribed \subseteq Threads /\ t \in Activators
      /\ "done" \in RegistrarPlaces /\ "done" \notin Holding
  BY <1>1, Zenon DEF Threads, SilentInv, ActivationInv, RegistrarPlaces, Holding
<1>3. /\ registrar' \in [Threads -> [pc : RegistrarPlaces, batch : Seq(Snapshots)]]
      /\ registrar'[t].pc = "done" /\ \A x \in Threads \ {t} : registrar'[x] = registrar[x]
  BY <1>1, <1>2, GoesTo, Zenon
<1>4. /\ reg' \in [Threads -> Registrations(sequence)] /\ registrations' \in Seq(Threads)
      /\ ~reg'[t].active /\ \A x \in Threads \ {t} : reg'[x] = reg[x]
  BY <1>1, Unregistered, Zenon
<1>5. ObserverShapes'
  BY <1>1, <1>3, <1>4, Zenon DEF ObserverShapes
<1>6. ActivationInv'
  <2>1. \A x \in Threads : registrar'[x].pc \in {"choose", "finish", "failed", "undo"} => x \in Activators
    BY <1>1, <1>2, <1>3, Zenon DEF ActivationInv
  <2>2. \A x \in Activators : registrar'[x].pc \in Holding => registrar[x].pc \in Holding
    BY <1>2, <1>3, Zenon
  <2>3. \A x \in Activators : registrar'[x].pc = "undo" => registrar[x].pc = "undo"
    BY <1>2, <1>3, Zenon
  <2>4. \A x \in Activators : reg'[x].active => reg[x].active /\ registrar'[x].pc = registrar[x].pc
    BY <1>2, <1>3, <1>4, Zenon
  <2> QED BY <1>1, <2>1, <2>2, <2>3, <2>4, Zenon DEF ActivationInv
<1>7. SilentInv'
  <2>1. \A x \in unsubscribed : registrar'[x].pc = "done" => ~reg'[x].active
    BY <1>1, <1>2, <1>3, <1>4, Zenon DEF SilentInv
  <2>2. \A x \in unsubscribed : x \notin Activators => registrar'[x].pc = "done"
    BY <1>1, <1>2, <1>3, Zenon DEF SilentInv
  <2>3. \A x \in unsubscribed : registrar'[x].pc \in Holding => registrar[x].pc \in Holding
    BY <1>2, <1>3, Zenon
  <2> QED BY <1>1, <1>2, <2>1, <2>2, <2>3, Zenon DEF SilentInv
<1> QED BY <1>5, <1>6, <1>7, Zenon DEF ObserversInv

LEMMA UnsubscribeInv ==
    ASSUME ObserversInv, NEW t \in Threads, Unsubscribe(t)
    PROVE  ObserversInv'
<1>1. /\ t \in Direct /\ registrar[t].pc = "done" /\ Unregister(t) /\ unsubscribed' = unsubscribed \cup {t}
      /\ UNCHANGED <<stored, sequence, events, publisher, registrar, decorated, times>>
      /\ ObserverShapes /\ ActivationInv /\ SilentInv
  BY ObserversSplit, Zenon DEF Unsubscribe
<1>2. Activators \subseteq Threads /\ unsubscribed \subseteq Threads /\ t \notin Activators
  BY <1>1, ObserverConstantsOK, Zenon DEF Threads, SilentInv
<1>3. /\ reg' \in [Threads -> Registrations(sequence)] /\ registrations' \in Seq(Threads)
      /\ ~reg'[t].active /\ \A x \in Threads \ {t} : reg'[x] = reg[x]
  BY <1>1, Unregistered, Zenon
<1>4. ObserverShapes'
  BY <1>1, <1>3, Zenon DEF ObserverShapes
<1>5. ActivationInv'
  <2>1. \A x \in Activators : reg'[x] = reg[x]
    BY <1>2, <1>3, Zenon
  <2> QED BY <1>1, <2>1, Zenon DEF ActivationInv
<1>6. SilentInv'
  BY <1>1, <1>2, <1>3, Zenon DEF SilentInv
<1> QED BY <1>4, <1>5, <1>6, Zenon DEF ObserversInv

\* DecoratorSubscription.unsubscribe: an activation under way is cancelled, a
\* subscription is taken back.
LEMMA UnsubscribeDecoratedInv ==
    ASSUME ObserversInv, UnsubscribeDecorated
    PROVE  ObserversInv'
<1>1. /\ unsubscribed' = unsubscribed \cup Activators
      /\ UNCHANGED <<stored, sequence, events, publisher, registrar, times>>
      /\ ObserverShapes /\ ActivationInv /\ SilentInv
  BY ObserversSplit, Zenon DEF UnsubscribeDecorated
<1>2. /\ Activators \subseteq Threads /\ unsubscribed \subseteq Threads /\ decorated \in Decorations
      /\ "done" \notin Holding
  BY <1>1, Zenon DEF Threads, SilentInv, ObserverShapes, Holding
<1>3. CASE decorated.subscription = {}
  <2>1. /\ decorated' = [decorated EXCEPT !.cancelled = TRUE]
        /\ reg' = reg /\ registrations' = registrations
    BY <1>3, Zenon DEF UnsubscribeDecorated
  <2>2. /\ decorated' \in Decorations /\ decorated'.cancelled
        /\ decorated'.subscription = decorated.subscription /\ decorated'.activating = decorated.activating
    BY <1>2, <2>1, Zenon DEF Decorations
  <2>3. ObserverShapes'
    BY <1>1, <2>1, <2>2, Zenon DEF ObserverShapes
  <2>4. ActivationInv'
    BY <1>1, <2>1, <2>2, Zenon DEF ActivationInv
  <2>5. \A x \in Activators : registrar[x].pc = "done" => ~reg[x].active
    BY <1>1, <1>2, <1>3, Zenon DEF ActivationInv
  <2>6. SilentInv'
    BY <1>1, <1>2, <2>1, <2>2, <2>5, Zenon DEF SilentInv
  <2> QED BY <2>3, <2>4, <2>6, Zenon DEF ObserversInv
<1>4. CASE decorated.subscription # {}
  <2>1. PICK t \in decorated.subscription : Unregister(t) /\ decorated' = decorated
    BY <1>4, Zenon DEF UnsubscribeDecorated
  <2>2. t \in Threads /\ t \in Activators
    BY <1>2, <2>1, Zenon DEF Decorations
  <2>3. /\ reg' \in [Threads -> Registrations(sequence)] /\ registrations' \in Seq(Threads)
        /\ ~reg'[t].active /\ \A x \in Threads \ {t} : reg'[x] = reg[x]
    BY <1>1, <2>1, <2>2, Unregistered, Zenon
  <2>4. ObserverShapes'
    BY <1>1, <2>1, <2>3, Zenon DEF ObserverShapes
  <2>5. ActivationInv'
    <3>1. \A x \in Activators : reg'[x].active => reg[x].active
      BY <1>2, <2>3, Zenon
    <3> QED BY <1>1, <2>1, <3>1, Zenon DEF ActivationInv
  <2>6. \A x \in Activators : registrar[x].pc = "done" => ~reg'[x].active
    <3>1. \A x \in Activators : registrar[x].pc = "done" /\ reg[x].active => x = t
      BY <1>1, <1>2, <2>1, Zenon DEF ActivationInv
    <3> QED BY <1>2, <2>3, <3>1, Zenon
  <2>7. \A x \in unsubscribed : registrar[x].pc = "done" => ~reg'[x].active
    BY <1>1, <1>2, <2>3, Zenon DEF SilentInv
  <2>8. \A x \in Activators : registrar[x].pc \notin Holding
    BY <1>1, <1>4, Zenon DEF ActivationInv
  <2>9. SilentInv'
    BY <1>1, <1>2, <1>4, <2>1, <2>6, <2>7, <2>8, Zenon DEF SilentInv
  <2> QED BY <2>4, <2>5, <2>9, Zenon DEF ObserversInv
<1> QED BY <1>3, <1>4, Zenon

LEMMA GetInv ==
    ASSUME ObserversInv, Get
    PROVE  ObserversInv'
<1>1. /\ events # <<>> /\ events' = Tail(events)
      /\ UNCHANGED <<stored, sequence, registrations, reg, publisher, registrar, decorated, times, unsubscribed>>
      /\ ObserverShapes /\ ActivationInv /\ SilentInv
  BY ObserversSplit, Zenon DEF Get
<1>2. events' \in Seq(Deliveries) /\ Len(events') <= Capacity
  <2>1. events \in Seq(Deliveries) /\ Len(events) <= Capacity /\ Capacity \in Nat
    BY <1>1, ObserverConstantsOK, Zenon DEF ObserverShapes
  <2>2. Tail(events) \in Seq(Deliveries) /\ Len(Tail(events)) = Len(events) - 1 /\ Len(events) \in Nat
    BY <1>1, <2>1, SMT, SMTT(30)
  <2> QED BY <1>1, <2>1, <2>2
<1>3. ObserverShapes'
  BY <1>1, <1>2, Zenon DEF ObserverShapes
<1>4. ActivationInv' /\ SilentInv'
  BY <1>1, SameActivation, Zenon
<1> QED BY <1>3, <1>4, Zenon DEF ObserversInv

LEMMA CheckInv ==
    ASSUME ObserversInv, Check
    PROVE  ObserversInv'
<1>1. /\ UNCHANGED <<stored, sequence, registrations, reg, events, publisher, registrar, decorated,
                     times, unsubscribed>>
      /\ ObserverShapes /\ ActivationInv /\ SilentInv
  BY ObserversSplit, Zenon DEF Check
<1>2. ObserverShapes'
  BY <1>1, Zenon DEF ObserverShapes
<1>3. ActivationInv' /\ SilentInv'
  BY <1>1, SameActivation, Zenon
<1> QED BY <1>2, <1>3, Zenon DEF ObserversInv

LEMMA CallBackInv ==
    ASSUME ObserversInv, CallBack
    PROVE  ObserversInv'
<1>1. /\ UNCHANGED <<stored, sequence, registrations, reg, events, publisher, registrar, decorated, unsubscribed>>
      /\ ObserverShapes /\ ActivationInv /\ SilentInv
  BY ObserversSplit, Zenon DEF CallBack
<1>2. DOMAIN times' = Threads
  <2>1. DOMAIN times = Threads
    BY <1>1, Zenon DEF ObserverShapes
  <2> QED BY <2>1, Zenon DEF CallBack
<1>3. ObserverShapes'
  BY <1>1, <1>2, Zenon DEF ObserverShapes
<1>4. ActivationInv' /\ SilentInv'
  BY <1>1, SameActivation, Zenon
<1> QED BY <1>3, <1>4, Zenon DEF ObserversInv

LEMMA ObserversStart == ObserversInit => ObserversInv
<1> SUFFICES ASSUME ObserversInit PROVE ObserversInv
  BY Zenon
<1>1. Activators \subseteq Threads /\ LastStage \in Nat /\ Capacity \in Nat
  BY ObserverConstantsOK, Zenon DEF Threads
<1>2. PICK cast \in Casts : registrar = [t \in Threads |->
        [pc |-> IF t \notin cast THEN "done"
                ELSE IF t \in Activators THEN "choose" ELSE "register", batch |-> <<>>]]
  BY Zenon DEF ObserversInit
<1>3. \A t \in Threads : /\ registrar[t].pc \in {"done", "choose", "register"}
                         /\ registrar[t].pc = "choose" => t \in Activators
                         /\ t \in Activators => registrar[t].pc # "register"
                         /\ registrar[t] \in [pc : RegistrarPlaces, batch : Seq(Snapshots)]
  BY <1>2, SMT, SMTT(30) DEF RegistrarPlaces
<1>4. registrar \in [Threads -> [pc : RegistrarPlaces, batch : Seq(Snapshots)]]
  BY <1>2, <1>3, Zenon
<1>5. \A t \in Threads : ~reg[t].active
  BY Zenon DEF ObserversInit
<1>6. reg \in [Threads -> Registrations(sequence)]
  BY DEF ObserversInit, Registrations
<1>7. decorated \in Decorations /\ decorated.subscription = {} /\ unsubscribed = {}
  BY Zenon DEF ObserversInit, Decorations
<1>8. /\ publisher \in [Entries -> Publishers]
      /\ \A e \in Entries : publisher[e].pc = "idle"
  BY Zenon DEF ObserversInit, Publishers
<1>9. stored \in [Entries -> 0 .. LastStage] /\ sequence \in Nat /\ registrations \in Seq(Threads)
  BY <1>1 DEF ObserversInit
<1>10. events \in Seq(Deliveries) /\ Len(events) <= Capacity
  <2>1. events = <<>>
    BY Zenon DEF ObserversInit
  <2> QED BY <1>1, <2>1, SMT, SMTT(30)
<1>11. DOMAIN times = Threads
  BY Zenon DEF ObserversInit
<1>12. ObserverShapes
  BY <1>4, <1>6, <1>7, <1>8, <1>9, <1>10, <1>11, Zenon DEF ObserverShapes
<1>13. \A t \in Activators : registrar[t].pc \notin Holding /\ registrar[t].pc # "undo"
  BY <1>1, <1>3, Zenon DEF Holding
<1>14. ActivationInv
  BY <1>1, <1>3, <1>5, <1>7, <1>13, Zenon DEF ActivationInv
<1>15. SilentInv
  BY <1>7, Zenon DEF SilentInv
<1> QED BY <1>12, <1>14, <1>15, Zenon DEF ObserversInv

LEMMA ObserversStutter ==
    ASSUME ObserversInv, UNCHANGED observervars
    PROVE  ObserversInv'
<1>1. /\ UNCHANGED <<stored, sequence, registrations, reg, events, publisher, registrar, decorated,
                     times, unsubscribed>>
      /\ ObserverShapes /\ ActivationInv /\ SilentInv
  BY ObserversSplit, Zenon DEF observervars
<1>2. ObserverShapes'
  BY <1>1, Zenon DEF ObserverShapes
<1>3. ActivationInv' /\ SilentInv'
  BY <1>1, SameActivation, Zenon
<1> QED BY <1>2, <1>3, Zenon DEF ObserversInv

LEMMA ObserversStep == ObserversInv /\ [ObserversNext]_observervars => ObserversInv'
<1> SUFFICES ASSUME ObserversInv, [ObserversNext]_observervars PROVE ObserversInv'
  BY Zenon
<1>1. ASSUME NEW e \in Entries, Work(e) PROVE ObserversInv'
  BY <1>1, RecordInv, PublishInv, PublishQueueInv, Zenon DEF Work
<1>2. ASSUME NEW t \in Threads, Registering(t) PROVE ObserversInv'
  BY <1>2, ChooseInv, RegisterInv, ListInv, ActivateInv, QueueBatchInv, FinishInv, UndoInv, Zenon
     DEF Registering
<1>3. ASSUME NEW t \in Threads, ListFails(t) PROVE ObserversInv'
  BY <1>3, ListFailsInv, Zenon
<1>4. ASSUME NEW t \in Threads, AnotherFails(t) PROVE ObserversInv'
  BY <1>4, AnotherFailsInv, Zenon
<1>5. ASSUME NEW t \in Threads, Unsubscribe(t) PROVE ObserversInv'
  BY <1>5, UnsubscribeInv, Zenon
<1>6. CASE UnsubscribeDecorated
  BY <1>6, UnsubscribeDecoratedInv, Zenon
<1>7. CASE DispatchForever
  BY <1>7, GetInv, CheckInv, CallBackInv, Zenon DEF DispatchForever
<1>8. CASE UNCHANGED observervars
  BY <1>8, ObserversStutter, Zenon
<1> QED BY <1>1, <1>2, <1>3, <1>4, <1>5, <1>6, <1>7, <1>8, Zenon DEF ObserversNext

LEMMA OneIsActive == ObserversInv => OneActivation
<1> SUFFICES ASSUME ObserversInv PROVE OneActivation
  BY Zenon
<1>1. ObserverShapes /\ ActivationInv
  BY ObserversSplit, Zenon
<1>2. ObserversTypeOK
  BY <1>1, Zenon DEF ObserverShapes, ObserversTypeOK, Registrations, Deliveries, Decorations
<1>3. \A t \in Activators : reg[t].active /\ registrar[t].pc = "done" => t \in decorated.subscription
  BY <1>1, Zenon DEF ActivationInv, Holding
<1>4. PICK S : S = {t \in Activators : reg[t].active}
  BY Zenon
<1>5. \A t, x \in S : t = x
  <2> SUFFICES ASSUME NEW t \in Activators, NEW x \in Activators, reg[t].active, reg[x].active
               PROVE  t = x
    BY <1>4, Zenon
  <2>1. /\ registrar[t].pc \in Holding \/ t \in decorated.subscription
        /\ registrar[x].pc \in Holding \/ x \in decorated.subscription
    BY <1>1, Zenon DEF ActivationInv
  <2>2. CASE registrar[t].pc \in Holding \/ registrar[x].pc \in Holding
    BY <1>1, <2>1, <2>2, Zenon DEF ActivationInv
  <2>3. CASE t \in decorated.subscription /\ x \in decorated.subscription
    BY <1>1, <2>3, Zenon DEF ActivationInv
  <2> QED BY <2>1, <2>2, <2>3, Zenon
<1>6. Cardinality(S) <= 1
  <2>1. CASE S = {}
    BY <2>1, FS_EmptySet
  <2>2. CASE S # {}
    <3>1. PICK t \in S : S = {t}
      BY <1>5, <2>2, Zenon
    <3>2. Cardinality({t}) = 1
      BY FS_Singleton, Zenon
    <3>3. Cardinality(S) = 1
      BY <3>1, <3>2, Zenon
    <3> QED BY <3>3
  <2> QED BY <2>1, <2>2, Zenon
<1>7. Cardinality({t \in Activators : reg[t].active}) <= 1
  BY <1>4, <1>6, Zenon
<1> QED BY <1>2, <1>3, <1>7, Zenon DEF OneActivation

\* However many threads resolve an alias at once, the decorated observer has one
\* live registration at most, which its handle reaches or is about to reach
\* (_activate_pending_for, DecoratorSubscription.unsubscribe in observers.py).
THEOREM DecoratedActivatesOnce == ObserversSpec => []OneActivation
<1>1. ObserversInit => ObserversInv
  BY ObserversStart, Zenon
<1>2. ObserversInv /\ [ObserversNext]_observervars => ObserversInv'
  BY ObserversStep, Zenon
<1>3. ObserversInv => OneActivation
  BY OneIsActive, Zenon
<1> QED BY <1>1, <1>2, <1>3, PTL DEF ObserversSpec

LEMMA OnlyCallBackCalls ==
    ASSUME ObserversNext, ~CallBack
    PROVE  times' = times
<1>1. ASSUME NEW e \in Entries, Work(e) PROVE times' = times
  BY <1>1, Zenon DEF Work, Record, Publish, PublishQueue
<1>2. ASSUME NEW t \in Threads, Registering(t) PROVE times' = times
  BY <1>2, Zenon DEF Registering, Choose, Register, List, Activate, QueueBatch, Finish, Undo
<1>3. ASSUME NEW t \in Threads, ListFails(t) \/ AnotherFails(t) \/ Unsubscribe(t) PROVE times' = times
  BY <1>3, Zenon DEF ListFails, AnotherFails, Unsubscribe
<1>4. CASE UnsubscribeDecorated \/ Get \/ Check
  BY <1>4, Zenon DEF UnsubscribeDecorated, Get, Check
<1> QED BY <1>1, <1>2, <1>3, <1>4, Zenon DEF ObserversNext, DispatchForever

\* A thread that is still initialising is not about to be called.
LEMMA NotYetCalled ==
    ASSUME CaughtInv, NEW t \in Threads,
           registrar[t].pc \in {"choose", "register", "list", "activate", "failed"}
    PROVE  reg[t].initialising /\ t \notin dispatcher.call
<1>1. registrar[t].pc \notin {"queue", "finish", "undo", "done"}
  BY Zenon
<1> QED BY <1>1, Zenon DEF CaughtInv

Steady(x) == registrar'[x].pc = registrar[x].pc /\ reg'[x].initialising = reg[x].initialising

\* A step that neither moves a thread nor ends an initialisation nor checks.
LEMMA CaughtSame ==
    ASSUME CaughtInv, unsubscribed \subseteq Threads, \A x \in Threads : Steady(x),
           UNCHANGED <<decorated, unsubscribed, caught>>,
           "call" \in DOMAIN dispatcher', dispatcher'.call = dispatcher.call
    PROVE  CaughtInv'
<1>1. \A t \in dispatcher'.call \cap Threads : ~reg'[t].initialising
  BY Zenon DEF CaughtInv, Steady
<1>2. \A t \in Threads : ~reg'[t].initialising =>
          /\ registrar'[t].pc \in {"queue", "finish", "undo", "done"}
          /\ t \in Activators /\ registrar'[t].pc \in {"undo", "done"} => t \in decorated'.subscription
  BY Zenon DEF CaughtInv, Steady
<1>3. \A t \in unsubscribed' \cap dispatcher'.call : registrar'[t].pc = "done" => t \in caught'
  BY Zenon DEF CaughtInv, Steady
<1> QED BY <1>1, <1>2, <1>3, Zenon DEF CaughtInv

\* A step of one registering thread.
LEMMA CaughtMoves ==
    ASSUME CaughtInv, unsubscribed \subseteq Threads, UNCHANGED <<dispatcher, unsubscribed>>,
           caught \subseteq caught', decorated.subscription \subseteq decorated'.subscription,
           NEW t \in Threads, \A x \in Threads \ {t} : Steady(x),
           reg'[t].initialising => reg[t].initialising,
           ~reg'[t].initialising =>
             /\ registrar'[t].pc \in {"queue", "finish", "undo", "done"}
             /\ t \in Activators /\ registrar'[t].pc \in {"undo", "done"} => t \in decorated'.subscription,
           t \in unsubscribed \cap dispatcher.call /\ registrar'[t].pc = "done" => t \in caught'
    PROVE  CaughtInv'
<1>1. \A x \in dispatcher.call \cap Threads : ~reg'[x].initialising
  <2> SUFFICES ASSUME NEW x \in dispatcher.call \cap Threads PROVE ~reg'[x].initialising
    BY Zenon
  <2>1. ~reg[x].initialising
    BY Zenon DEF CaughtInv
  <2>2. CASE x = t
    BY <2>1, <2>2, Zenon
  <2>3. CASE x # t
    BY <2>1, <2>3, Zenon DEF Steady
  <2> QED BY <2>2, <2>3, Zenon
<1>2. ASSUME NEW x \in Threads, ~reg'[x].initialising
      PROVE  /\ registrar'[x].pc \in {"queue", "finish", "undo", "done"}
             /\ x \in Activators /\ registrar'[x].pc \in {"undo", "done"} => x \in decorated'.subscription
  <2>1. CASE x = t
    BY <1>2, <2>1, Zenon
  <2>2. CASE x # t
    BY <1>2, <2>2, Zenon DEF Steady, CaughtInv
  <2> QED BY <2>1, <2>2, Zenon
<1>3. ASSUME NEW x \in unsubscribed \cap dispatcher.call, registrar'[x].pc = "done" PROVE x \in caught'
  <2>1. CASE x = t
    BY <1>3, <2>1, Zenon
  <2>2. CASE x # t
    BY <1>3, <2>2, Zenon DEF Steady, CaughtInv
  <2> QED BY <2>1, <2>2, Zenon
<1>4. "call" \in DOMAIN dispatcher'
  BY Zenon DEF CaughtInv
<1> QED BY <1>1, <1>2, <1>3, <1>4, Zenon DEF CaughtInv

\* A registering thread before its initialisation has ended goes anywhere.
LEMMA StillInitialising ==
    ASSUME CaughtInv, unsubscribed \subseteq Threads, UNCHANGED <<dispatcher, unsubscribed>>,
           caught \subseteq caught', decorated'.subscription = decorated.subscription,
           NEW t \in Threads, \A x \in Threads \ {t} : Steady(x),
           registrar[t].pc \in {"choose", "register", "list", "activate", "failed"},
           reg'[t].initialising = reg[t].initialising
    PROVE  CaughtInv'
<1>1. reg[t].initialising /\ t \notin dispatcher.call
  BY NotYetCalled, Zenon
<1>2. reg'[t].initialising
  BY <1>1, Zenon
<1>3. t \notin unsubscribed \cap dispatcher.call
  BY <1>1, Zenon
<1>4. decorated.subscription \subseteq decorated'.subscription
  BY Zenon
<1> QED BY <1>1, <1>2, <1>3, <1>4, CaughtMoves, Zenon

LEMMA CaughtWork ==
    ASSUME ObserversInv, CaughtInv, NEW e \in Entries, Work(e)
    PROVE  CaughtInv'
<1>1. /\ UNCHANGED <<registrar, decorated, dispatcher, unsubscribed, caught>>
      /\ unsubscribed \subseteq Threads /\ reg \in [Threads -> Registrations(sequence)]
  BY ObserversSplit, Zenon DEF Work, Record, Publish, PublishQueue, SilentInv, ObserverShapes
<1>2. ASSUME NEW x \in Threads PROVE reg'[x].initialising = reg[x].initialising
  <2>1. CASE reg' = reg
    BY <2>1, Zenon
  <2>2. CASE Publish(e)
    <3>1. reg'[x] = IF x \in Range(registrations) /\ reg[x].initialising
                    THEN [reg[x] EXCEPT !.pending = Append(@, <<e, publisher[e].next>>)] ELSE reg[x]
      BY <2>2, Zenon DEF Publish
    <3>2. reg[x] \in Registrations(sequence)
      BY <1>1, Zenon
    <3>3. PICK new : new = [reg[x] EXCEPT !.pending = Append(@, <<e, publisher[e].next>>)]
      BY Zenon
    <3>4. new.initialising = reg[x].initialising
      BY <3>2, <3>3, Zenon DEF Registrations
    <3>5. reg'[x] = new \/ reg'[x] = reg[x]
      BY <3>1, <3>3, Zenon
    <3> QED BY <3>4, <3>5, Zenon
  <2> QED BY <2>1, <2>2, Zenon DEF Work, Record, PublishQueue
<1>3. \A x \in Threads : Steady(x)
  BY <1>1, <1>2, Zenon DEF Steady
<1>4. "call" \in DOMAIN dispatcher'
  BY <1>1, Zenon DEF CaughtInv
<1> QED BY <1>1, <1>3, <1>4, CaughtSame, Zenon

\* The steps of a thread before its registration is activated.
LEMMA CaughtEarly ==
    ASSUME ObserversInv, CaughtInv, NEW t \in Threads,
           Choose(t) \/ Register(t) \/ List(t) \/ ListFails(t) \/ AnotherFails(t)
    PROVE  CaughtInv'
<1>1. /\ ObserverShapes /\ unsubscribed \subseteq Threads /\ reg \in [Threads -> Registrations(sequence)]
      /\ registrar \in [Threads -> [pc : RegistrarPlaces, batch : Seq(Snapshots)]]
      /\ decorated \in Decorations
  BY ObserversSplit, Zenon DEF SilentInv, ObserverShapes
<1>2. /\ UNCHANGED <<dispatcher, unsubscribed>>
      /\ registrar[t].pc \in {"choose", "register", "list", "activate", "failed"}
  BY Zenon DEF Choose, Register, List, ListFails, AnotherFails
<1>3. caught \subseteq caught'
  BY Zenon DEF Choose, Register, List, ListFails, AnotherFails, Unregister
<1>4. decorated'.subscription = decorated.subscription
  <2>1. decorated' = decorated \/ decorated' = [decorated EXCEPT !.activating = TRUE]
    BY Zenon DEF Choose, Register, List, ListFails, AnotherFails
  <2> QED BY <1>1, <2>1, Zenon DEF Decorations
<1>5. /\ reg'[t].initialising = reg[t].initialising
      /\ \A x \in Threads \ {t} : reg'[x].initialising = reg[x].initialising
  <2>1. CASE reg' = reg
    BY <2>1, Zenon
  <2>2. CASE ListFails(t)
    <3>1. Unregister(t)
      BY <2>2, Zenon DEF ListFails
    <3> QED BY <1>1, <3>1, Unregistered, Zenon
  <2>3. CASE Register(t)
    <3>1. PICK new : new = [reg[t] EXCEPT !.active = TRUE, !.started = sequence]
      BY Zenon
    <3>2. new.initialising = reg[t].initialising
      BY <1>1, <3>1, Zenon DEF Registrations
    <3>3. reg' = [reg EXCEPT ![t] = new]
      BY <1>1, <2>3, <3>1, Zenon DEF Register
    <3> QED BY <1>1, <3>2, <3>3, Zenon
  <2> QED BY <2>1, <2>2, <2>3, Zenon DEF Choose, List, AnotherFails
<1>6. \A x \in Threads \ {t} : registrar'[x].pc = registrar[x].pc
  <2>1. ASSUME NEW where, Goto(t, where) PROVE \A x \in Threads \ {t} : registrar'[x].pc = registrar[x].pc
    BY <1>1, <2>1, Zenon DEF Goto
  <2>2. ASSUME List(t) PROVE \A x \in Threads \ {t} : registrar'[x].pc = registrar[x].pc
    BY <1>1, <2>2, Zenon DEF List
  <2>3. ASSUME ListFails(t) PROVE \A x \in Threads \ {t} : registrar'[x].pc = registrar[x].pc
    BY <1>1, <2>3, Zenon DEF ListFails
  <2>4. ~List(t) /\ ~ListFails(t) => Goto(t, "done") \/ Goto(t, "register") \/ Goto(t, "list")
    BY Zenon DEF Choose, Register, AnotherFails
  <2> QED BY <2>1, <2>2, <2>3, <2>4, Zenon
<1>7. \A x \in Threads \ {t} : Steady(x)
  BY <1>5, <1>6, Zenon DEF Steady
<1> QED BY <1>1, <1>2, <1>3, <1>4, <1>5, <1>7, StillInitialising, Zenon

LEMMA CaughtActivate ==
    ASSUME ObserversInv, CaughtInv, NEW t \in Threads, Activate(t)
    PROVE  CaughtInv'
<1>1. /\ unsubscribed \subseteq Threads /\ reg \in [Threads -> Registrations(sequence)]
      /\ registrar \in [Threads -> [pc : RegistrarPlaces, batch : Seq(Snapshots)]]
      /\ registrar[t].pc = "activate" /\ UNCHANGED <<decorated, dispatcher, unsubscribed, caught>>
  BY ObserversSplit, Zenon DEF SilentInv, ObserverShapes, Activate
<1>2. reg[t].initialising /\ t \notin dispatcher.call
  BY <1>1, NotYetCalled, Zenon
<1>3. PICK new : new = [registrar[t] EXCEPT !.pc = "queue",
                          !.batch = Ordered(registrar[t].batch \o reg[t].pending)]
  BY Zenon
<1>4. registrar' = [registrar EXCEPT ![t] = new] /\ new.pc = "queue"
  <2>1. registrar' = [registrar EXCEPT ![t] = new]
    BY <1>1, <1>3, Zenon DEF Activate
  <2>2. registrar[t] \in [pc : RegistrarPlaces, batch : Seq(Snapshots)]
    BY <1>1, Zenon
  <2> QED BY <1>3, <2>1, <2>2, Zenon
<1>5. registrar'[t].pc = "queue" /\ \A x \in Threads \ {t} : registrar'[x] = registrar[x]
  BY <1>1, <1>4, Zenon
<1>6. \A x \in Threads \ {t} : reg'[x] = reg[x]
  BY <1>1, Zenon DEF Activate
<1>7. \A x \in Threads \ {t} : Steady(x)
  BY <1>5, <1>6, Zenon DEF Steady
<1>8. /\ caught \subseteq caught' /\ decorated.subscription \subseteq decorated'.subscription
      /\ t \notin unsubscribed \cap dispatcher.call
      /\ registrar'[t].pc \in {"queue", "finish", "undo", "done"} /\ registrar'[t].pc \notin {"undo", "done"}
  BY <1>1, <1>2, <1>5, Zenon
<1> QED BY <1>1, <1>2, <1>7, <1>8, CaughtMoves, Zenon

LEMMA CaughtQueueBatch ==
    ASSUME ObserversInv, CaughtInv, NEW t \in Threads, QueueBatch(t)
    PROVE  CaughtInv'
<1>1. /\ ObserverShapes /\ SilentInv /\ unsubscribed \subseteq Threads
      /\ registrar \in [Threads -> [pc : RegistrarPlaces, batch : Seq(Snapshots)]]
      /\ registrar[t].pc = "queue" /\ UNCHANGED <<reg, decorated, dispatcher, unsubscribed, caught>>
  BY ObserversSplit, Zenon DEF SilentInv, ObserverShapes, QueueBatch
<1>2. CASE registrar[t].batch = <<>>
  <2>1. PICK where : where = IF t \in Activators THEN "finish" ELSE "done"
    BY Zenon
  <2>2. where \in RegistrarPlaces /\ Goto(t, where)
    <3>1. where \in RegistrarPlaces
      BY <2>1, Zenon DEF RegistrarPlaces
    <3>2. Goto(t, where)
      BY <1>2, <2>1, Zenon DEF QueueBatch
    <3> QED BY <3>1, <3>2, Zenon
  <2>3. registrar'[t].pc = where /\ \A x \in Threads \ {t} : registrar'[x] = registrar[x]
    BY <1>1, <2>2, GoesTo, Zenon
  <2>4. \A x \in Threads \ {t} : Steady(x)
    BY <1>1, <2>3, Zenon DEF Steady
  <2>5. /\ registrar'[t].pc \in {"queue", "finish", "undo", "done"}
        /\ t \in Activators => registrar'[t].pc \notin {"undo", "done"}
        /\ t \in unsubscribed => registrar'[t].pc # "done"
    <3>1. t \in unsubscribed => t \in Activators
      BY <1>1, Zenon DEF SilentInv
    <3> QED BY <2>1, <2>3, <3>1, Zenon
  <2>6. /\ caught \subseteq caught' /\ decorated.subscription \subseteq decorated'.subscription
        /\ reg'[t].initialising => reg[t].initialising
    BY <1>1, Zenon
  <2> QED BY <1>1, <2>4, <2>5, <2>6, CaughtMoves, Zenon
<1>3. CASE registrar[t].batch # <<>>
  <2>1. PICK new : new = [registrar[t] EXCEPT !.batch = Tail(@)]
    BY Zenon
  <2>2. registrar' = [registrar EXCEPT ![t] = new] /\ new.pc = registrar[t].pc
    <3>1. registrar' = [registrar EXCEPT ![t].batch = Tail(@)]
      BY <1>3, Zenon DEF QueueBatch
    <3>2. registrar[t] \in [pc : RegistrarPlaces, batch : Seq(Snapshots)]
      BY <1>1, Zenon
    <3> QED BY <1>1, <2>1, <3>1, <3>2, Zenon
  <2>3. \A x \in Threads : Steady(x)
    BY <1>1, <2>2, Zenon DEF Steady
  <2>4. "call" \in DOMAIN dispatcher' /\ dispatcher'.call = dispatcher.call
    BY <1>1, Zenon DEF CaughtInv
  <2> QED BY <1>1, <2>3, <2>4, CaughtSame, Zenon
<1> QED BY <1>2, <1>3, Zenon

LEMMA CaughtFinish ==
    ASSUME ObserversInv, CaughtInv, NEW t \in Threads, Finish(t)
    PROVE  CaughtInv'
<1>1. /\ ObserverShapes /\ ActivationInv /\ SilentInv /\ unsubscribed \subseteq Threads
      /\ decorated \in Decorations /\ registrar[t].pc \in {"finish", "failed"}
      /\ UNCHANGED <<reg, dispatcher, unsubscribed, caught>>
  BY ObserversSplit, Zenon DEF SilentInv, ObserverShapes, Finish
<1>2. t \in Activators /\ registrar[t].pc \in Holding /\ decorated.subscription = {}
  BY <1>1, Zenon DEF ActivationInv, Holding
<1>3. PICK where \in {"undo", "done"} :
         /\ Goto(t, where)
         /\ where = IF registrar[t].pc = "finish" /\ decorated.cancelled THEN "undo" ELSE "done"
  BY Zenon DEF Finish
<1>4. registrar'[t].pc = where /\ \A x \in Threads \ {t} : registrar'[x] = registrar[x]
  <2>1. where \in RegistrarPlaces
    BY <1>3, Zenon DEF RegistrarPlaces
  <2> QED BY <1>1, <1>3, <2>1, GoesTo, Zenon
<1>5. \A x \in Threads \ {t} : Steady(x)
  BY <1>1, <1>4, Zenon DEF Steady
<1>6. CASE registrar[t].pc = "finish"
  <2>1. decorated' = [decorated EXCEPT !.activating = FALSE, !.subscription = {t}]
    BY <1>6, Zenon DEF Finish
  <2>2. decorated'.subscription = {t}
    BY <1>1, <2>1, Zenon DEF Decorations
  <2>3. t \in unsubscribed => registrar'[t].pc # "done"
    <3>1. t \in unsubscribed => decorated.cancelled
      BY <1>1, <1>2, Zenon DEF SilentInv
    <3> QED BY <1>3, <1>4, <1>6, <3>1, Zenon
  <2>4. /\ caught \subseteq caught' /\ decorated.subscription \subseteq decorated'.subscription
        /\ reg'[t].initialising => reg[t].initialising
        /\ registrar'[t].pc \in {"queue", "finish", "undo", "done"} /\ t \in decorated'.subscription
    BY <1>1, <1>2, <1>3, <1>4, <2>2, Zenon
  <2> QED BY <1>1, <1>5, <2>3, <2>4, CaughtMoves, Zenon
<1>7. CASE registrar[t].pc = "failed"
  <2>1. decorated' = [decorated EXCEPT !.activating = FALSE, !.subscription = decorated.subscription]
    BY <1>7, Zenon DEF Finish
  <2>2. decorated'.subscription = decorated.subscription
    BY <1>1, <2>1, Zenon DEF Decorations
  <2>3. /\ caught \subseteq caught' /\ reg'[t].initialising = reg[t].initialising
        /\ registrar[t].pc \in {"choose", "register", "list", "activate", "failed"}
    BY <1>1, <1>7, Zenon
  <2> QED BY <1>1, <1>5, <2>2, <2>3, StillInitialising, Zenon
<1> QED BY <1>1, <1>6, <1>7, Zenon

LEMMA CaughtUndo ==
    ASSUME ObserversInv, CaughtInv, NEW t \in Threads, Undo(t)
    PROVE  CaughtInv'
<1>1. /\ ObserverShapes /\ ActivationInv /\ unsubscribed \subseteq Threads
      /\ registrar[t].pc = "undo" /\ Unregister(t) /\ Goto(t, "done")
      /\ UNCHANGED <<decorated, dispatcher, unsubscribed>>
  BY ObserversSplit, Zenon DEF SilentInv, Undo
<1>2. t \in Activators /\ t \in decorated.subscription
  BY <1>1, Zenon DEF ActivationInv
<1>3. registrar'[t].pc = "done" /\ \A x \in Threads \ {t} : registrar'[x] = registrar[x]
  <2>1. "done" \in RegistrarPlaces
    BY Zenon DEF RegistrarPlaces
  <2> QED BY <1>1, <2>1, GoesTo, Zenon
<1>4. reg'[t].initialising = reg[t].initialising /\ \A x \in Threads \ {t} : reg'[x] = reg[x]
  BY <1>1, Unregistered, Zenon
<1>5. \A x \in Threads \ {t} : Steady(x)
  BY <1>3, <1>4, Zenon DEF Steady
<1>6. caught \subseteq caught' /\ (t \in dispatcher.call => t \in caught')
  BY <1>1, Zenon DEF Unregister
<1>7. /\ decorated.subscription \subseteq decorated'.subscription /\ t \in decorated'.subscription
      /\ reg'[t].initialising => reg[t].initialising
      /\ registrar'[t].pc \in {"queue", "finish", "undo", "done"}
  BY <1>1, <1>2, <1>3, <1>4, Zenon
<1> QED BY <1>1, <1>5, <1>6, <1>7, CaughtMoves, Zenon

\* unsubscribe() takes the registration of the handle back.
LEMMA CaughtUnsubscribe ==
    ASSUME ObserversInv, CaughtInv, NEW t \in Threads, Unregister(t),
           UNCHANGED <<registrar, decorated, dispatcher>>, NEW S \in SUBSET Threads,
           unsubscribed' = unsubscribed \cup S,
           \A x \in S : registrar[x].pc = "done" /\ ~reg[x].initialising => x = t
    PROVE  CaughtInv'
<1>1. ObserverShapes /\ unsubscribed \subseteq Threads
  BY ObserversSplit, Zenon DEF SilentInv
<1>2. reg'[t].initialising = reg[t].initialising /\ \A x \in Threads \ {t} : reg'[x] = reg[x]
  BY <1>1, Unregistered, Zenon
<1>3. \A x \in Threads : Steady(x)
  BY <1>2, Zenon DEF Steady
<1>4. caught \subseteq caught' /\ (t \in dispatcher.call => t \in caught')
  BY Zenon DEF Unregister
<1>5. "call" \in DOMAIN dispatcher' /\ \A x \in dispatcher'.call \cap Threads : ~reg'[x].initialising
  BY <1>3, Zenon DEF CaughtInv, Steady
<1>6. \A x \in Threads : ~reg'[x].initialising =>
          /\ registrar'[x].pc \in {"queue", "finish", "undo", "done"}
          /\ x \in Activators /\ registrar'[x].pc \in {"undo", "done"} => x \in decorated'.subscription
  BY <1>3, Zenon DEF CaughtInv, Steady
<1>7. ASSUME NEW x \in unsubscribed' \cap dispatcher'.call, registrar'[x].pc = "done" PROVE x \in caught'
  <2>1. CASE x \in unsubscribed
    BY <1>4, <1>7, <2>1, Zenon DEF CaughtInv
  <2>2. CASE x \in S
    <3>1. ~reg[x].initialising /\ registrar[x].pc = "done"
      BY <1>7, <2>2, Zenon DEF CaughtInv
    <3> QED BY <1>4, <1>7, <2>2, <3>1, Zenon
  <2> QED BY <1>7, <2>1, <2>2, Zenon
<1> QED BY <1>5, <1>6, <1>7, Zenon DEF CaughtInv

LEMMA CaughtUnsubscribeDecorated ==
    ASSUME ObserversInv, CaughtInv, UnsubscribeDecorated
    PROVE  CaughtInv'
<1>1. /\ ActivationInv /\ decorated \in Decorations /\ Activators \subseteq Threads
      /\ unsubscribed' = unsubscribed \cup Activators /\ UNCHANGED <<registrar, dispatcher>>
  BY ObserversSplit, Zenon DEF ObserverShapes, Threads, UnsubscribeDecorated
<1>2. \A x \in Activators : registrar[x].pc = "done" /\ ~reg[x].initialising => x \in decorated.subscription
  BY <1>1, Zenon DEF CaughtInv
<1>3. CASE decorated.subscription = {}
  <2>1. decorated' = [decorated EXCEPT !.cancelled = TRUE] /\ UNCHANGED <<reg, caught>>
    BY <1>3, Zenon DEF UnsubscribeDecorated
  <2>2. decorated'.subscription = decorated.subscription
    BY <1>1, <2>1, Zenon DEF Decorations
  <2>3. \A x \in Activators \cap dispatcher.call : registrar[x].pc # "done"
    BY <1>1, <1>2, <1>3, Zenon DEF CaughtInv
  <2>4. \A x \in unsubscribed' \cap dispatcher'.call : registrar'[x].pc = "done" => x \in caught'
    BY <1>1, <2>1, <2>3, Zenon DEF CaughtInv
  <2> QED BY <1>1, <2>1, <2>2, <2>4, Zenon DEF CaughtInv
<1>4. CASE decorated.subscription # {}
  <2>1. PICK t \in decorated.subscription : Unregister(t) /\ decorated' = decorated
    BY <1>4, Zenon DEF UnsubscribeDecorated
  <2>2. t \in Threads /\ Activators \in SUBSET Threads
    BY <1>1, <2>1, Zenon DEF Decorations
  <2>3. \A x \in Activators : registrar[x].pc = "done" /\ ~reg[x].initialising => x = t
    BY <1>1, <1>2, <2>1, Zenon DEF ActivationInv
  <2> QED BY <1>1, <2>1, <2>2, <2>3, CaughtUnsubscribe, Zenon
<1> QED BY <1>3, <1>4, Zenon

LEMMA CaughtDispatch ==
    ASSUME ObserversInv, CaughtInv, DispatchForever
    PROVE  CaughtInv'
<1>1. /\ SilentInv /\ unsubscribed \subseteq Threads /\ "call" \in DOMAIN dispatcher
      /\ UNCHANGED <<reg, registrar, decorated, unsubscribed>>
  BY ObserversSplit, Zenon DEF SilentInv, CaughtInv, DispatchForever, Get, Check, CallBack
<1>2. \A x \in Threads : Steady(x)
  BY <1>1, Zenon DEF Steady
<1>3. CASE Get
  <2>1. "call" \in DOMAIN dispatcher' /\ dispatcher'.call = dispatcher.call /\ caught' = caught
    BY <1>3, Zenon DEF Get
  <2> QED BY <1>1, <1>2, <2>1, CaughtSame, Zenon
<1>4. CASE Check
  <2>1. PICK t : t = Head(dispatcher.to)
    BY Zenon
  <2>2. PICK call : call = IF Wanted(t, dispatcher.delivery) THEN {t} ELSE {}
    BY Zenon
  <2>3. dispatcher' = [dispatcher EXCEPT !.to = Tail(@), !.call = call]
    BY <1>4, <2>1, <2>2, Zenon DEF Check
  <2>4. "call" \in DOMAIN dispatcher' /\ dispatcher'.call = call
    BY <1>1, <2>3, Zenon
  <2>5. \A x \in dispatcher'.call : reg[x].active /\ ~reg[x].initialising
    BY <2>2, <2>4, Zenon DEF Wanted
  <2>6. \A x \in unsubscribed' \cap dispatcher'.call : registrar'[x].pc = "done" => x \in caught'
    BY <1>1, <2>5, Zenon DEF SilentInv
  <2> QED BY <1>1, <2>4, <2>5, <2>6, Zenon DEF CaughtInv
<1>5. CASE CallBack
  <2>1. dispatcher' = [dispatcher EXCEPT !.call = {}]
    BY <1>5, Zenon DEF CallBack
  <2>2. "call" \in DOMAIN dispatcher' /\ dispatcher'.call = {}
    BY <1>1, <2>1, Zenon
  <2> QED BY <1>1, <2>2, Zenon DEF CaughtInv
<1> QED BY <1>3, <1>4, <1>5, Zenon DEF DispatchForever

LEMMA CaughtStart == ObserversInit => CaughtInv
<1> SUFFICES ASSUME ObserversInit PROVE CaughtInv
  BY Zenon
<1>1. "call" \in DOMAIN dispatcher /\ dispatcher.call = {}
  BY Zenon DEF ObserversInit
<1>2. \A t \in Threads : reg[t].initialising
  BY Zenon DEF ObserversInit
<1> QED BY <1>1, <1>2, Zenon DEF CaughtInv

LEMMA CaughtStep == ObserversInv /\ CaughtInv /\ [ObserversNext]_observervars => CaughtInv'
<1> SUFFICES ASSUME ObserversInv, CaughtInv, [ObserversNext]_observervars PROVE CaughtInv'
  BY Zenon
<1>1. ASSUME NEW e \in Entries, Work(e) PROVE CaughtInv'
  BY <1>1, CaughtWork, Zenon
<1>2. ASSUME NEW t \in Threads, Registering(t) PROVE CaughtInv'
  BY <1>2, CaughtEarly, CaughtActivate, CaughtQueueBatch, CaughtFinish, CaughtUndo, Zenon DEF Registering
<1>3. ASSUME NEW t \in Threads, ListFails(t) \/ AnotherFails(t) PROVE CaughtInv'
  BY <1>3, CaughtEarly, Zenon
<1>4. ASSUME NEW t \in Threads, Unsubscribe(t) PROVE CaughtInv'
  <2>1. /\ Unregister(t) /\ UNCHANGED <<registrar, decorated, dispatcher>>
        /\ unsubscribed' = unsubscribed \cup {t} /\ {t} \in SUBSET Threads
    BY <1>4, Zenon DEF Unsubscribe
  <2> QED BY <2>1, CaughtUnsubscribe, Zenon
<1>5. CASE UnsubscribeDecorated
  BY <1>5, CaughtUnsubscribeDecorated, Zenon
<1>6. CASE DispatchForever
  BY <1>6, CaughtDispatch, Zenon
<1>7. CASE UNCHANGED observervars
  <2>1. UNCHANGED <<reg, registrar, decorated, dispatcher, unsubscribed, caught>>
    BY <1>7, Zenon DEF observervars
  <2> QED BY <2>1, Zenon DEF CaughtInv
<1> QED BY <1>1, <1>2, <1>3, <1>4, <1>5, <1>6, <1>7, Zenon DEF ObserversNext

LEMMA CallsTheSubscribed ==
    ObserversInv /\ CaughtInv /\ [ObserversNext]_observervars => UnsubscribedIsSilent
<1> SUFFICES ASSUME ObserversInv, CaughtInv, [ObserversNext]_observervars,
                    NEW t \in unsubscribed \ caught, registrar[t].pc = "done"
             PROVE  times'[t] = times[t]
  BY Zenon DEF UnsubscribedIsSilent
<1>1. CASE UNCHANGED observervars
  BY <1>1, Zenon DEF observervars
<1>2. CASE ObserversNext /\ ~CallBack
  BY <1>2, OnlyCallBackCalls, Zenon
<1>3. CASE CallBack
  <2>1. t \in Threads /\ t \notin dispatcher.call /\ DOMAIN times = Threads
    BY ObserversSplit, Zenon DEF SilentInv, CaughtInv, ObserverShapes
  <2>2. PICK x \in dispatcher.call : times' = [times EXCEPT ![x][dispatcher.delivery.snapshot] = @ + 1]
    BY <1>3, Zenon DEF CallBack
  <2>3. x # t
    BY <2>1, <2>2, Zenon
  <2> QED BY <2>1, <2>2, <2>3, Zenon
<1> QED BY <1>1, <1>2, <1>3, Zenon

\* Once unsubscribe() has returned, a callback is not called again, not even for a
\* delivery that the dispatcher already holds; the exception is the one call whose
\* check the dispatcher had passed before (_dispatch_forever in observers.py).  A
\* decorated observer that a thread is activating is silent once that is done.
THEOREM UnsubscribedStaySilent == ObserversSpec => [][UnsubscribedIsSilent]_observervars
<1>1. ObserversInit => ObserversInv /\ CaughtInv
  BY ObserversStart, CaughtStart, Zenon
<1>2. ObserversInv /\ CaughtInv /\ [ObserversNext]_observervars => (ObserversInv /\ CaughtInv)'
  BY ObserversStep, CaughtStep, Zenon
<1>3. ObserversInv /\ CaughtInv /\ [ObserversNext]_observervars => [UnsubscribedIsSilent]_observervars
  BY CallsTheSubscribed, Zenon
<1> QED BY <1>1, <1>2, <1>3, PTL DEF ObserversSpec

===============================================================================
