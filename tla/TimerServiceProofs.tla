------------------------- MODULE TimerServiceProofs -------------------------
(***************************************************************************)
(* Proofs about TimerService, for any set of timers, any timeouts, any     *)
(* number of waits and any nesting depth.                                  *)
(***************************************************************************)
EXTENDS TimerService, SequenceTheorems, WellFoundedInduction, TLAPS

----------------------------------------------------------------------------
(* The order of the waits. *)

\* A nonempty set of natural numbers has a least element.
LEMMA LeastNatural ==
    ASSUME NEW T \in SUBSET Nat, T # {}
    PROVE  \E m \in T : \A k \in T : m <= k
  <1> DEFINE less == {p \in Nat \X Nat : p[1] < p[2]}
  <1>1. less = OpToRel(<, Nat)
    BY Zenon DEF OpToRel
  <1>2. IsWellFoundedOn(less, Nat)
    BY <1>1, NatLessThanWellFounded
  <1>3. \A k \in T, m \in T : k < m => <<k, m>> \in less
    OBVIOUS
  <1> HIDE DEF less
  <1>4. PICK m \in T : \A k \in T : ~ (<<k, m>> \in less)
    BY <1>2, WFMin
  <1>5. ASSUME NEW k \in T PROVE m <= k
    <2>1. ~ (k < m)
      BY <1>3, <1>4, Zenon
    <2>2. k \in Nat /\ m \in Nat
      OBVIOUS
    <2>3. QED
      BY <2>1, <2>2
  <1>6. QED
    BY <1>5

\* No two waits of a set have the same id.
UniqueIds(S) == \A t, u \in S : t.id = u.id => t = u

\* A nonempty set of waits has a first element.
LEMMA FirstIsFirst ==
    ASSUME NEW S, S \subseteq Wait, S # {}, UniqueIds(S)
    PROVE  First(S) \in S /\ \A u \in S \ {First(S)} : Before(First(S), u)
  <1> USE MaxTimeAssumption, MaxWaitsAssumption
  <1>0. \A t \in S : t.at \in Nat /\ t.id \in Nat
    BY DEF Wait, Id
  <1> DEFINE ats == {t.at : t \in S}
  <1>1. ats \in SUBSET Nat /\ ats # {}
    BY <1>0
  <1>2. PICK a \in ats : \A b \in ats : a <= b
    BY <1>1, LeastNatural
  <1> DEFINE ids == {t.id : t \in {u \in S : u.at = a}}
  <1>3. ids \in SUBSET Nat /\ ids # {}
    BY <1>0
  <1>4. PICK i \in ids : \A j \in ids : i <= j
    BY <1>3, LeastNatural
  <1>5. PICK t \in S : t.at = a /\ t.id = i
    OBVIOUS
  <1>6. ASSUME NEW u \in S \ {t} PROVE Before(t, u)
    <2>1. t.at <= u.at /\ t.id # u.id
      BY <1>2, <1>5 DEF UniqueIds
    <2>2. u.at = t.at => t.id <= u.id
      BY <1>4, <1>5
    <2>3. QED
      BY <1>0, <2>1, <2>2 DEF Before
  <1>7. QED
    BY <1>6 DEF First

\* Only one element comes before all others.
LEMMA FirstUnique ==
    ASSUME NEW S, S \subseteq Wait, UniqueIds(S),
           NEW f \in S, \A u \in S \ {f} : Before(f, u)
    PROVE  First(S) = f
  <1>1. First(S) \in S /\ \A u \in S \ {First(S)} : Before(First(S), u)
    BY FirstIsFirst
  <1>2. SUFFICES ASSUME First(S) # f PROVE FALSE
    OBVIOUS
  <1>3. Before(f, First(S)) /\ Before(First(S), f)
    BY <1>1, <1>2
  <1>4. f.at \in Nat /\ f.id \in Nat /\ First(S).at \in Nat /\ First(S).id \in Nat
    BY <1>1, MaxTimeAssumption, MaxWaitsAssumption DEF Wait, Id
  <1>5. QED
    BY <1>3, <1>4 DEF Before

\* Removing another wait leaves the first one in place.
LEMMA FirstOfRest ==
    ASSUME NEW S, S \subseteq Wait, UniqueIds(S), NEW t \in S, t # First(S)
    PROVE  S \ {t} # {} /\ First(S \ {t}) = First(S)
  <1>1. First(S) \in S /\ \A u \in S \ {First(S)} : Before(First(S), u)
    BY FirstIsFirst
  <1>2. UniqueIds(S \ {t})
    BY DEF UniqueIds
  <1> DEFINE R == S \ {t}
             f == First(S)
  <1>3. R \subseteq Wait /\ UniqueIds(R) /\ f \in R /\ \A u \in R \ {f} : Before(f, u)
    BY <1>1, <1>2
  <1> HIDE DEF R, f
  <1>4. First(R) = f
    BY <1>3, FirstUnique
  <1>5. QED
    BY <1>3, <1>4 DEF R, f

\* Adding a wait that does not come first leaves the first one in place.
LEMMA FirstOfMore ==
    ASSUME NEW S, S \subseteq Wait, NEW t \in Wait, t \notin S,
           UniqueIds(S \cup {t}), First(S \cup {t}) # t
    PROVE  S # {} /\ First(S \cup {t}) = First(S)
  <1> DEFINE R == S \cup {t}
  <1>1. R \subseteq Wait /\ R # {} /\ UniqueIds(R) /\ t \in R /\ t # First(R) /\ R \ {t} = S
    OBVIOUS
  <1> HIDE DEF R
  <1>2. R \ {t} # {} /\ First(R \ {t}) = First(R)
    BY <1>1, FirstOfRest
  <1>3. QED
    BY <1>1, <1>2 DEF R

----------------------------------------------------------------------------
(* The timerfd. *)

\* The timerfd suits a set of waits at a given time.
Armed(S, fd, n) ==
    IF S = {} THEN fd = 0
    ELSE fd = First(S).at \/ (First(S).at <= fd /\ fd <= n)

\* Being armed for a set lasts while time passes.
LEMMA ArmedLater ==
    ASSUME NEW S, S \subseteq Wait, NEW fd \in Nat, NEW n \in Nat, NEW m \in Nat, n <= m,
           Armed(S, fd, n)
    PROVE  Armed(S, fd, m)
  BY DEF Armed

\* update_timerfd arms for the given time, or for a later one that has come.
LEMMA UpdateArms ==
    ASSUME now \in 1..MaxTime, NEW at \in 1..MaxTime, update_timerfd(at)
    PROVE  /\ now' \in now..MaxTime
           /\ timerfd' \in 1..MaxTime
           /\ timerfd' = at \/ (at <= timerfd' /\ timerfd' <= now')
  BY MaxTimeAssumption DEF update_timerfd

\* update_timerfd_first arms for the first wait of the set.
LEMMA UpdateFirstArms ==
    ASSUME now \in 1..MaxTime, NEW S, S \subseteq Wait, UniqueIds(S), update_timerfd_first(S)
    PROVE  /\ now' \in now..MaxTime
           /\ timerfd' \in 0..MaxTime
           /\ Armed(S, timerfd', now')
  <1>1. CASE S = {}
    BY <1>1, MaxTimeAssumption DEF update_timerfd_first, disarm_timerfd, Armed
  <1>2. CASE S # {}
    <2>1. First(S) \in S
      BY <1>2, FirstIsFirst
    <2>2. First(S).at \in 1..MaxTime
      BY <2>1 DEF Wait
    <2>3. update_timerfd(First(S).at)
      BY <1>2 DEF update_timerfd_first
    <2>4. QED
      BY <1>2, <2>2, <2>3, UpdateArms, MaxTimeAssumption DEF Armed
  <1>3. QED
    BY <1>1, <1>2

----------------------------------------------------------------------------
(* The inductive invariant. *)

\* Ids are handed out once.
IdsAreFresh ==
    /\ UniqueIds(timer_mset \cup expire_timers)
    /\ \A t \in timer_mset \cup expire_timers : t.id < id_allocator
    /\ \A s \in Timer : timer_id[s] < id_allocator
    /\ last.id < id_allocator

\* Expired waits are outstanding only inside expireTimerExecute, which is never
\* entered a second time.
ExpireFrame ==
    /\ ctl = "poll" => stack = <<>>
    /\ ctl = "code" => stack = <<[kind |-> "expire"]>>
    /\ expire_timers # {} => stack # <<>> /\ stack[1].kind = "expire"

\* The properties of the timers, and the fact about ids they rest on.
Safe ==
    /\ IndexMatchesSet
    /\ IdsAreFresh
    /\ OneCallbackEach
    /\ ExpireInOrder
    /\ CancelsOnlyItsOwn
    /\ LostOnlyByOverwrite
    /\ ArmedForFirst

\* The inductive invariant.
IInv == TypeOK /\ ExpireFrame /\ Safe

\* ArmedForFirst is Armed applied to the state.
LEMMA ArmedForFirstIsArmed == ArmedForFirst <=> Armed(timer_mset, timerfd, now)
  BY DEF ArmedForFirst, Armed

\* The service starts without waits, with the timerfd disarmed.
LEMMA InitIInv == Init => IInv
  <1> SUFFICES ASSUME Init PROVE IInv
    OBVIOUS
  <1> USE MaxTimeAssumption, MaxWaitsAssumption DEF Init
  <1>1. TypeOK
    BY DEF TypeOK, Id, Wait, Frame
  <1>2. ExpireFrame
    BY DEF ExpireFrame
  <1>3. IndexMatchesSet /\ OneCallbackEach /\ CancelsOnlyItsOwn /\ LostOnlyByOverwrite
    BY DEF IndexMatchesSet, OneCallbackEach, CancelsOnlyItsOwn, LostOnlyByOverwrite, Id
  <1>4. IdsAreFresh /\ ExpireInOrder /\ ArmedForFirst
    BY DEF IdsAreFresh, UniqueIds, ExpireInOrder, ArmedForFirst, NoWait
  <1>5. QED
    BY <1>1, <1>2, <1>3, <1>4 DEF IInv, Safe

----------------------------------------------------------------------------
(* Steps. *)

\* Arithmetic facts behind the types.
LEMMA Numbers ==
    ASSUME TypeOK
    PROVE  /\ now \in Nat /\ timerfd \in Nat /\ id_allocator \in Nat
           /\ last.at \in Int /\ last.id \in Int
           /\ \A t \in Wait : t.at \in Nat /\ t.id \in Nat
  BY MaxTimeAssumption, MaxWaitsAssumption DEF TypeOK, Wait, Id, NoWait

\* Steps that leave the waits, the timers and the history alone.
LEMMA QuietSafe ==
    ASSUME TypeOK, Safe, UNCHANGED <<timerfd, waits, expire_timers, timer_id, history>>,
           now' \in Nat, now <= now'
    PROVE  Safe'
  <1> USE DEF waits, history
  <1>1. (IndexMatchesSet /\ IdsAreFresh /\ OneCallbackEach)'
    BY DEF Safe, IndexMatchesSet, IdsAreFresh, OneCallbackEach
  <1>2. (CancelsOnlyItsOwn /\ LostOnlyByOverwrite)'
    BY DEF Safe, CancelsOnlyItsOwn, LostOnlyByOverwrite
  <1>3. ExpireInOrder'
    BY Numbers DEF Safe, ExpireInOrder, TypeOK
  <1>4. ArmedForFirst'
    <2>1. timer_mset \subseteq Wait /\ Armed(timer_mset, timerfd, now)
      BY ArmedForFirstIsArmed DEF Safe, TypeOK
    <2>2. Armed(timer_mset, timerfd, now')
      BY <2>1, Numbers, ArmedLater
    <2>3. QED
      BY <2>2 DEF ArmedForFirst, Armed
  <1>5. QED
    BY <1>1, <1>2, <1>3, <1>4 DEF Safe

\* An accepted wait: a fresh id, the latest deadline among equal ones.
LEMMA RegisterSafe ==
    ASSUME TypeOK, Safe, NEW s \in Timer, registerTimer(s)
    PROVE  Safe' /\ now' \in now..MaxTime /\ timerfd' \in 0..MaxTime
  <1> DEFINE t == [id |-> id_allocator, at |-> now + Timeout[s], timer |-> s]
  <1>1. /\ t.id = id_allocator /\ t.at = now + Timeout[s] /\ t.timer = s
        /\ t \in Wait
    <2>1. id_allocator < MaxWaits /\ now + Timeout[s] <= MaxTime
      BY DEF registerTimer, acceptTimer
    <2>2. id_allocator \in Id /\ now + Timeout[s] \in 1..MaxTime
      BY <2>1, TimeoutAssumption, MaxWaitsAssumption, MaxTimeAssumption DEF TypeOK, Id
    <2>3. QED
      BY <2>2 DEF Wait
  <1>2. /\ timer_id[s] \notin DOMAIN id_timer_umap
        /\ timer_id' = [timer_id EXCEPT ![s] = id_allocator]
        /\ id_allocator' = id_allocator + 1
        /\ timer_mset' = timer_mset \cup {t}
        /\ DOMAIN id_timer_umap' = DOMAIN id_timer_umap \cup {id_allocator}
        /\ \A i \in DOMAIN id_timer_umap \cup {id_allocator} :
              id_timer_umap'[i] = IF i = id_allocator THEN t ELSE id_timer_umap[i]
        /\ UNCHANGED <<expire_timers, called, last, lost>>
    BY DEF registerTimer, acceptTimer, Insert, history
  <1>3. IF First(timer_mset') = t THEN update_timerfd(t.at) ELSE UNCHANGED clock
    BY DEF registerTimer, acceptTimer
  <1>4. t.at >= now
    BY <1>1, Numbers, TimeoutAssumption
  <1> HIDE DEF t
  <1>5. \A u \in timer_mset \cup expire_timers : u \in Wait /\ u.id < id_allocator
    BY DEF TypeOK, Safe, IdsAreFresh
  <1>6. IdsAreFresh'
    <2>1. UniqueIds(timer_mset' \cup expire_timers')
      BY <1>1, <1>2, <1>5, Numbers DEF Safe, IdsAreFresh, UniqueIds
    <2>2. \A u \in timer_mset' \cup expire_timers' : u.id < id_allocator'
      BY <1>1, <1>2, <1>5, Numbers
    <2>3. ASSUME NEW r \in Timer PROVE timer_id'[r] < id_allocator'
      <3>1. timer_id[r] \in Int /\ timer_id[r] < id_allocator
        BY MaxWaitsAssumption DEF TypeOK, Id, Safe, IdsAreFresh
      <3>2. timer_id'[r] \in {timer_id[r], id_allocator}
        BY <1>2 DEF TypeOK
      <3>3. QED
        BY <1>2, <3>1, <3>2, Numbers
    <2>4. last'.id < id_allocator'
      BY <1>2, Numbers DEF Safe, IdsAreFresh
    <2>5. QED
      BY <2>1, <2>2, <2>3, <2>4 DEF IdsAreFresh
  <1>7. IndexMatchesSet'
    BY <1>1, <1>2, <1>5, Numbers DEF Safe, IndexMatchesSet
  <1>8. OneCallbackEach'
    <2>1. timer_mset' \cap expire_timers' = {}
      BY <1>1, <1>2, <1>5, Numbers DEF Safe, OneCallbackEach
    <2>2. ASSUME NEW i \in Id
          PROVE  called'[i] = IF i < id_allocator'
                                 /\ ~ \E u \in timer_mset' \cup expire_timers' : u.id = i
                              THEN 1 ELSE 0
      <3>1. i \in Nat
        BY MaxWaitsAssumption DEF Id
      <3>2. CASE i = id_allocator
        BY <1>1, <1>2, <3>1, <3>2, Numbers DEF Safe, OneCallbackEach
      <3>3. CASE i # id_allocator
        BY <1>1, <1>2, <3>1, <3>3, Numbers DEF Safe, OneCallbackEach
      <3>4. QED
        BY <3>2, <3>3
    <2>3. QED
      BY <2>1, <2>2 DEF OneCallbackEach
  <1>9. now' \in now..MaxTime /\ timerfd' \in 0..MaxTime /\ ArmedForFirst'
    <2>1. UniqueIds(timer_mset') /\ UniqueIds(timer_mset)
      BY <1>6 DEF IdsAreFresh, UniqueIds, Safe
    <2>2. t \notin timer_mset
      BY <1>1, <1>5, Numbers
    <2>3. timer_mset \subseteq Wait /\ now \in 1..MaxTime /\ timerfd \in 0..MaxTime
      BY DEF TypeOK
    <2>4. CASE First(timer_mset') = t
      <3>1. update_timerfd(t.at) /\ t.at \in 1..MaxTime
        BY <1>1, <1>3, <2>4 DEF Wait
      <3>2. QED
        BY <1>2, <2>3, <2>4, <3>1, UpdateArms, MaxTimeAssumption DEF ArmedForFirst
    <2>5. CASE First(timer_mset') # t
      <3>1. timer_mset # {} /\ First(timer_mset') = First(timer_mset)
        BY <1>1, <1>2, <2>1, <2>2, <2>3, <2>5, FirstOfMore
      <3>2. now' = now /\ timerfd' = timerfd
        BY <1>3, <2>5 DEF clock
      <3>3. QED
        BY <1>2, <2>3, <3>1, <3>2, MaxTimeAssumption DEF Safe, ArmedForFirst
    <2>6. QED
      BY <2>4, <2>5
  <1>10. ExpireInOrder'
    <2>1. last.at <= now' /\ \A u \in expire_timers : u.at <= now' /\ Before(last, u)
      BY <1>5, <1>9, Numbers DEF Safe, ExpireInOrder
    <2>2. Before(last, t) /\ \A u \in expire_timers : Before(u, t)
      BY <1>1, <1>4, <1>5, Numbers DEF Safe, ExpireInOrder, IdsAreFresh, Before
    <2>3. \A u \in timer_mset : Before(last, u) /\ \A v \in expire_timers : Before(v, u)
      BY DEF Safe, ExpireInOrder
    <2>4. QED
      BY <1>2, <2>1, <2>2, <2>3 DEF ExpireInOrder
  <1>11. CancelsOnlyItsOwn'
    BY <1>1, <1>2, Numbers DEF Safe, CancelsOnlyItsOwn, IdsAreFresh, TypeOK
  <1>12. LostOnlyByOverwrite'
    BY <1>1, <1>2, Numbers DEF Safe, LostOnlyByOverwrite, IndexMatchesSet, TypeOK, Wait
  <1>13. QED
    BY <1>6, <1>7, <1>8, <1>9, <1>10, <1>11, <1>12 DEF Safe

\* Erase takes the same waits out of the set and of the index.
LEMMA EraseBoth ==
    ASSUME TypeOK, IndexMatchesSet, NEW S, S \subseteq timer_mset, Erase(S)
    PROVE  /\ timer_mset' = timer_mset \ S
           /\ DOMAIN id_timer_umap' \subseteq DOMAIN id_timer_umap
           /\ \A i \in DOMAIN id_timer_umap' : id_timer_umap'[i] = id_timer_umap[i]
           /\ IndexMatchesSet'
  <1>1. /\ timer_mset' = timer_mset \ S
        /\ DOMAIN id_timer_umap' = DOMAIN id_timer_umap \ {t.id : t \in S}
        /\ \A i \in DOMAIN id_timer_umap' : id_timer_umap'[i] = id_timer_umap[i]
    BY DEF Erase, Indexed
  <1>2. ASSUME NEW t \in timer_mset'
        PROVE  t.id \in DOMAIN id_timer_umap' /\ id_timer_umap'[t.id] = t
    <2>1. t \in timer_mset /\ t \notin S /\ t.id \in DOMAIN id_timer_umap /\ id_timer_umap[t.id] = t
      BY <1>1 DEF IndexMatchesSet
    <2>2. ASSUME NEW u \in S PROVE u.id # t.id
      BY <2>1 DEF IndexMatchesSet
    <2>3. QED
      BY <1>1, <2>1, <2>2
  <1>3. ASSUME NEW i \in DOMAIN id_timer_umap'
        PROVE  id_timer_umap'[i] \in timer_mset' /\ id_timer_umap'[i].id = i
    <2>1. id_timer_umap[i] \in timer_mset /\ id_timer_umap[i].id = i /\ id_timer_umap[i] \notin S
      BY <1>1 DEF IndexMatchesSet
    <2>2. QED
      BY <1>1, <2>1
  <1>4. QED
    BY <1>1, <1>2, <1>3 DEF IndexMatchesSet

\* A cancelled wait: it is taken out of the set and gets its callback.
LEMMA CancelSafe ==
    ASSUME TypeOK, Safe, NEW s \in Timer, cancelTimer(s)
    PROVE  Safe' /\ now' \in now..MaxTime /\ timerfd' \in 0..MaxTime
  <1> DEFINE id == timer_id[s]
             t == id_timer_umap[id]
  <1>1. t \in timer_mset /\ t.id = id /\ t \in Wait /\ id \in Id
    BY DEF cancelTimer, Safe, IndexMatchesSet, TypeOK
  <1>2. /\ Erase({t})
        /\ IF t = First(timer_mset) THEN update_timerfd_first(timer_mset') ELSE UNCHANGED clock
        /\ called' = [called EXCEPT ![id] = called[id] + 1]
        /\ UNCHANGED <<id_allocator, expire_timers, timer_id, last, lost>>
    BY DEF cancelTimer
  <1> HIDE DEF id, t
  <1>3. /\ timer_mset' = timer_mset \ {t}
        /\ DOMAIN id_timer_umap' \subseteq DOMAIN id_timer_umap
        /\ \A i \in DOMAIN id_timer_umap' : id_timer_umap'[i] = id_timer_umap[i]
        /\ IndexMatchesSet'
    BY <1>1, <1>2, EraseBoth DEF Safe
  <1>4. IdsAreFresh'
    BY <1>2, <1>3 DEF Safe, IdsAreFresh, UniqueIds
  <1>5. now' \in now..MaxTime /\ timerfd' \in 0..MaxTime /\ ArmedForFirst'
    <2>1. UniqueIds(timer_mset') /\ UniqueIds(timer_mset)
      BY <1>4 DEF IdsAreFresh, UniqueIds, Safe
    <2>2. timer_mset \subseteq Wait /\ timer_mset' \subseteq Wait /\ now \in 1..MaxTime /\ timerfd \in 0..MaxTime
      BY <1>3 DEF TypeOK
    <2>3. CASE t = First(timer_mset)
      <3>1. update_timerfd_first(timer_mset')
        BY <1>2, <2>3
      <3>2. QED
        BY <2>1, <2>2, <3>1, UpdateFirstArms DEF ArmedForFirst, Armed
    <2>4. CASE t # First(timer_mset)
      <3>1. timer_mset' # {} /\ First(timer_mset') = First(timer_mset)
        BY <1>1, <1>3, <2>1, <2>2, <2>4, FirstOfRest
      <3>2. now' = now /\ timerfd' = timerfd
        BY <1>2, <2>4 DEF clock
      <3>3. QED
        BY <1>1, <2>2, <3>1, <3>2, MaxTimeAssumption DEF Safe, ArmedForFirst
    <2>5. QED
      BY <2>3, <2>4
  <1>6. OneCallbackEach'
    <2>1. timer_mset' \cap expire_timers' = {}
      BY <1>2, <1>3 DEF Safe, OneCallbackEach
    <2>2. ASSUME NEW i \in Id
          PROVE  called'[i] = IF i < id_allocator'
                                 /\ ~ \E u \in timer_mset' \cup expire_timers' : u.id = i
                              THEN 1 ELSE 0
      <3>1. CASE i = id
        <4>1. i < id_allocator /\ called[i] = 0
          BY <1>1, <3>1 DEF Safe, OneCallbackEach, IdsAreFresh
        <4>2. ~ \E u \in timer_mset' \cup expire_timers' : u.id = i
          BY <1>1, <1>2, <1>3, <3>1 DEF Safe, OneCallbackEach, IdsAreFresh, UniqueIds
        <4>3. called'[i] = 1
          BY <1>2, <3>1, <4>1 DEF TypeOK
        <4>4. QED
          BY <1>2, <4>1, <4>2, <4>3
      <3>2. CASE i # id
        <4>1. called'[i] = called[i]
          BY <1>2, <3>2 DEF TypeOK
        <4>2. (\E u \in timer_mset' \cup expire_timers' : u.id = i)
              <=> (\E u \in timer_mset \cup expire_timers : u.id = i)
          BY <1>1, <1>2, <1>3, <3>2
        <4>3. QED
          BY <1>2, <4>1, <4>2 DEF Safe, OneCallbackEach
      <3>3. QED
        BY <3>1, <3>2
    <2>3. QED
      BY <2>1, <2>2 DEF OneCallbackEach
  <1>7. ExpireInOrder'
    <2>1. last.at <= now' /\ \A u \in expire_timers : u.at <= now' /\ Before(last, u)
      BY <1>5, Numbers DEF Safe, ExpireInOrder, TypeOK
    <2>2. QED
      BY <1>2, <1>3, <2>1 DEF Safe, ExpireInOrder
  <1>8. CancelsOnlyItsOwn' /\ LostOnlyByOverwrite'
    BY <1>2, <1>3 DEF Safe, CancelsOnlyItsOwn, LostOnlyByOverwrite
  <1>9. QED
    BY <1>3, <1>4, <1>5, <1>6, <1>7, <1>8 DEF Safe

\* The expired waits move, as a prefix of the order, into expire_timers.
LEMMA ExpireSafe ==
    ASSUME TypeOK, Safe, expire_timers = {}, Expire
    PROVE  Safe' /\ now' \in now..MaxTime /\ timerfd' \in 0..MaxTime
  <1> DEFINE S == {t \in timer_mset : t.at <= now}
  <1>1. /\ expire_timers' = S
        /\ Erase(S)
        /\ update_timerfd_first(timer_mset')
        /\ UNCHANGED <<id_allocator, timer_id, called, last, lost>>
    BY DEF Expire, history
  <1>2. S \subseteq timer_mset /\ \A t \in timer_mset : t \in S <=> t.at <= now
    OBVIOUS
  <1> HIDE DEF S
  <1>3. /\ timer_mset' = timer_mset \ S
        /\ DOMAIN id_timer_umap' \subseteq DOMAIN id_timer_umap
        /\ \A i \in DOMAIN id_timer_umap' : id_timer_umap'[i] = id_timer_umap[i]
        /\ IndexMatchesSet'
    BY <1>1, <1>2, EraseBoth DEF Safe
  <1>4. timer_mset' \cup expire_timers' = timer_mset \cup expire_timers
    BY <1>1, <1>2, <1>3
  <1>5. IdsAreFresh'
    BY <1>1, <1>4 DEF Safe, IdsAreFresh
  <1>6. OneCallbackEach'
    BY <1>1, <1>3, <1>4 DEF Safe, OneCallbackEach
  <1>7. now' \in now..MaxTime /\ timerfd' \in 0..MaxTime /\ ArmedForFirst'
    <2>1. UniqueIds(timer_mset')
      BY <1>5 DEF IdsAreFresh, UniqueIds
    <2>2. timer_mset' \subseteq Wait /\ now \in 1..MaxTime
      BY <1>3 DEF TypeOK
    <2>3. QED
      BY <1>1, <2>1, <2>2, UpdateFirstArms DEF ArmedForFirst, Armed
  <1>8. ExpireInOrder'
    <2>1. \A t \in timer_mset : Before(last, t) /\ t \in Wait
      BY DEF Safe, ExpireInOrder, TypeOK
    <2>2. last.at <= now' /\ now <= now' /\ now' \in Nat
      BY <1>7, Numbers DEF Safe, ExpireInOrder, TypeOK
    <2>3. ASSUME NEW t \in S PROVE t.at <= now' /\ Before(last, t)
      BY <1>2, <2>1, <2>2, Numbers
    <2>4. ASSUME NEW u \in timer_mset \ S, NEW t \in S PROVE Before(t, u)
      BY <1>2, <2>1, Numbers DEF Before
    <2>5. QED
      BY <1>1, <1>3, <2>1, <2>2, <2>3, <2>4 DEF ExpireInOrder
  <1>9. CancelsOnlyItsOwn' /\ LostOnlyByOverwrite'
    BY <1>1, <1>3 DEF Safe, CancelsOnlyItsOwn, LostOnlyByOverwrite
  <1>10. QED
    BY <1>3, <1>5, <1>6, <1>7, <1>8, <1>9 DEF Safe

\* The first of the expired waits gets its callback.
LEMMA OperationSafe ==
    ASSUME TypeOK, Safe, doTimerOperation
    PROVE  Safe' /\ now' \in now..MaxTime /\ timerfd' \in 0..MaxTime
  <1> DEFINE t == First(expire_timers)
  <1>1. /\ expire_timers # {}
        /\ expire_timers' = expire_timers \ {t}
        /\ called' = [called EXCEPT ![t.id] = called[t.id] + 1]
        /\ last' = t
        /\ UNCHANGED <<now, timerfd, timer_mset, id_timer_umap, id_allocator, timer_id, lost>>
    BY DEF doTimerOperation, clock, waits
  <1>2. t \in expire_timers /\ \A u \in expire_timers \ {t} : Before(t, u)
    <2>1. expire_timers \subseteq Wait /\ UniqueIds(expire_timers)
      BY DEF TypeOK, Safe, IdsAreFresh, UniqueIds
    <2>2. QED
      BY <1>1, <2>1, FirstIsFirst
  <1> HIDE DEF t
  <1>3. t \in Wait /\ t.id \in Id
    BY <1>2 DEF TypeOK, Wait
  <1>4. IndexMatchesSet' /\ CancelsOnlyItsOwn' /\ LostOnlyByOverwrite' /\ ArmedForFirst'
    BY <1>1 DEF Safe, IndexMatchesSet, CancelsOnlyItsOwn, LostOnlyByOverwrite, ArmedForFirst
  <1>5. IdsAreFresh'
    BY <1>1, <1>2 DEF Safe, IdsAreFresh, UniqueIds
  <1>6. OneCallbackEach'
    <2>1. timer_mset' \cap expire_timers' = {}
      BY <1>1 DEF Safe, OneCallbackEach
    <2>2. ASSUME NEW i \in Id
          PROVE  called'[i] = IF i < id_allocator'
                                 /\ ~ \E u \in timer_mset' \cup expire_timers' : u.id = i
                              THEN 1 ELSE 0
      <3>1. CASE i = t.id
        <4>1. i < id_allocator /\ called[i] = 0
          BY <1>2, <3>1 DEF Safe, OneCallbackEach, IdsAreFresh
        <4>2. ~ \E u \in timer_mset' \cup expire_timers' : u.id = i
          BY <1>1, <1>2, <3>1 DEF Safe, OneCallbackEach, IdsAreFresh, UniqueIds
        <4>3. called'[i] = 1
          BY <1>1, <3>1, <4>1 DEF TypeOK
        <4>4. QED
          BY <1>1, <4>1, <4>2, <4>3
      <3>2. CASE i # t.id
        <4>1. called'[i] = called[i]
          BY <1>1, <3>2 DEF TypeOK
        <4>2. (\E u \in timer_mset' \cup expire_timers' : u.id = i)
              <=> (\E u \in timer_mset \cup expire_timers : u.id = i)
          BY <1>1, <1>2, <3>2
        <4>3. QED
          BY <1>1, <4>1, <4>2 DEF Safe, OneCallbackEach
      <3>3. QED
        BY <3>1, <3>2
    <2>3. QED
      BY <2>1, <2>2 DEF OneCallbackEach
  <1>7. ExpireInOrder'
    BY <1>1, <1>2 DEF Safe, ExpireInOrder
  <1>8. QED
    BY <1>1, <1>4, <1>5, <1>6, <1>7, MaxTimeAssumption DEF Safe, TypeOK

\* A SteadyTimer forgets its id: its wait, if that is pending, is a lost one.
LEMMA ForgetSafe ==
    ASSUME TypeOK, Safe, NEW s \in Timer, timer_id' = [timer_id EXCEPT ![s] = -1],
           lost \subseteq lost', timer_id[s] \in DOMAIN id_timer_umap => timer_id[s] \in lost',
           UNCHANGED <<now, timerfd, timer_mset, id_timer_umap, id_allocator, expire_timers,
                       called, last>>
    PROVE  Safe'
  <1>1. (IndexMatchesSet /\ OneCallbackEach /\ ExpireInOrder /\ ArmedForFirst)'
    BY DEF Safe, IndexMatchesSet, OneCallbackEach, ExpireInOrder, ArmedForFirst
  <1>2. \A r \in Timer : timer_id'[r] = IF r = s THEN -1 ELSE timer_id[r]
    BY DEF TypeOK
  <1>3. -1 \notin DOMAIN id_timer_umap
    BY MaxWaitsAssumption DEF TypeOK, Id
  <1>4. CancelsOnlyItsOwn'
    BY <1>2, <1>3 DEF Safe, CancelsOnlyItsOwn
  <1>5. LostOnlyByOverwrite'
    <2>1. ASSUME NEW t \in timer_mset PROVE timer_id'[t.timer] = t.id \/ t.id \in lost'
      <3>1. t.timer \in Timer /\ t.id \in DOMAIN id_timer_umap
        BY DEF TypeOK, Wait, Safe, IndexMatchesSet
      <3>2. QED
        BY <1>2, <3>1 DEF Safe, LostOnlyByOverwrite
    <2>2. QED
      BY <2>1 DEF LostOnlyByOverwrite
  <1>6. IdsAreFresh'
    <2>1. \A r \in Timer : timer_id'[r] < id_allocator
      BY <1>2, Numbers DEF Safe, IdsAreFresh
    <2>2. QED
      BY <2>1 DEF Safe, IdsAreFresh
  <1>7. QED
    BY <1>1, <1>4, <1>5, <1>6 DEF Safe

----------------------------------------------------------------------------
(* Types and frames. *)

\* The frames that the actions push.
LEMMA Frames ==
    /\ [kind |-> "expire"] \in Frame
    /\ [kind |-> "return"] \in Frame
    /\ \A s \in Timer : [kind |-> "reset", timer |-> s] \in Frame
    /\ \A due \in BOOLEAN : [kind |-> "event", due |-> due] \in Frame
  BY DEF Frame

\* A frame that resets a SteadyTimer names it.
LEMMA ResetFrame ==
    ASSUME NEW f \in Frame, f.kind = "reset"
    PROVE  f.timer \in Timer
  BY DEF Frame

\* A call made by user code leaves the first frame in place, if there is one.
LEMMA CallBackKeepsFirst ==
    ASSUME stack \in Seq(Frame), NEW f \in Frame, CallBack(f)
    PROVE  /\ stack' \in Seq(Frame) /\ ctl' = "user"
           /\ stack # <<>> => stack' # <<>> /\ stack'[1] = stack[1]
  BY DEF CallBack

\* expireTimerExecute is only entered when no expired wait is outstanding.
LEMMA NotReentered ==
    ASSUME ExpireFrame, expireTimerExecute \/ expireTimerExecuteLate
    PROVE  expire_timers = {} /\ Expire
  <1>1. CASE expireTimerExecute
    BY <1>1 DEF ExpireFrame, expireTimerExecute
  <1>2. CASE expireTimerExecuteLate
    <2>1. stack[1].kind = "event" /\ Expire
      BY <1>2 DEF expireTimerExecuteLate
    <2>2. QED
      BY <2>1 DEF ExpireFrame
  <1>3. QED
    BY <1>1, <1>2

\* The invariant holds after a step that leaves the waits alone.
LEMMA QuietStep ==
    ASSUME IInv, UNCHANGED <<timerfd, waits, expire_timers, timer_id, history>>,
           now' \in now..MaxTime, quit' \in BOOLEAN, stack' \in Seq(Frame),
           ctl' \in {"user", "code", "poll"}, ExpireFrame'
    PROVE  IInv'
  <1>1. TypeOK'
    BY DEF IInv, TypeOK, waits, history
  <1>2. now' \in Nat /\ now <= now'
    BY MaxTimeAssumption DEF IInv, TypeOK
  <1>3. Safe'
    BY <1>2, QuietSafe DEF IInv
  <1>4. QED
    BY <1>1, <1>3 DEF IInv

\* The calls of user code.
LEMMA UserStepIInv ==
    ASSUME IInv, UserStep
    PROVE  IInv'
  <1> USE DEF clock, waits, history
  <1>0. TypeOK /\ ExpireFrame /\ Safe
    BY DEF IInv
  <1>1. now \in now..MaxTime /\ timerfd \in 0..MaxTime
    BY <1>0, MaxTimeAssumption DEF TypeOK
  <1>2. ASSUME NEW s \in Timer, rejectTimer(s) PROVE IInv'
    <2>1. ctl = "user" /\ CallBack([kind |-> "return"])
      BY <1>2 DEF rejectTimer, MayCall
    <2>2. /\ stack' \in Seq(Frame) /\ ctl' = "user"
          /\ stack # <<>> => stack' # <<>> /\ stack'[1] = stack[1]
      BY <1>0, <2>1, Frames, CallBackKeepsFirst DEF TypeOK
    <2>3. UNCHANGED <<clock, waits, expire_timers, timer_id, quit, history>>
      BY <1>2 DEF rejectTimer
    <2>4. ExpireFrame'
      BY <1>0, <2>2, <2>3 DEF ExpireFrame
    <2>5. QED
      BY <1>0, <1>1, <2>2, <2>3, <2>4, QuietStep DEF TypeOK
  <1>3. ASSUME NEW s \in Timer, registerTimer(s) PROVE IInv'
    <2>1. Safe' /\ now' \in now..MaxTime /\ timerfd' \in 0..MaxTime
      BY <1>0, <1>3, RegisterSafe
    <2>2. /\ UNCHANGED <<expire_timers, quit, stack, ctl, history>>
          /\ timer_id' = [timer_id EXCEPT ![s] = id_allocator]
          /\ id_allocator < MaxWaits /\ id_allocator' = id_allocator + 1
          /\ now + Timeout[s] <= MaxTime
          /\ Insert([id |-> id_allocator, at |-> now + Timeout[s], timer |-> s])
      BY <1>3 DEF registerTimer, acceptTimer
    <2>3. id_allocator \in Id /\ id_allocator' \in 0..MaxWaits /\ now + Timeout[s] \in 1..MaxTime
      <3>1. id_allocator \in Nat /\ now \in Nat /\ now >= 1 /\ Timeout[s] \in Nat
        BY <1>0, TimeoutAssumption, MaxWaitsAssumption, MaxTimeAssumption DEF TypeOK
      <3>2. QED
        BY <2>2, <3>1, MaxWaitsAssumption, MaxTimeAssumption DEF Id
    <2>4. [id |-> id_allocator, at |-> now + Timeout[s], timer |-> s] \in Wait
      BY <2>3 DEF Wait
    <2>5. /\ timer_mset' \subseteq Wait /\ DOMAIN id_timer_umap' \subseteq Id
          /\ \A i \in DOMAIN id_timer_umap' : id_timer_umap'[i] \in Wait
      BY <1>0, <2>2, <2>3, <2>4 DEF TypeOK, Insert
    <2>6. timer_id' \in [Timer -> Id \cup {-1}]
      BY <1>0, <2>2, <2>3 DEF TypeOK
    <2>7. now' \in 1..MaxTime
      BY <1>0, <2>1, MaxTimeAssumption DEF TypeOK
    <2>8. TypeOK'
      BY <1>0, <2>1, <2>2, <2>3, <2>5, <2>6, <2>7 DEF TypeOK
    <2>9. ExpireFrame'
      BY <1>0, <2>2 DEF ExpireFrame
    <2>10. QED
      BY <2>1, <2>8, <2>9 DEF IInv
  <1>4. ASSUME NEW s \in Timer, cancelNothing(s) PROVE IInv'
    <2>1. /\ UNCHANGED <<clock, waits, expire_timers, quit, stack, ctl, history>>
          /\ timer_id' = [timer_id EXCEPT ![s] = -1]
          /\ timer_id[s] \notin DOMAIN id_timer_umap
      BY <1>4 DEF cancelNothing
    <2>2. Safe'
      BY <1>0, <2>1, ForgetSafe
    <2>3. TypeOK'
      BY <1>0, <2>1 DEF TypeOK
    <2>4. ExpireFrame'
      BY <1>0, <2>1 DEF ExpireFrame
    <2>5. QED
      BY <2>2, <2>3, <2>4 DEF IInv
  <1>5. ASSUME NEW s \in Timer, cancelTimer(s) PROVE IInv'
    <2>1. Safe' /\ now' \in now..MaxTime /\ timerfd' \in 0..MaxTime
      BY <1>0, <1>5, CancelSafe
    <2>2. /\ Erase({id_timer_umap[timer_id[s]]})
          /\ called' = [called EXCEPT ![timer_id[s]] = called[timer_id[s]] + 1]
          /\ CallBack([kind |-> "reset", timer |-> s])
          /\ UNCHANGED <<id_allocator, expire_timers, timer_id, quit, last, lost>>
      BY <1>5 DEF cancelTimer
    <2>3. /\ stack' \in Seq(Frame) /\ ctl' = "user"
          /\ stack # <<>> => stack' # <<>> /\ stack'[1] = stack[1]
      BY <1>0, <2>2, Frames, CallBackKeepsFirst DEF TypeOK
    <2>4. /\ timer_mset' \subseteq Wait /\ DOMAIN id_timer_umap' \subseteq Id
          /\ \A i \in DOMAIN id_timer_umap' : id_timer_umap'[i] \in Wait
      BY <1>0, <2>2 DEF TypeOK, Erase, Indexed
    <2>5. called' \in [Id -> Nat]
      <3>1. timer_id[s] \in Id
        BY <1>0, <1>5 DEF cancelTimer, TypeOK
      <3>2. called \in [Id -> Nat] /\ called[timer_id[s]] + 1 \in Nat
        BY <1>0, <3>1 DEF TypeOK
      <3>3. QED
        BY <2>2, <3>2
    <2>6. now' \in 1..MaxTime
      BY <1>0, <2>1, MaxTimeAssumption DEF TypeOK
    <2>7. TypeOK'
      BY <1>0, <2>1, <2>2, <2>3, <2>4, <2>5, <2>6 DEF TypeOK
    <2>8. ExpireFrame'
      BY <1>0, <2>2, <2>3 DEF ExpireFrame
    <2>9. QED
      BY <2>1, <2>7, <2>8 DEF IInv
  <1>6. CASE Quit
    <2>1. ExpireFrame'
      BY <1>0, <1>6 DEF ExpireFrame, Quit
    <2>2. QED
      BY <1>0, <1>1, <1>6, <2>1, QuietStep DEF Quit, TypeOK
  <1>7. CASE loop_wait
    <2>1. ExpireFrame'
      BY <1>0, <1>7 DEF ExpireFrame, loop_wait
    <2>2. QED
      BY <1>0, <1>1, <1>7, <2>1, QuietStep DEF loop_wait, TypeOK
  <1>8. QED
    BY <1>2, <1>3, <1>4, <1>5, <1>6, <1>7 DEF UserStep, async_wait, cancel

\* The steps of loop_wait and of expireTimerExecute, and the returns.
LEMMA LoopStepIInv ==
    ASSUME IInv, otherEvent \/ LoopStep \/ Return \/ Tick
    PROVE  IInv'
  <1> USE DEF clock, waits, history
  <1>0. TypeOK /\ ExpireFrame /\ Safe
    BY DEF IInv
  <1>1. now \in now..MaxTime /\ timerfd \in 0..MaxTime
    BY <1>0, MaxTimeAssumption DEF TypeOK
  <1>2. CASE otherEvent
    <2>1. PICK due \in BOOLEAN : CallBack([kind |-> "event", due |-> due])
      BY <1>2 DEF otherEvent, readable
    <2>2. stack' \in Seq(Frame) /\ ctl' = "user"
      BY <1>0, <2>1, Frames, CallBackKeepsFirst DEF TypeOK
    <2>3. ctl = "poll" /\ UNCHANGED <<clock, waits, expire_timers, timer_id, quit, history>>
      BY <1>2 DEF otherEvent
    <2>4. ExpireFrame'
      BY <1>0, <2>2, <2>3 DEF ExpireFrame
    <2>5. QED
      BY <1>0, <1>1, <2>2, <2>3, <2>4, QuietStep DEF TypeOK
  <1>3. CASE expireTimerExecute \/ expireTimerExecuteLate
    <2>1. expire_timers = {} /\ Expire
      BY <1>0, <1>3, NotReentered
    <2>2. Safe' /\ now' \in now..MaxTime /\ timerfd' \in 0..MaxTime
      BY <1>0, <2>1, ExpireSafe
    <2>3. /\ expire_timers' = {t \in timer_mset : t.at <= now}
          /\ Erase(expire_timers')
          /\ stack' = <<[kind |-> "expire"]>> /\ ctl' = "code"
          /\ UNCHANGED <<id_allocator, timer_id, quit, history>>
      BY <2>1 DEF Expire
    <2>4. /\ timer_mset' \subseteq Wait /\ DOMAIN id_timer_umap' \subseteq Id
          /\ \A i \in DOMAIN id_timer_umap' : id_timer_umap'[i] \in Wait
          /\ expire_timers' \subseteq Wait
      BY <1>0, <2>3 DEF TypeOK, Erase, Indexed
    <2>5. now' \in 1..MaxTime
      BY <1>0, <2>2, MaxTimeAssumption DEF TypeOK
    <2>6. stack' \in Seq(Frame) /\ stack' # <<>> /\ stack'[1].kind = "expire"
      BY <2>3, Frames
    <2>7. TypeOK'
      BY <1>0, <2>2, <2>3, <2>4, <2>5, <2>6 DEF TypeOK
    <2>8. ExpireFrame'
      BY <2>3, <2>6 DEF ExpireFrame
    <2>9. QED
      BY <2>2, <2>7, <2>8 DEF IInv
  <1>4. CASE doTimerOperation
    <2>1. Safe' /\ now' \in now..MaxTime /\ timerfd' \in 0..MaxTime
      BY <1>0, <1>4, OperationSafe
    <2>2. /\ expire_timers # {} /\ expire_timers' \subseteq expire_timers
          /\ called' = [called EXCEPT ![First(expire_timers).id] = called[First(expire_timers).id] + 1]
          /\ last' = First(expire_timers)
          /\ ctl = "code" /\ ctl' = "user"
          /\ UNCHANGED <<clock, waits, timer_id, quit, stack, lost>>
      BY <1>4 DEF doTimerOperation
    <2>3. First(expire_timers) \in expire_timers
      <3>1. expire_timers \subseteq Wait /\ UniqueIds(expire_timers)
        BY <1>0 DEF TypeOK, Safe, IdsAreFresh, UniqueIds
      <3>2. QED
        BY <2>2, <3>1, FirstIsFirst
    <2>4. called' \in [Id -> Nat] /\ last' \in Wait
      BY <1>0, <2>2, <2>3 DEF TypeOK, Wait
    <2>5. TypeOK'
      BY <1>0, <2>2, <2>4 DEF TypeOK
    <2>6. ExpireFrame'
      BY <1>0, <2>2 DEF ExpireFrame
    <2>7. QED
      BY <2>1, <2>5, <2>6 DEF IInv
  <1>5. CASE expireReturns \/ otherReturns
    <2>1. Again /\ expire_timers = {}
      <3>1. CASE expireReturns
        BY <3>1 DEF expireReturns
      <3>2. CASE otherReturns
        <4>1. Again /\ stack[1].kind = "event"
          BY <3>2 DEF otherReturns
        <4>2. QED
          BY <1>0, <4>1 DEF ExpireFrame
      <3>3. QED
        BY <1>5, <3>1, <3>2
    <2>2. /\ stack' = <<>> /\ ctl' \in {"user", "poll"}
          /\ UNCHANGED <<clock, waits, expire_timers, timer_id, quit, history>>
      BY <2>1 DEF Again
    <2>3. ExpireFrame' /\ stack' \in Seq(Frame)
      BY <2>1, <2>2 DEF ExpireFrame
    <2>4. QED
      BY <1>0, <1>1, <2>2, <2>3, QuietStep DEF TypeOK
  <1>6. CASE operationReturns
    <2>1. ExpireFrame'
      BY <1>0, <1>6 DEF ExpireFrame, operationReturns
    <2>2. QED
      BY <1>0, <1>1, <1>6, <2>1, QuietStep DEF operationReturns, TypeOK
  <1>7. CASE callReturns
    <2>1. /\ ctl = "user" /\ stack # <<>> /\ Top.kind \in {"return", "reset"}
          /\ stack' = SubSeq(stack, 1, Len(stack) - 1)
          /\ UNCHANGED <<clock, waits, expire_timers, quit, ctl, called, last>>
      BY <1>7 DEF callReturns
    <2>2. stack' \in Seq(Frame) /\ Top \in Frame
      BY <1>0, <2>1 DEF TypeOK, Top
    <2>3. ExpireFrame'
      <3>1. ASSUME expire_timers # {} PROVE stack' # <<>> /\ stack'[1].kind = "expire"
        <4>1. stack[1].kind = "expire"
          BY <1>0, <3>1 DEF ExpireFrame
        <4>2. Len(stack) # 1
          BY <2>1, <4>1 DEF Top
        <4>3. Len(stack) \in Nat /\ Len(stack) >= 2
          <5>1. stack \in Seq(Frame) /\ stack # <<>>
            BY <1>0, <2>1 DEF TypeOK
          <5>2. Len(stack) \in Nat /\ Len(stack) # 0
            BY <5>1, EmptySeq
          <5>3. \A n \in Nat : n # 0 /\ n # 1 => n >= 2
            OBVIOUS
          <5>4. QED
            BY <4>2, <5>2, <5>3, Zenon
        <4>4. Len(stack') = Len(stack) - 1 /\ stack'[1] = stack[1]
          BY <1>0, <2>1, <4>3 DEF TypeOK
        <4>5. QED
          BY <4>1, <4>3, <4>4
      <3>2. QED
        BY <2>1, <3>1 DEF ExpireFrame
    <2>4. CASE Top.kind = "reset"
      <3>1. /\ timer_id' = [timer_id EXCEPT ![Top.timer] = -1]
            /\ lost' = lost \cup ({timer_id[Top.timer]} \cap DOMAIN id_timer_umap)
        BY <1>7, <2>4 DEF callReturns
      <3>2. Top.timer \in Timer
        BY <2>2, <2>4, ResetFrame
      <3>3. Safe'
        BY <1>0, <2>1, <3>1, <3>2, ForgetSafe
      <3>4. timer_id' \in [Timer -> Id \cup {-1}] /\ lost' \subseteq Id
        BY <1>0, <3>1, <3>2 DEF TypeOK
      <3>5. TypeOK'
        BY <1>0, <2>1, <2>2, <3>4 DEF TypeOK
      <3>6. QED
        BY <2>3, <3>3, <3>5 DEF IInv
    <2>5. CASE Top.kind # "reset"
      <3>1. UNCHANGED <<timer_id, lost>>
        BY <1>7, <2>5 DEF callReturns
      <3>2. QED
        BY <1>0, <1>1, <2>1, <2>2, <2>3, <3>1, QuietStep DEF TypeOK
    <2>6. QED
      BY <2>4, <2>5
  <1>8. CASE Tick
    <2>1. ExpireFrame'
      BY <1>0, <1>8 DEF ExpireFrame, Tick
    <2>2. now' \in now..MaxTime
      BY <1>0, <1>8, MaxTimeAssumption DEF Tick, TypeOK
    <2>3. QED
      BY <1>0, <1>8, <2>1, <2>2, QuietStep DEF Tick, TypeOK
  <1>9. QED
    BY <1>2, <1>3, <1>4, <1>5, <1>6, <1>7, <1>8 DEF LoopStep, Return

\* Every step keeps the invariant.
LEMMA StepIInv == IInv /\ [Next]_vars => IInv'
  <1> SUFFICES ASSUME IInv, [Next]_vars PROVE IInv'
    OBVIOUS
  <1>1. CASE UserStep
    BY <1>1, UserStepIInv
  <1>2. CASE otherEvent \/ LoopStep \/ Return \/ Tick
    BY <1>2, LoopStepIInv
  <1>3. CASE UNCHANGED vars
    BY <1>3 DEF vars, IInv, TypeOK, ExpireFrame, Safe, IndexMatchesSet, IdsAreFresh,
                OneCallbackEach, ExpireInOrder, CancelsOnlyItsOwn, LostOnlyByOverwrite,
                ArmedForFirst
  <1>4. QED
    BY <1>1, <1>2, <1>3 DEF Next

\* The invariant holds in every reachable state.
LEMMA Invariance == Spec => []IInv
  BY InitIInv, StepIInv, PTL DEF Spec

----------------------------------------------------------------------------
(* Theorems. *)

\* Every member of TimerService::Impl and of SteadyTimer keeps its type.
THEOREM TypeCorrect == Spec => []TypeOK
  <1>1. IInv => TypeOK
    BY DEF IInv
  <1>2. QED
    BY <1>1, Invariance, PTL

\* timer_mset_ and id_timer_umap_ hold the same waits after every step of
\* registerTimer, cancelTimer and expireTimerExecute.
THEOREM IndexIsExact == Spec => []IndexMatchesSet
  <1>1. IInv => IndexMatchesSet
    BY DEF IInv, Safe
  <1>2. QED
    BY <1>1, Invariance, PTL

\* The timerfd is armed for the first pending wait, though registerTimer and
\* cancelTimer touch it only when that wait changes.
THEOREM TimerfdFollowsFirst == Spec => []ArmedForFirst
  <1>1. IInv => ArmedForFirst
    BY DEF IInv, Safe
  <1>2. QED
    BY <1>1, Invariance, PTL

\* An accepted wait gets exactly one callback, from expireTimerExecute or from
\* cancelTimer, however their callbacks nest.
THEOREM ExactlyOneCallback == Spec => []OneCallbackEach
  <1>1. IInv => OneCallbackEach
    BY DEF IInv, Safe
  <1>2. QED
    BY <1>1, Invariance, PTL

\* doTimerOperation runs in the order of the deadlines and of registration,
\* never early.
THEOREM ExpiryIsOrdered == Spec => []ExpireInOrder
  <1>1. IInv => ExpireInOrder
    BY DEF IInv, Safe
  <1>2. QED
    BY <1>1, Invariance, PTL

\* SteadyTimer::cancel reaches a wait of that SteadyTimer or none: the id it
\* keeps after an expiry or a second async_wait finds no other wait.
THEOREM CancelReachesItsOwn == Spec => []CancelsOnlyItsOwn
  <1>1. IInv => CancelsOnlyItsOwn
    BY DEF IInv, Safe
  <1>2. QED
    BY <1>1, Invariance, PTL

\* Every pending wait is the one its SteadyTimer's timer_id_ names, so cancel
\* reaches it, unless cancel overwrote the id that a callback had just set.
THEOREM WaitsStayReachable == Spec => []LostOnlyByOverwrite
  <1>1. IInv => LostOnlyByOverwrite
    BY DEF IInv, Safe
  <1>2. QED
    BY <1>1, Invariance, PTL

=============================================================================
