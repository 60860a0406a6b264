----------------------- MODULE AgentRegistry_proofs -----------------------
(***************************************************************************)
(* Proofs about AgentRegistry, for any calls, paths, names and limit. The  *)
(* slots can be counted because an agent has at most one entry, under its  *)
(* own key, and because a path that a call has reserved is written by no   *)
(* other call until it commits or is dropped.                              *)
(***************************************************************************)
EXTENDS AgentRegistry, FiniteSetTheorems, TLAPS

\* An entry is under the key of its agent; the root has no other.
KeysMatch ==
    \A k \in Keys : /\ tree[k] \in Agents => KeyOf(tree[k]) = k
                    /\ tree[k] = Root => k = RootPath

\* A call that has begun works on an agent, a spawn always on its own.
TargetsKnown ==
    \A c \in Creators : /\ c \in Spawns => target[c] = c
                        /\ at[c] # "idle" => target[c] \in Agents

\* What has a rollout has a nickname, and so has what a resume call works on and
\* what is about to be created.
Named ==
    /\ \A t \in stored \cap Agents : nick[t] # NoName
    /\ \A c \in Creators :
          at[c] \in {"prepared", "created"} \/ (c \in Resumes /\ at[c] # "idle") =>
              nick[target[c]] # NoName

\* The nicknames of the current generation are in the pool of used ones.
NamesUsed ==
    \A s \in Spawns : nick[s] # NoName =>
        nick[s][2] <= gen /\ (nick[s][2] = gen => nick[s] \in used)

RegistryInv ==
    /\ TypeOK /\ KeysMatch /\ TargetsKnown /\ Named /\ NamesUsed
    /\ PathsExclusive /\ NicknamesDistinct
    /\ SlotsAccountedFor /\ total <= MaxThreads

-----------------------------------------------------------------------------
\* The key of an agent is its path, or the agent itself, and never the root's.
LEMMA KeyFacts ==
    \A t \in Agents : /\ KeyOf(t) \in Keys /\ KeyOf(t) # RootPath
                      /\ KeyOf(t) \in Paths \/ KeyOf(t) = t
                      /\ KeyOf(t) \in Paths => t \notin Paths
  BY RegistryAssumption DEF KeyOf, Keys, Threads

\* A vacant or reserved entry is no agent's, and no thread is a path.
LEMMA ValueFacts ==
    /\ Vacant \notin Threads /\ Reserved \notin Threads /\ Vacant # Reserved
    /\ Root \in Threads /\ Root \notin Agents /\ Agents \subseteq Threads
    /\ Threads \cap Paths = {} /\ RootPath \notin Threads /\ RootPath \notin Paths
    /\ RootPath \in Keys /\ Paths \subseteq Keys
    /\ Spawns \subseteq Agents
  BY RegistryAssumption DEF Threads, Agents, Vacant, Reserved, Keys

\* The calls are of three kinds.
LEMMA CallFacts ==
    /\ Creators \subseteq Calls /\ Closes \subseteq Calls /\ Creators \cap Closes = {}
    /\ Spawns \subseteq Creators /\ Resumes \subseteq Creators /\ Spawns \cap Resumes = {}
    /\ \A c \in Creators : c \in Spawns \/ c \in Resumes
  BY RegistryAssumption DEF Calls, Creators

\* What prepare_thread_spawn may write into the entry of the root.
LEMMA RootEntryKept ==
    ASSUME TypeOK, KeysMatch, NEW r \in RootEntries
    PROVE  r \in {Root, Vacant, Reserved}
<1>1. tree[RootPath] \in Threads \cup {Vacant, Reserved}
  BY ValueFacts DEF TypeOK
<1>2. tree[RootPath] \notin Agents
  BY KeyFacts, ValueFacts DEF KeysMatch
<1>3. tree[RootPath] \in {Root, Vacant, Reserved}
  BY <1>1, <1>2 DEF Threads
<1> QED
  BY <1>3 DEF RootEntries

-----------------------------------------------------------------------------
\* The invariant holds at the start.
LEMMA InitInv == Init => RegistryInv
<1> SUFFICES ASSUME Init PROVE RegistryInv
  OBVIOUS
<1> USE DEF Init
<1>1. TypeOK
  <2>1. nick \in [Agents -> Nicknames \cup {NoName}]
    BY DEF Nicknames
  <2>2. tree \in [Keys -> Threads \cup {Vacant, Reserved}]
    BY ValueFacts
  <2>3. target \in [Calls -> Threads]
    BY ValueFacts
  <2>4. loaded \subseteq Threads /\ stored \subseteq Threads
    BY DEF Threads, Agents
  <2> QED
    BY <2>1, <2>2, <2>3, <2>4 DEF TypeOK
<1>2. KeysMatch /\ TargetsKnown /\ PathsExclusive
  BY ValueFacts, CallFacts DEF KeysMatch, TargetsKnown, PathsExclusive
<1>3. Named /\ NamesUsed /\ NicknamesDistinct
  BY ValueFacts, CallFacts, RegistryAssumption DEF Named, NamesUsed, NicknamesDistinct, Agents
<1>4. SlotsAccountedFor /\ total <= MaxThreads
  <2>1. Holding = {}
    BY CallFacts DEF Holding
  <2>2. Registered = {}
    BY ValueFacts DEF Registered
  <2> QED
    BY <2>1, <2>2, FS_EmptySet, RegistryAssumption DEF SlotsAccountedFor
<1> QED
  BY <1>1, <1>2, <1>3, <1>4 DEF RegistryInv

\* A nickname, new or preferred, is one of the session's.
LEMMA NicknameType ==
    ASSUME TypeOK, NEW t \in Agents,
           Nickname(t) \/ (PreferredNickname(t) /\ nick[t] # NoName)
    PROVE  /\ used' \subseteq Nicknames /\ gen' \in Nat
           /\ nick' \in [Agents -> Nicknames \cup {NoName}]
           /\ nick'[t] # NoName
           /\ \A u \in Agents \ {t} : nick'[u] = nick[u]
<1> USE RegistryAssumption DEF TypeOK, Nicknames
<1>1. CASE PreferredNickname(t) /\ nick[t] # NoName
  BY <1>1 DEF PreferredNickname
<1>2. CASE Nickname(t)
  <2>1. PICK m \in Names \X Nat :
           /\ nick' = [nick EXCEPT ![t] = m] /\ gen' \in Nat
           /\ used' = used \cup {m} \/ used' = {m}
    BY <1>2 DEF Nickname
  <2> QED
    BY <2>1
<1> QED
  BY <1>1, <1>2

\* The calls that hold a slot and the registered agents can be counted, and as long
\* as there is one of either a slot is taken.
LEMMA Counts ==
    ASSUME TypeOK, KeysMatch, SlotsAccountedFor
    PROVE  /\ IsFiniteSet(Holding) /\ Cardinality(Holding) \in Nat
           /\ IsFiniteSet(Registered) /\ Cardinality(Registered) \in Nat
           /\ Holding # {} \/ Registered # {} => total - 1 \in Nat
<1>1. IsFiniteSet(Holding)
  <2>1. Holding \in SUBSET Calls
    BY CallFacts DEF Holding
  <2> QED
    BY <2>1, FS_Subset, RegistryAssumption
<1>2. IsFiniteSet(Registered)
  <2> DEFINE f == [k \in Registered |-> tree[k]]
  <2>1. f \in [Registered -> Agents]
    BY DEF Registered
  <2>2. \A k, j \in Registered : f[k] = f[j] => k = j
    BY DEF Registered, KeysMatch
  <2>3. f \in Injection(Registered, Agents)
    BY <2>1, <2>2 DEF Injection, IsInjective
  <2>4. IsFiniteSet(Agents)
    <3>1. Agents \in SUBSET Threads
      BY ValueFacts
    <3> QED
      BY <3>1, FS_Subset, RegistryAssumption
  <2> QED
    BY <2>3, <2>4, FS_Injection
<1>3. Cardinality(Holding) \in Nat /\ Cardinality(Registered) \in Nat
  BY <1>1, <1>2, FS_CardinalityType
<1>4. Holding # {} => Cardinality(Holding) # 0
  BY <1>1, FS_EmptySet
<1>5. Registered # {} => Cardinality(Registered) # 0
  BY <1>2, FS_EmptySet
<1> QED
  BY <1>1, <1>2, <1>3, <1>4, <1>5 DEF SlotsAccountedFor, TypeOK

\* Every step preserves the types; a slot is given back only while one is taken.
LEMMA TypeStep == RegistryInv /\ [Next]_vars => TypeOK'
<1> SUFFICES ASSUME RegistryInv, [Next]_vars PROVE TypeOK'
  OBVIOUS
<1> USE DEF TypeOK, RegistryInv
<1>1. ASSUME NEW c \in Creators, NEW t \in Agents, LookUp(c, t) PROVE TypeOK'
  BY <1>1, CallFacts, ValueFacts DEF LookUp, Move, nickVars
<1>2. ASSUME NEW c \in Creators, ReserveSlot(c) \/ ReserveSlotFails(c) PROVE TypeOK'
  BY <1>2, CallFacts DEF ReserveSlot, ReserveSlotFails, nickVars
<1>3. ASSUME NEW c \in Creators, PrepareSpawn(c) PROVE TypeOK'
  <2>1. target[c] \in Agents /\ (c \in Resumes => nick[target[c]] # NoName)
    BY <1>3 DEF PrepareSpawn, Move, TargetsKnown, Named
  <2>2. /\ used' \subseteq Nicknames /\ gen' \in Nat
        /\ nick' \in [Agents -> Nicknames \cup {NoName}]
    BY <1>3, <2>1, CallFacts, NicknameType DEF PrepareSpawn
  <2>3. tree' \in [Keys -> Threads \cup {Vacant, Reserved}]
    BY <1>3, RootEntryKept, ValueFacts DEF PrepareSpawn
  <2> QED
    BY <1>3, <2>2, <2>3, CallFacts DEF PrepareSpawn, Move
<1>4. ASSUME NEW c \in Creators, PrepareFails(c) \/ DropReservation(c) PROVE TypeOK'
  <2>1. tree' \in [Keys -> Threads \cup {Vacant, Reserved}]
    BY <1>4, RootEntryKept, ValueFacts DEF PrepareFails, DropReservation
  <2>2. c \in Holding
    BY <1>4 DEF PrepareFails, DropReservation, Move, Holding
  <2>3. total' \in Nat
    BY <1>4, <2>2, Counts DEF PrepareFails, DropReservation
  <2> QED
    BY <1>4, <2>1, <2>3, CallFacts DEF PrepareFails, DropReservation, Move, nickVars
<1>5. ASSUME NEW c \in Creators, CreateThread(c) PROVE TypeOK'
  BY <1>5, CallFacts DEF CreateThread, Move, nickVars
<1>6. ASSUME NEW c \in Creators, Commit(c) PROVE TypeOK'
  <2>1. target[c] \in Agents /\ nick[target[c]] # NoName
    BY <1>6 DEF Commit, Move, TargetsKnown, Named
  <2>2. used' \subseteq Nicknames /\ lost' \in Nat
    BY <1>6, <2>1 DEF Commit
  <2>3. tree' \in [Keys -> Threads \cup {Vacant, Reserved}]
    BY <1>6, <2>1, ValueFacts DEF Commit
  <2> QED
    BY <1>6, <2>2, <2>3, CallFacts DEF Commit, Move
<1>7. ASSUME NEW c \in Closes, NEW t \in Threads, RemoveThread(c, t) PROVE TypeOK'
  BY <1>7, CallFacts DEF RemoveThread, Move, nickVars
<1>8. ASSUME NEW c \in Closes, ReleaseThread(c) PROVE TypeOK'
  <2>1. total' \in Nat
    <3>1. CASE total' = total
      BY <3>1
    <3>2. CASE total' # total
      <4>1. PICK k \in Keys : tree[k] = target[c] /\ target[c] # Root /\ total' = total - 1
        BY <1>8, <3>2 DEF ReleaseThread, Release
      <4>2. target[c] \in Threads
        BY CallFacts
      <4>3. k \in Registered
        BY <4>1, <4>2 DEF Registered, Threads
      <4> QED
        BY <4>1, <4>3, Counts
    <3> QED
      BY <3>1, <3>2
  <2>2. tree' \in [Keys -> Threads \cup {Vacant, Reserved}]
    BY <1>8 DEF ReleaseThread, Release
  <2> QED
    BY <1>8, <2>1, <2>2, CallFacts DEF ReleaseThread, Move, nickVars
<1>9. ASSUME NEW t \in Agents, Unload(t) PROVE TypeOK'
  BY <1>9 DEF Unload, nickVars
<1>10. CASE UNCHANGED vars
  BY <1>10 DEF vars, nickVars
<1> QED
  BY <1>1, <1>2, <1>3, <1>4, <1>5, <1>6, <1>7, <1>8, <1>9, <1>10 DEF Next, Spawn, Close

\* A call moves only itself, and changes its thread only where it begins.
LEMMA CallsMove ==
    ASSUME TypeOK, [Next]_vars, NEW d \in Creators
    PROVE  \/ at'[d] = at[d] /\ target'[d] = target[d]
           \/ Spawn(d)
<1> USE DEF TypeOK
<1>1. ASSUME NEW c \in Creators, Spawn(c)
      PROVE  d # c => at'[d] = at[d] /\ target'[d] = target[d]
  <2>1. CASE \E t \in Agents : LookUp(c, t)
    BY <2>1, CallFacts DEF LookUp, Move
  <2>2. CASE ReserveSlot(c) \/ ReserveSlotFails(c) \/ PrepareSpawn(c) \/ PrepareFails(c)
    BY <2>2, CallFacts DEF ReserveSlot, ReserveSlotFails, PrepareSpawn, PrepareFails, Move
  <2>3. CASE DropReservation(c) \/ CreateThread(c) \/ Commit(c)
    BY <2>3, CallFacts DEF DropReservation, CreateThread, Commit, Move
  <2> QED
    BY <1>1, <2>1, <2>2, <2>3 DEF Spawn
<1>2. ASSUME NEW c \in Closes, Close(c) PROVE at'[d] = at[d] /\ target'[d] = target[d]
  BY <1>2, CallFacts DEF Close, RemoveThread, ReleaseThread, Move
<1>3. CASE \E t \in Agents : Unload(t)
  BY <1>3 DEF Unload
<1>4. CASE UNCHANGED vars
  BY <1>4 DEF vars
<1> QED
  BY <1>1, <1>2, <1>3, <1>4 DEF Next

\* Every step of a creating call, seen from the call.
LEMMA TargetStep == TypeOK /\ TargetsKnown /\ [Next]_vars => TargetsKnown'
<1> SUFFICES ASSUME TypeOK, TargetsKnown, [Next]_vars, NEW c \in Creators
             PROVE  /\ c \in Spawns => target'[c] = c
                    /\ at'[c] # "idle" => target'[c] \in Agents
  BY DEF TargetsKnown
<1> USE DEF TypeOK, TargetsKnown
<1>1. CASE at'[c] = at[c] /\ target'[c] = target[c]
  BY <1>1
<1>2. ASSUME NEW t \in Agents, LookUp(c, t) PROVE target'[c] \in Agents /\ c \notin Spawns
  BY <1>2, CallFacts DEF LookUp, Move
<1>3. CASE ReserveSlot(c) \/ ReserveSlotFails(c) \/ PrepareSpawn(c) \/ PrepareFails(c)
           \/ DropReservation(c) \/ CreateThread(c) \/ Commit(c)
  <2>1. target' = target
    BY <1>3 DEF ReserveSlot, ReserveSlotFails, PrepareSpawn, PrepareFails,
       DropReservation, CreateThread, Commit
  <2>2. c \in Spawns \/ at[c] # "idle"
    BY <1>3, CallFacts DEF ReserveSlot, ReserveSlotFails, PrepareSpawn, PrepareFails,
       DropReservation, CreateThread, Commit, Ready, Move
  <2> QED
    BY <2>1, <2>2, ValueFacts
<1> QED
  BY <1>1, <1>2, <1>3, CallsMove DEF Spawn

\* A call that has begun keeps its thread.
LEMMA TargetKept ==
    ASSUME TypeOK, [Next]_vars, NEW c \in Creators, at[c] # "idle"
    PROVE  target'[c] = target[c]
<1>1. CASE Spawn(c)
  <2>1. ASSUME NEW t \in Agents, LookUp(c, t) PROVE FALSE
    BY <2>1 DEF LookUp, Move
  <2> QED
    BY <1>1, <2>1 DEF Spawn, ReserveSlot, ReserveSlotFails, PrepareSpawn,
       PrepareFails, DropReservation, CreateThread, Commit
<1> QED
  BY <1>1, CallsMove

-----------------------------------------------------------------------------
(* The entries.                                                            *)

\* The entry of an agent is always under its own key.
LEMMA KeysStep == TypeOK /\ KeysMatch /\ TargetsKnown /\ [Next]_vars => KeysMatch'
<1> SUFFICES ASSUME TypeOK, KeysMatch, TargetsKnown, [Next]_vars PROVE KeysMatch'
  OBVIOUS
<1> USE DEF TypeOK
<1>1. ASSUME \A k \in Keys : \/ tree'[k] \in {tree[k], Vacant, Reserved}
                             \/ k = RootPath /\ tree'[k] = Root
                             \/ tree'[k] \in Agents /\ KeyOf(tree'[k]) = k
      PROVE  KeysMatch'
  BY <1>1, ValueFacts DEF KeysMatch, KeyOf
<1>2. ASSUME NEW c \in Creators, PrepareSpawn(c) \/ PrepareFails(c) PROVE KeysMatch'
  <2>1. PICK r \in {Root, Vacant, Reserved} : \A k \in Keys :
           tree'[k] \in {tree[k], Reserved} \/ (k = RootPath /\ tree'[k] = r)
    BY <1>2, RootEntryKept DEF PrepareSpawn, PrepareFails
  <2> QED
    BY <1>1, <2>1
<1>3. ASSUME NEW c \in Creators, DropReservation(c) PROVE KeysMatch'
  BY <1>1, <1>3 DEF DropReservation
<1>4. ASSUME NEW c \in Creators, Commit(c) PROVE KeysMatch'
  <2>1. target[c] \in Agents
    BY <1>4 DEF Commit, Move, TargetsKnown
  <2>2. \A k \in Keys : tree'[k] = IF k = KeyOf(target[c]) THEN target[c] ELSE tree[k]
    BY <1>4 DEF Commit
  <2> QED
    BY <1>1, <2>1, <2>2
<1>5. ASSUME NEW c \in Closes, ReleaseThread(c) PROVE KeysMatch'
  BY <1>1, <1>5 DEF ReleaseThread, Release
<1>6. ASSUME UNCHANGED tree PROVE KeysMatch'
  BY <1>1, <1>6
<1>7. ASSUME NEW c \in Creators,
             \/ \E t \in Agents : LookUp(c, t)
             \/ ReserveSlot(c) \/ ReserveSlotFails(c) \/ CreateThread(c)
      PROVE  KeysMatch'
  BY <1>6, <1>7 DEF LookUp, ReserveSlot, ReserveSlotFails, CreateThread
<1>8. ASSUME NEW c \in Closes, NEW t \in Threads, RemoveThread(c, t) PROVE KeysMatch'
  BY <1>6, <1>8 DEF RemoveThread
<1>9. ASSUME NEW t \in Agents, Unload(t) PROVE KeysMatch'
  BY <1>6, <1>9 DEF Unload
<1>10. CASE UNCHANGED vars
  BY <1>6, <1>10 DEF vars
<1> QED
  BY <1>2, <1>3, <1>4, <1>5, <1>7, <1>8, <1>9, <1>10 DEF Next, Spawn, Close

\* The calls that have prepared their spawn and not yet committed it.
Preparing(c) == at[c] \in {"prepared", "created"}

\* A reserved path is written only by the call that has reserved it.
LEMMA ReservedStays ==
    ASSUME TypeOK, KeysMatch, TargetsKnown, PathsExclusive, [Next]_vars,
           NEW d \in Creators, Preparing(d), Preparing(d)', KeyOf(target[d]) \in Paths
    PROVE  /\ tree'[KeyOf(target[d])] = Reserved
           /\ target'[d] = target[d]
<1> DEFINE p == KeyOf(target[d])
<1> USE DEF TypeOK
<1>1. tree[p] = Reserved /\ p \in Keys /\ p # RootPath
  BY ValueFacts DEF PathsExclusive, Preparing
<1>2. \A c \in Creators \ {d} : Preparing(c) => KeyOf(target[c]) # p
  BY DEF PathsExclusive, Preparing
<1>3. ASSUME UNCHANGED <<tree, target>> PROVE tree'[p] = Reserved /\ target'[d] = target[d]
  BY <1>1, <1>3
<1> HIDE DEF p
<1>4. ASSUME NEW c \in Creators, NEW t \in Agents, LookUp(c, t)
      PROVE  tree'[p] = Reserved /\ target'[d] = target[d]
  BY <1>1, <1>4, CallFacts DEF LookUp, Move, Preparing
<1>5. ASSUME NEW c \in Creators,
             ReserveSlot(c) \/ ReserveSlotFails(c) \/ CreateThread(c)
      PROVE  tree'[p] = Reserved /\ target'[d] = target[d]
  BY <1>3, <1>5 DEF ReserveSlot, ReserveSlotFails, CreateThread
<1>6. ASSUME NEW c \in Creators, PrepareSpawn(c) \/ PrepareFails(c)
      PROVE  tree'[p] = Reserved /\ target'[d] = target[d]
  BY <1>1, <1>6 DEF PrepareSpawn, PrepareFails
<1>7. ASSUME NEW c \in Creators, DropReservation(c) \/ Commit(c)
      PROVE  tree'[p] = Reserved /\ target'[d] = target[d]
  <2>1. c # d
    BY <1>7, CallFacts DEF DropReservation, Commit, Move, Preparing
  <2>2. Preparing(c) => KeyOf(target[c]) # p
    BY <1>2, <2>1
  <2>3. tree'[p] = tree[p]
    BY <1>1, <1>7, <2>2 DEF DropReservation, Commit, Move, Preparing
  <2> QED
    BY <1>1, <1>7, <2>3 DEF DropReservation, Commit
<1>8. ASSUME NEW c \in Closes, NEW t \in Threads, RemoveThread(c, t)
      PROVE  tree'[p] = Reserved /\ target'[d] = target[d]
  BY <1>1, <1>8, CallFacts DEF RemoveThread
<1>9. ASSUME NEW c \in Closes, ReleaseThread(c)
      PROVE  tree'[p] = Reserved /\ target'[d] = target[d]
  <2>1. target[c] # Reserved
    BY CallFacts, ValueFacts
  <2> QED
    BY <1>1, <1>9, <2>1 DEF ReleaseThread, Release
<1>10. ASSUME NEW t \in Agents, Unload(t)
       PROVE  tree'[p] = Reserved /\ target'[d] = target[d]
  BY <1>3, <1>10 DEF Unload
<1>11. tree'[p] = Reserved /\ target'[d] = target[d]
  BY <1>4, <1>5, <1>6, <1>7, <1>8, <1>9, <1>10, <1>3 DEF Next, Spawn, Close, vars
<1> QED
  BY <1>11 DEF p

\* A call that begins to prepare finds its path vacant.
LEMMA PreparesVacant ==
    ASSUME TypeOK, [Next]_vars, NEW c \in Creators, ~Preparing(c), Preparing(c)'
    PROVE  PrepareSpawn(c) /\ target'[c] = target[c]
<1> USE DEF TypeOK
<1>1. Spawn(c)
  BY CallsMove DEF Preparing
<1>2. ASSUME NEW t \in Agents, LookUp(c, t) PROVE FALSE
  BY <1>2, CallFacts DEF LookUp, Move, Preparing
<1>3. ASSUME \/ ReserveSlot(c) \/ ReserveSlotFails(c) \/ PrepareFails(c)
             \/ DropReservation(c) \/ Commit(c) \/ CreateThread(c)
      PROVE  FALSE
  BY <1>3, CallFacts DEF ReserveSlot, ReserveSlotFails, PrepareFails, DropReservation,
     Commit, CreateThread, Move, Preparing
<1>4. PrepareSpawn(c)
  BY <1>1, <1>2, <1>3 DEF Spawn
<1> QED
  BY <1>4 DEF PrepareSpawn

\* Two calls never prepare the same path.
LEMMA PathsStep ==
    ASSUME TypeOK, KeysMatch, TargetsKnown, PathsExclusive, [Next]_vars
    PROVE  PathsExclusive'
<1> USE DEF TypeOK
<1>1. ASSUME NEW c \in Creators, Preparing(c)', KeyOf(target'[c]) \in Paths
      PROVE  tree'[KeyOf(target'[c])] = Reserved
  <2>1. CASE Preparing(c)
    <3>1. target'[c] = target[c]
      BY <2>1, TargetKept DEF Preparing
    <3> QED
      BY <1>1, <2>1, <3>1, ReservedStays
  <2>2. CASE ~Preparing(c)
    <3>1. PrepareSpawn(c) /\ target'[c] = target[c]
      BY <1>1, <2>2, PreparesVacant
    <3> QED
      BY <1>1, <3>1, ValueFacts DEF PrepareSpawn
  <2> QED
    BY <2>1, <2>2
<1>2. ASSUME NEW c \in Creators, NEW d \in Creators \ {c}, Preparing(c)', Preparing(d)',
             KeyOf(target'[c]) \in Paths, KeyOf(target'[d]) = KeyOf(target'[c])
      PROVE  FALSE
  <2>1. ASSUME NEW a \in Creators, NEW b \in Creators \ {a}, Preparing(a)', Preparing(b)',
               ~Preparing(a), KeyOf(target'[a]) \in Paths,
               KeyOf(target'[b]) = KeyOf(target'[a])
        PROVE  FALSE
    <3>1. PrepareSpawn(a) /\ target'[a] = target[a]
      BY <2>1, PreparesVacant
    <3>2. tree[KeyOf(target[a])] = Vacant
      BY <2>1, <3>1 DEF PrepareSpawn
    <3>3. target'[b] = target[b] /\ Preparing(b)
      BY <2>1, <3>1, CallFacts DEF PrepareSpawn, Move, Preparing
    <3>4. tree[KeyOf(target[b])] = Reserved
      BY <2>1, <3>1, <3>3 DEF PathsExclusive, Preparing
    <3> QED
      BY <2>1, <3>1, <3>2, <3>3, <3>4, ValueFacts
  <2>2. CASE Preparing(c) /\ Preparing(d)
    <3>2. target'[c] = target[c] /\ target'[d] = target[d]
      BY <2>2, TargetKept DEF Preparing
    <3> QED
      BY <1>2, <2>2, <3>2 DEF PathsExclusive, Preparing
  <2> QED
    BY <1>2, <2>1, <2>2
<1> QED
  BY <1>1, <1>2 DEF PathsExclusive, Preparing

-----------------------------------------------------------------------------
(* Nicknames.                                                              *)

\* Only the call that prepares a spawn chooses a nickname.
LEMMA NicknameSteps ==
    ASSUME TypeOK, TargetsKnown, [Next]_vars
    PROVE  \/ UNCHANGED <<gen, nick>> /\ used \subseteq used'
           \/ \E c \in Spawns : at[c] = "reserved" /\ target[c] = c /\ Nickname(c)
<1>1. ASSUME NEW c \in Creators, PrepareSpawn(c), c \in Spawns
      PROVE  at[c] = "reserved" /\ target[c] = c /\ Nickname(c)
  BY <1>1 DEF PrepareSpawn, Move, TargetsKnown
<1>2. ASSUME NEW c \in Creators, PrepareSpawn(c), c \notin Spawns
      PROVE  UNCHANGED <<gen, nick>> /\ used \subseteq used'
  BY <1>2 DEF PrepareSpawn, PreferredNickname
<1>3. ASSUME NEW c \in Creators, Commit(c)
      PROVE  UNCHANGED <<gen, nick>> /\ used \subseteq used'
  BY <1>3 DEF Commit
<1>4. ASSUME NEW c \in Creators,
             \/ \E t \in Agents : LookUp(c, t)
             \/ ReserveSlot(c) \/ ReserveSlotFails(c) \/ PrepareFails(c)
             \/ DropReservation(c) \/ CreateThread(c)
      PROVE  UNCHANGED <<gen, nick>> /\ used \subseteq used'
  BY <1>4 DEF LookUp, ReserveSlot, ReserveSlotFails, PrepareFails, DropReservation,
     CreateThread, nickVars
<1>5. ASSUME NEW c \in Closes, Close(c)
      PROVE  UNCHANGED <<gen, nick>> /\ used \subseteq used'
  BY <1>5 DEF Close, RemoveThread, ReleaseThread, nickVars
<1>6. ASSUME (\E t \in Agents : Unload(t)) \/ UNCHANGED vars
      PROVE  UNCHANGED <<gen, nick>> /\ used \subseteq used'
  BY <1>6 DEF Unload, vars, nickVars
<1> QED
  BY <1>1, <1>2, <1>3, <1>4, <1>5, <1>6 DEF Next, Spawn

\* A nickname that is chosen differs from all that were chosen before.
LEMMA NamesStep ==
    ASSUME TypeOK, TargetsKnown, NamesUsed, NicknamesDistinct, [Next]_vars
    PROVE  NamesUsed' /\ NicknamesDistinct'
<1> USE DEF TypeOK
<1>1. CASE UNCHANGED <<gen, nick>> /\ used \subseteq used'
  BY <1>1 DEF NamesUsed, NicknamesDistinct
<1>2. ASSUME NEW c \in Spawns, Nickname(c) PROVE NamesUsed' /\ NicknamesDistinct'
  <2>1. PICK m \in Names \X Nat :
           /\ nick' = [nick EXCEPT ![c] = m] /\ m[2] = gen' /\ m \in used'
           /\ \/ gen' = gen /\ m \notin used /\ used \subseteq used'
              \/ gen' = gen + 1
    <3>1. CASE {<<n, gen>> : n \in Names} \ used # {}
      BY <1>2, <3>1 DEF Nickname
    <3>2. CASE {<<n, gen>> : n \in Names} \ used = {}
      <4>1. PICK n \in Names : /\ used' = {<<n, gen + 1>>}
                               /\ nick' = [nick EXCEPT ![c] = <<n, gen + 1>>]
                               /\ gen' = gen + 1
        BY <1>2, <3>2 DEF Nickname
      <4>2. <<n, gen + 1>> \in Names \X Nat /\ <<n, gen + 1>>[2] = gen + 1
        OBVIOUS
      <4> QED
        BY <4>1, <4>2
    <3> QED
      BY <3>1, <3>2
  <2>2. /\ nick'[c] = m
        /\ \A s \in Spawns \ {c} : nick'[s] = nick[s]
    BY <2>1, ValueFacts
  <2>3. \A s \in Spawns : nick[s] # NoName => nick[s] \in Names \X Nat
    BY ValueFacts DEF Nicknames
  <2>4. m # NoName
    BY RegistryAssumption
  <2>5. \A s \in Spawns \ {c} : nick[s] # NoName =>
           /\ nick[s] # m
           /\ nick[s][2] <= gen' /\ (nick[s][2] = gen' => nick[s] \in used')
    BY <2>1, <2>3 DEF NamesUsed
  <2>6. NamesUsed'
    BY <2>1, <2>2, <2>5 DEF NamesUsed
  <2>7. NicknamesDistinct'
    BY <2>2, <2>4, <2>5 DEF NicknamesDistinct
  <2> QED
    BY <2>6, <2>7
<1> QED
  BY <1>1, <1>2, NicknameSteps

\* An agent has a nickname before it has a rollout.
LEMMA NamedStep ==
    ASSUME TypeOK, TargetsKnown, Named, [Next]_vars
    PROVE  Named'
<1> USE DEF TypeOK
<1>1. \A t \in Agents : nick[t] # NoName => nick'[t] # NoName
  <2>1. ASSUME NEW c \in Spawns, Nickname(c) PROVE \A t \in Agents : nick[t] # NoName => nick'[t] # NoName
    BY <2>1, ValueFacts, NicknameType
  <2> QED
    BY <2>1, NicknameSteps
<1>2. ASSUME NEW c \in Creators,
             at'[c] \in {"prepared", "created"} \/ (c \in Resumes /\ at'[c] # "idle")
      PROVE  nick'[target'[c]] # NoName
  <2>1. CASE at[c] \in {"prepared", "created"} \/ (c \in Resumes /\ at[c] # "idle")
    BY <1>1, <2>1, TargetKept DEF Named, TargetsKnown
  <2>2. CASE ~(at[c] \in {"prepared", "created"} \/ (c \in Resumes /\ at[c] # "idle"))
    <3>1. Spawn(c)
      BY <1>2, <2>2, CallsMove
    <3>2. ASSUME NEW t \in Agents, LookUp(c, t) PROVE nick'[target'[c]] # NoName
      <4>1. target'[c] = t /\ t \in stored
        BY <3>2, CallFacts DEF LookUp
      <4> QED
        BY <1>1, <4>1 DEF Named
    <3>3. CASE PrepareSpawn(c)
      <4>1. c \in Spawns /\ target[c] = c /\ target' = target /\ Nickname(c)
        BY <2>2, <3>3, CallFacts DEF PrepareSpawn, Move, TargetsKnown
      <4> QED
        BY <4>1, ValueFacts, NicknameType
    <3>4. ASSUME \/ ReserveSlot(c) \/ ReserveSlotFails(c) \/ PrepareFails(c)
                 \/ DropReservation(c) \/ Commit(c) \/ CreateThread(c)
          PROVE  FALSE
      BY <1>2, <2>2, <3>4, CallFacts DEF ReserveSlot, ReserveSlotFails, PrepareFails,
         DropReservation, Commit, CreateThread, Move, Ready
    <3> QED
      BY <3>1, <3>2, <3>3, <3>4 DEF Spawn
  <2> QED
    BY <2>1, <2>2
<1>3. ASSUME NEW t \in stored' \cap Agents PROVE nick'[t] # NoName
  <2>1. CASE t \in stored
    BY <1>1, <2>1 DEF Named
  <2>2. CASE t \notin stored
    <3>1. PICK c \in Creators : CreateThread(c)
      BY <1>3, <2>2 DEF Next, Spawn, Close, LookUp, ReserveSlot, ReserveSlotFails,
         PrepareSpawn, PrepareFails, DropReservation, Commit, RemoveThread, ReleaseThread,
         Unload, vars
    <3>2. t = target[c] /\ at[c] = "prepared"
      BY <1>3, <2>2, <3>1 DEF CreateThread, Move
    <3> QED
      BY <1>1, <1>3, <3>2 DEF Named
  <2> QED
    BY <2>1, <2>2
<1> QED
  BY <1>2, <1>3 DEF Named

-----------------------------------------------------------------------------
(* Slots.                                                                  *)

\* Every slot that is taken or given back is one of a call or of an entry.
LEMMA SlotsStep ==
    ASSUME RegistryInv, [Next]_vars
    PROVE  SlotsAccountedFor'
<1> USE DEF RegistryInv, TypeOK
<1>1. /\ IsFiniteSet(Holding) /\ Cardinality(Holding) \in Nat
      /\ IsFiniteSet(Registered) /\ Cardinality(Registered) \in Nat
  BY Counts
<1>2. ASSUME NEW c \in Creators, c \in Holding, Holding' = Holding \ {c},
             Registered' = Registered, total' = total - 1, lost' = lost
      PROVE  SlotsAccountedFor'
  <2>1. Cardinality(Holding \ {c}) = Cardinality(Holding) - 1
    BY <1>1, <1>2, FS_RemoveElement
  <2> QED
    BY <1>1, <1>2, <2>1 DEF SlotsAccountedFor
<1>3. ASSUME Holding' = Holding, Registered' = Registered, total' = total, lost' = lost
      PROVE  SlotsAccountedFor'
  BY <1>3 DEF SlotsAccountedFor
<1>4. ASSUME UNCHANGED <<tree, total, lost>>, Holding' = Holding PROVE SlotsAccountedFor'
  BY <1>3, <1>4 DEF Registered
<1>5. ASSUME NEW c \in Creators, NEW t \in Agents, LookUp(c, t) PROVE SlotsAccountedFor'
  <2>1. Holding' = Holding
    BY <1>5, CallFacts DEF LookUp, Move, Holding
  <2> QED
    BY <1>4, <1>5, <2>1 DEF LookUp
<1>6. ASSUME NEW c \in Creators, ReserveSlot(c) PROVE SlotsAccountedFor'
  <2>1. c \notin Holding /\ Holding' = Holding \cup {c}
    BY <1>6, CallFacts DEF ReserveSlot, Ready, Holding
  <2>2. Cardinality(Holding \cup {c}) = Cardinality(Holding) + 1
    BY <1>1, <2>1, FS_AddElement
  <2>3. Registered' = Registered /\ total' = total + 1 /\ lost' = lost
    BY <1>6 DEF ReserveSlot, Registered
  <2> QED
    BY <1>1, <2>1, <2>2, <2>3 DEF SlotsAccountedFor
<1>7. ASSUME NEW c \in Creators, ReserveSlotFails(c) PROVE SlotsAccountedFor'
  <2>1. Holding' = Holding
    BY <1>7, CallFacts DEF ReserveSlotFails, Ready, Holding
  <2> QED
    BY <1>4, <1>7, <2>1 DEF ReserveSlotFails
<1>8. ASSUME NEW c \in Creators, PrepareSpawn(c) PROVE SlotsAccountedFor'
  <2>1. Holding' = Holding
    BY <1>8, CallFacts DEF PrepareSpawn, Move, Holding
  <2>2. \A k \in Keys : tree'[k] \in Agents <=> tree[k] \in Agents
    <3>1. PICK r \in {Root, Vacant, Reserved} : \A k \in Keys :
             \/ tree'[k] = tree[k]
             \/ k = RootPath /\ tree'[k] = r
             \/ tree[k] = Vacant /\ tree'[k] = Reserved
      BY <1>8, RootEntryKept DEF PrepareSpawn
    <3>2. tree[RootPath] \notin Agents
      BY KeyFacts, ValueFacts DEF KeysMatch
    <3> QED
      BY <3>1, <3>2, ValueFacts
  <2>3. Registered' = Registered
    BY <2>2 DEF Registered
  <2> QED
    BY <1>3, <1>8, <2>1, <2>3 DEF PrepareSpawn
<1>9. ASSUME NEW c \in Creators, PrepareFails(c) \/ DropReservation(c)
      PROVE  SlotsAccountedFor'
  <2>1. c \in Holding /\ Holding' = Holding \ {c}
    BY <1>9, CallFacts DEF PrepareFails, DropReservation, Move, Holding
  <2>2. \A k \in Keys : tree'[k] \in Agents <=> tree[k] \in Agents
    <3>1. PICK r \in {Root, Vacant, Reserved} : \A k \in Keys :
             \/ tree'[k] = tree[k]
             \/ k = RootPath /\ tree'[k] = r
             \/ tree[k] = Reserved /\ tree'[k] = Vacant
      <4>1. CASE PrepareFails(c)
        BY <4>1, RootEntryKept DEF PrepareFails
      <4>2. CASE DropReservation(c)
        BY <4>2 DEF DropReservation
      <4> QED
        BY <1>9, <4>1, <4>2
    <3>2. tree[RootPath] \notin Agents
      BY KeyFacts, ValueFacts DEF KeysMatch
    <3> QED
      BY <3>1, <3>2, ValueFacts
  <2>3. Registered' = Registered
    BY <2>2 DEF Registered
  <2> QED
    BY <1>2, <1>9, <2>1, <2>3 DEF PrepareFails, DropReservation
<1>10. ASSUME NEW c \in Creators, CreateThread(c) PROVE SlotsAccountedFor'
  <2>1. Holding' = Holding
    BY <1>10, CallFacts DEF CreateThread, Move, Holding
  <2> QED
    BY <1>4, <1>10, <2>1 DEF CreateThread
<1>11. ASSUME NEW c \in Creators, Commit(c) PROVE SlotsAccountedFor'
  <2> DEFINE k == KeyOf(target[c])
  <2>1. c \in Holding /\ Holding' = Holding \ {c} /\ total' = total
    BY <1>11, CallFacts DEF Commit, Move, Holding
  <2>2. Cardinality(Holding \ {c}) = Cardinality(Holding) - 1
    BY <1>1, <2>1, FS_RemoveElement
  <2>3. target[c] \in Agents /\ k \in Keys
    BY <1>11, KeyFacts DEF Commit, Move, TargetsKnown
  <2>4. tree' = [tree EXCEPT ![k] = target[c]]
    BY <1>11 DEF Commit
  <2>5. lost' = IF k \in Registered THEN lost + 1 ELSE lost
    BY <1>11, <2>3 DEF Commit, Registered
  <2> HIDE DEF k
  <2>6. Registered' = Registered \cup {k}
    BY <2>3, <2>4 DEF Registered
  <2>7. Cardinality(Registered \cup {k}) =
          IF k \in Registered THEN Cardinality(Registered) ELSE Cardinality(Registered) + 1
    BY <1>1, FS_AddElement
  <2> QED
    BY <1>1, <2>1, <2>2, <2>5, <2>6, <2>7 DEF SlotsAccountedFor
<1>12. ASSUME NEW c \in Closes, NEW t \in Threads, RemoveThread(c, t)
       PROVE  SlotsAccountedFor'
  <2>1. Holding' = Holding
    BY <1>12, CallFacts DEF RemoveThread, Move, Holding
  <2> QED
    BY <1>4, <1>12, <2>1 DEF RemoveThread
<1>13. ASSUME NEW c \in Closes, ReleaseThread(c) PROVE SlotsAccountedFor'
  <2> DEFINE t == target[c]
  <2>1. Holding' = Holding /\ lost' = lost
    BY <1>13, CallFacts DEF ReleaseThread, Move, Holding
  <2>2. CASE ~ \E k \in Keys : tree[k] = t
    BY <1>4, <1>13, <2>1, <2>2 DEF ReleaseThread, Release
  <2>3. ASSUME NEW k \in Keys, tree[k] = t PROVE SlotsAccountedFor'
    <3>1. /\ tree' = [j \in Keys |-> IF tree[j] = t THEN Vacant ELSE tree[j]]
          /\ total' = IF t = Root THEN total ELSE total - 1
      BY <1>13, <2>3 DEF ReleaseThread, Release
    <3>2. t \in Threads
      BY CallFacts
    <3> HIDE DEF t
    <3>3. CASE t = Root
      <4>1. Registered' = Registered
        BY <3>1, <3>3, ValueFacts DEF Registered
      <4> QED
        BY <1>3, <2>1, <3>1, <3>3, <4>1
    <3>4. CASE t # Root
      <4>1. t \in Agents
        BY <3>2, <3>4 DEF Threads
      <4>2. \A j \in Keys : tree[j] = t => j = k
        BY <2>3, <4>1 DEF KeysMatch
      <4>3. k \in Registered /\ Registered' = Registered \ {k}
        BY <2>3, <3>1, <4>1, <4>2, ValueFacts DEF Registered
      <4>4. Cardinality(Registered \ {k}) = Cardinality(Registered) - 1
        BY <1>1, <4>3, FS_RemoveElement
      <4> QED
        BY <1>1, <2>1, <3>1, <3>4, <4>3, <4>4 DEF SlotsAccountedFor
    <3> QED
      BY <3>3, <3>4
  <2> QED
    BY <2>2, <2>3
<1>14. ASSUME NEW t \in Agents, Unload(t) PROVE SlotsAccountedFor'
  BY <1>4, <1>14 DEF Unload, Holding
<1>15. CASE UNCHANGED vars
  BY <1>4, <1>15 DEF vars, Holding
<1> QED
  BY <1>5, <1>6, <1>7, <1>8, <1>9, <1>10, <1>11, <1>12, <1>13, <1>14, <1>15
  DEF Next, Spawn, Close

\* The count never passes the limit.
LEMMA LimitStep == TypeOK /\ total <= MaxThreads /\ [Next]_vars => total' <= MaxThreads
<1> SUFFICES ASSUME TypeOK, total <= MaxThreads, [Next]_vars PROVE total' <= MaxThreads
  OBVIOUS
<1> USE RegistryAssumption DEF TypeOK
<1>1. ASSUME NEW c \in Creators, Spawn(c) PROVE total' <= MaxThreads
  BY <1>1 DEF Spawn, LookUp, ReserveSlot, ReserveSlotFails, PrepareSpawn, PrepareFails,
     DropReservation, CreateThread, Commit
<1>2. ASSUME NEW c \in Closes, Close(c) PROVE total' <= MaxThreads
  BY <1>2 DEF Close, RemoveThread, ReleaseThread, Release
<1> QED
  BY <1>1, <1>2 DEF Next, Unload, vars

-----------------------------------------------------------------------------
\* Every step preserves the invariant.
LEMMA Inductive == RegistryInv /\ [Next]_vars => RegistryInv'
<1> SUFFICES ASSUME RegistryInv, [Next]_vars PROVE RegistryInv'
  OBVIOUS
<1>1. TypeOK'
  BY TypeStep
<1>2. KeysMatch' /\ TargetsKnown'
  BY KeysStep, TargetStep DEF RegistryInv
<1>3. Named' /\ NamesUsed' /\ NicknamesDistinct'
  BY NamedStep, NamesStep DEF RegistryInv
<1>4. PathsExclusive'
  BY PathsStep DEF RegistryInv
<1>5. SlotsAccountedFor' /\ total' <= MaxThreads
  BY SlotsStep, LimitStep DEF RegistryInv
<1> QED
  BY <1>1, <1>2, <1>3, <1>4, <1>5 DEF RegistryInv

\* The invariant holds throughout.
LEMMA Invariant == Spec => []RegistryInv
  BY InitInv, Inductive, PTL DEF Spec

\* The registry always has its types; in particular total_count never wraps around.
THEOREM TypeCorrect == Spec => []TypeOK
<1>1. RegistryInv => TypeOK
  BY DEF RegistryInv
<1> QED
  BY <1>1, Invariant, PTL

\* Every slot is held by a call or by the entry of an agent, or was lost to a commit
\* that replaced one.
THEOREM EverySlotHeld == Spec => []SlotsAccountedFor
<1>1. RegistryInv => SlotsAccountedFor
  BY DEF RegistryInv
<1> QED
  BY <1>1, Invariant, PTL

\* Agents registered and being spawned never exceed max_threads.
THEOREM WithinLimit == Spec => []LimitKept
<1>1. RegistryInv => LimitKept
  <2> SUFFICES ASSUME RegistryInv PROVE LimitKept
    OBVIOUS
  <2>1. Cardinality(Holding) \in Nat /\ Cardinality(Registered) \in Nat
    BY Counts DEF RegistryInv
  <2> QED
    BY <2>1, RegistryAssumption DEF RegistryInv, TypeOK, SlotsAccountedFor, LimitKept
<1> QED
  BY <1>1, Invariant, PTL

\* A path has one owner from prepare_thread_spawn to its commit or drop.
THEOREM OnePathOwner == Spec => []PathsExclusive
<1>1. RegistryInv => PathsExclusive
  BY DEF RegistryInv
<1> QED
  BY <1>1, Invariant, PTL

\* The nicknames a session chooses are distinct.
THEOREM NoNicknameTwice == Spec => []NicknamesDistinct
<1>1. RegistryInv => NicknamesDistinct
  BY DEF RegistryInv
<1> QED
  BY <1>1, Invariant, PTL

\* No step replaces the entry of an agent that has a path.
THEOREM PathsNotReplaced == Spec => OnlyPathlessReplaced
<1> DEFINE Kept == \A k \in Paths : tree[k] \in Agents => tree'[k] \in {tree[k], Vacant}
<1>1. RegistryInv /\ [Next]_vars => [Kept]_vars
  <2> SUFFICES ASSUME RegistryInv, [Next]_vars, NEW k \in Paths, tree[k] \in Agents
               PROVE  tree'[k] \in {tree[k], Vacant}
    OBVIOUS
  <2> USE DEF RegistryInv, TypeOK
  <2>1. k \in Keys /\ k # RootPath /\ tree[k] # Vacant /\ tree[k] # Reserved
    BY ValueFacts
  <2>2. ASSUME NEW c \in Creators, PrepareSpawn(c) \/ PrepareFails(c) PROVE tree'[k] = tree[k]
    BY <2>1, <2>2 DEF PrepareSpawn, PrepareFails
  <2>3. ASSUME NEW c \in Creators, DropReservation(c) PROVE tree'[k] = tree[k]
    BY <2>1, <2>3 DEF DropReservation
  <2>4. ASSUME NEW c \in Creators, Commit(c) PROVE tree'[k] = tree[k]
    <3>1. KeyOf(target[c]) \in Paths => tree[KeyOf(target[c])] = Reserved
      BY <2>4 DEF Commit, Move, PathsExclusive
    <3>2. KeyOf(target[c]) # k
      BY <2>1, <3>1
    <3> QED
      BY <2>1, <2>4, <3>2 DEF Commit
  <2>5. ASSUME NEW c \in Closes, ReleaseThread(c) PROVE tree'[k] \in {tree[k], Vacant}
    BY <2>1, <2>5 DEF ReleaseThread, Release
  <2>6. ASSUME UNCHANGED tree PROVE tree'[k] \in {tree[k], Vacant}
    BY <2>6
  <2>7. ASSUME NEW c \in Creators,
               \/ \E t \in Agents : LookUp(c, t)
               \/ ReserveSlot(c) \/ ReserveSlotFails(c) \/ CreateThread(c)
        PROVE  tree'[k] \in {tree[k], Vacant}
    BY <2>6, <2>7 DEF LookUp, ReserveSlot, ReserveSlotFails, CreateThread
  <2> QED
    BY <2>2, <2>3, <2>4, <2>5, <2>6, <2>7
    DEF Next, Spawn, Close, RemoveThread, Unload, vars
<1> QED
  BY <1>1, Invariant, PTL DEF Spec, OnlyPathlessReplaced
===========================================================================
