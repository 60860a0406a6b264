--------------------------- MODULE AgentRegistry ---------------------------
(***************************************************************************)
(* The registry of the agents of one user session (motyga-rs/core/src/     *)
(* agent/registry.rs) and the calls of AgentControl that use it: spawning  *)
(* an agent, resuming one from its rollout, shutting one down. Every call  *)
(* is a tool call or a request of its own; between two steps of a call     *)
(* other calls run, and the app server may unload a thread.                *)
(***************************************************************************)
EXTENDS Naturals, FiniteSets

CONSTANTS
    Spawns,     \* spawn calls; each names the thread it creates
    Stored,     \* threads an earlier run of the program left on disk
    Resumes,    \* resume calls
    Closes,     \* shutdown calls, and requests that find their agent dead
    Paths,      \* agent paths, the root path not among them
    NoPath,     \* the path of an agent that has none
    pathOf,     \* the path of each thread
    Root, RootPath,     \* the root thread of the session, and its key
    Names,      \* the candidates for nicknames
    NoName,     \* of an agent that is not spawned yet
    MaxThreads  \* config.effective_agent_max_threads

Agents  == Spawns \cup Stored
Threads == Agents \cup {Root}
Creators == Spawns \cup Resumes
Calls   == Creators \cup Closes

Vacant == "vacant"
Reserved == "reserved"

ASSUME RegistryAssumption ==
    /\ IsFiniteSet(Calls) /\ IsFiniteSet(Threads)
    /\ Spawns \cap (Resumes \cup Closes \cup Stored) = {} /\ Resumes \cap Closes = {}
    /\ Root \notin Agents /\ NoPath \notin Paths /\ RootPath \notin Paths
    /\ Threads \cap (Paths \cup {RootPath, Vacant, Reserved}) = {}
    /\ pathOf \in [Agents -> Paths \cup {NoPath}]
    /\ Names # {} /\ NoName \notin Names \X Nat /\ MaxThreads \in Nat

VARIABLES
    total,      \* AgentRegistry.total_count
    tree,       \* ActiveAgents.agent_tree: key -> the agent_id of its entry
    used, gen,  \* used_agent_nicknames, nickname_reset_count
    nick,       \* the nickname each thread was created with
    at, target, \* each call: where it is, and its thread
    loaded,     \* the threads of the thread manager
    stored,     \* the threads that have a rollout
    lost        \* observation: commits that replaced the entry of an agent

nickVars == <<used, gen, nick>>
vars == <<total, tree, nickVars, at, target, loaded, stored, lost>>

\* register_spawned_thread: the path, or "thread:{thread_id}".
KeyOf(t) == IF t = Root THEN RootPath
            ELSE IF pathOf[t] = NoPath THEN t ELSE pathOf[t]
Keys == Paths \cup Agents \cup {RootPath}
Nicknames == Names \X Nat

TypeOK ==
    /\ total \in Nat /\ gen \in Nat /\ lost \in Nat
    /\ tree \in [Keys -> Threads \cup {Vacant, Reserved}]
    /\ used \subseteq Nicknames
    /\ nick \in [Agents -> Nicknames \cup {NoName}]
    /\ at \in [Calls -> {"idle", "looked", "reserved", "prepared", "created",
                         "removed", "done"}]
    /\ target \in [Calls -> Threads]
    /\ loaded \subseteq Threads /\ stored \subseteq Threads

Init ==
    /\ total = 0 /\ gen = 0 /\ lost = 0
    /\ tree = [k \in Keys |-> IF k = RootPath THEN Root ELSE Vacant]
    /\ used = {}
    /\ nick \in [Agents -> {<<n, 0>> : n \in Names} \cup {NoName}]
    /\ \A t \in Agents : nick[t] = NoName <=> t \in Spawns
    /\ at = [c \in Calls |-> "idle"]
    /\ target = [c \in Calls |-> IF c \in Spawns THEN c ELSE Root]
    /\ loaded = {Root}
    /\ stored = Stored \cup {Root}

-----------------------------------------------------------------------------
(* What the registry does under its lock.                                  *)

\* Mutant: the slot of an agent that has no entry is given back too.
ReleaseUnknown(t) ==
    /\ tree' = [k \in Keys |-> IF tree[k] = t THEN Vacant ELSE tree[k]]
    /\ total' = IF t = Root THEN total ELSE total - 1

\* Mutant: the root gives back a slot it never took.
ReleaseRootToo(t) ==
    IF \E k \in Keys : tree[k] = t
    THEN /\ tree' = [k \in Keys |-> IF tree[k] = t THEN Vacant ELSE tree[k]]
         /\ total' = IF total = 0 THEN 0 ELSE total - 1
    ELSE UNCHANGED <<tree, total>>

\* release_spawned_thread: the entry of the thread goes, and unless it is the
\* root's it gives its slot back.
Release(t) ==
    IF \E k \in Keys : tree[k] = t
    THEN /\ tree' = [k \in Keys |-> IF tree[k] = t THEN Vacant ELSE tree[k]]
         /\ total' = IF t = Root THEN total ELSE total - 1
    ELSE UNCHANGED <<tree, total>>

\* Mutant: the pool is reset, the generation is not.
NicknameSameGeneration(t) ==
    LET free == {<<n, gen>> : n \in Names} \ used
        choice == IF free # {} THEN free ELSE {<<n, gen>> : n \in Names}
    IN  \E m \in choice : /\ used' = (used \ choice) \cup {m}
                          /\ nick' = [nick EXCEPT ![t] = m]
                          /\ gen' = gen

\* reserve_agent_nickname with no preferred name: one of this generation that
\* is not used, or, when all are, the first of the next generation.
Nickname(t) ==
    LET free == {<<n, gen>> : n \in Names} \ used
    IN  IF free # {}
        THEN \E m \in free : /\ used' = used \cup {m}
                             /\ nick' = [nick EXCEPT ![t] = m]
                             /\ gen' = gen
        ELSE \E n \in Names : /\ used' = {<<n, gen + 1>>}
                              /\ nick' = [nick EXCEPT ![t] = <<n, gen + 1>>]
                              /\ gen' = gen + 1

\* The preferred nickname of a resumed agent, whoever else has it.
PreferredNickname(t) == used' = used \cup {nick[t]} /\ UNCHANGED <<gen, nick>>

-----------------------------------------------------------------------------
(* spawn_agent_internal and resume_single_agent_from_rollout               *)

Move(c, from, to) == at[c] = from /\ at' = [at EXCEPT ![c] = to]

\* A resume call looks at its thread: it is not loaded, and has a rollout.
LookUp(c, t) ==
    /\ c \in Resumes /\ Move(c, "idle", "looked")
    /\ t \in stored \ (loaded \cup {Root})
    /\ target' = [target EXCEPT ![c] = t]
    /\ UNCHANGED <<total, tree, nickVars, loaded, stored, lost>>

Ready(c) == at[c] = IF c \in Spawns THEN "idle" ELSE "looked"

\* Mutant: one slot too many.
ReserveSlotBeyond(c) ==
    /\ Ready(c) /\ at' = [at EXCEPT ![c] = "reserved"]
    /\ total <= MaxThreads /\ total' = total + 1
    /\ UNCHANGED <<tree, nickVars, target, loaded, stored, lost>>

\* reserve_spawn_slot: the compare-and-swap loop ends in one increment.
ReserveSlot(c) ==
    /\ Ready(c) /\ at' = [at EXCEPT ![c] = "reserved"]
    /\ total < MaxThreads /\ total' = total + 1
    /\ UNCHANGED <<tree, nickVars, target, loaded, stored, lost>>

\* AgentLimitReached, or an error before the slot is reserved.
ReserveSlotFails(c) ==
    /\ Ready(c) /\ at' = [at EXCEPT ![c] = "done"]
    /\ UNCHANGED <<total, tree, nickVars, target, loaded, stored, lost>>

\* register_root_thread, which only a child of the root calls.
RootEntries == {tree[RootPath]}
               \cup IF tree[RootPath] = Vacant THEN {Root} ELSE {}

\* Mutant: the path is entered without a look at who has it.
PrepareSpawnAnyway(c) ==
    LET t == target[c]
        k == KeyOf(t)
    IN  /\ Move(c, "reserved", "prepared")
        /\ \E r \in RootEntries :
             tree' = [j \in Keys |->
                        IF j = RootPath THEN r
                        ELSE IF j = k /\ k \in Paths THEN Reserved ELSE tree[j]]
        /\ IF c \in Spawns THEN Nickname(t) ELSE PreferredNickname(t)
        /\ UNCHANGED <<total, target, loaded, stored, lost>>

\* prepare_thread_spawn: the path is reserved and a nickname chosen.
PrepareSpawn(c) ==
    LET t == target[c]
        k == KeyOf(t)
    IN  /\ Move(c, "reserved", "prepared")
        /\ k \in Paths => tree[k] = Vacant
        /\ \E r \in RootEntries :
             tree' = [j \in Keys |->
                        IF j = RootPath THEN r
                        ELSE IF j = k /\ k \in Paths THEN Reserved ELSE tree[j]]
        /\ IF c \in Spawns THEN Nickname(t) ELSE PreferredNickname(t)
        /\ UNCHANGED <<total, target, loaded, stored, lost>>

\* The path exists already: the reservation is dropped.
PrepareFails(c) ==
    LET k == KeyOf(target[c])
    IN  /\ Move(c, "reserved", "done")
        /\ k \in Paths /\ tree[k] # Vacant
        /\ \E r \in RootEntries : tree' = [tree EXCEPT ![RootPath] = r]
        /\ total' = total - 1
        /\ UNCHANGED <<nickVars, target, loaded, stored, lost>>

\* The thread manager has started the thread, or has found it running.
CreateThread(c) ==
    /\ Move(c, "prepared", "created")
    /\ loaded' = loaded \cup {target[c]} /\ stored' = stored \cup {target[c]}
    /\ UNCHANGED <<total, tree, nickVars, target, lost>>

\* Mutant: the path is freed also before it was reserved.
DropFreesPath(c) ==
    LET k == KeyOf(target[c])
    IN  /\ at[c] \in {"reserved", "prepared"}
        /\ at' = [at EXCEPT ![c] = "done"]
        /\ tree' = IF k \in Paths /\ tree[k] = Reserved
                   THEN [tree EXCEPT ![k] = Vacant] ELSE tree
        /\ total' = total - 1
        /\ UNCHANGED <<nickVars, target, loaded, stored, lost>>

\* Drop for SpawnReservation: the call fails or is cancelled at an await. The
\* reserved path is released only while its entry has no agent.
DropReservation(c) ==
    LET k == KeyOf(target[c])
    IN  /\ at[c] \in {"reserved", "prepared"}
        /\ at' = [at EXCEPT ![c] = "done"]
        /\ tree' = IF at[c] = "prepared" /\ k \in Paths /\ tree[k] = Reserved
                   THEN [tree EXCEPT ![k] = Vacant] ELSE tree
        /\ total' = total - 1
        /\ UNCHANGED <<nickVars, target, loaded, stored, lost>>

\* commit: the slot passes from the reservation to the entry of the agent.
Commit(c) ==
    LET k == KeyOf(target[c])
    IN  /\ Move(c, "created", "done")
        /\ tree' = [tree EXCEPT ![k] = target[c]]
        /\ used' = used \cup {nick[target[c]]}
        /\ lost' = IF tree[k] \in Agents THEN lost + 1 ELSE lost
        /\ UNCHANGED <<total, gen, nick, target, loaded, stored>>

-----------------------------------------------------------------------------
(* shutdown_live_agent, and handle_thread_request_result for a dead agent  *)

RemoveThread(c, t) ==
    /\ Move(c, "idle", "removed")
    /\ t \in stored
    /\ target' = [target EXCEPT ![c] = t]
    /\ loaded' = loaded \ {t}
    /\ UNCHANGED <<total, tree, nickVars, stored, lost>>

ReleaseThread(c) ==
    /\ Move(c, "removed", "done")
    /\ Release(target[c])
    /\ UNCHANGED <<nickVars, target, loaded, stored, lost>>

\* The app server unloads or archives the thread; the registry is not told.
Unload(t) ==
    /\ t \in loaded \ {Root}
    /\ loaded' = loaded \ {t}
    /\ UNCHANGED <<total, tree, nickVars, at, target, stored, lost>>

-----------------------------------------------------------------------------
Spawn(c) ==
    \/ \E t \in Agents : LookUp(c, t)
    \/ ReserveSlot(c) \/ ReserveSlotFails(c) \/ PrepareSpawn(c) \/ PrepareFails(c)
    \/ DropReservation(c) \/ CreateThread(c) \/ Commit(c)

Close(c) == (\E t \in Threads : RemoveThread(c, t)) \/ ReleaseThread(c)

Next ==
    \/ \E c \in Creators : Spawn(c)
    \/ \E c \in Closes : Close(c)
    \/ \E t \in Agents : Unload(t)

Spec == Init /\ [][Next]_vars

-----------------------------------------------------------------------------
(* Properties *)

Holding == {c \in Creators : at[c] \in {"reserved", "prepared", "created"}}
Registered == {k \in Keys : tree[k] \in Agents}

\* Every slot that is taken is held by a call in progress or by the entry of
\* an agent, except those whose entry a later commit has replaced: however
\* calls fail, are cancelled, race for a path or release an agent twice, no
\* slot is given back that was not taken and none is kept that nobody holds.
SlotsAccountedFor ==
    total = Cardinality(Holding) + Cardinality(Registered) + lost

\* The limit: agents registered and being spawned are never more than
\* max_threads.
LimitKept == Cardinality(Holding) + Cardinality(Registered) <= MaxThreads

\* A path has one owner: it stays reserved for the call that prepared its
\* spawn until that call commits or drops it, and two calls never have the
\* same one.
PathsExclusive ==
    \A c \in Creators :
       LET k == KeyOf(target[c])
       IN  at[c] \in {"prepared", "created"} /\ k \in Paths =>
              /\ tree[k] = Reserved
              /\ \A d \in Creators \ {c} :
                    at[d] \in {"prepared", "created"} => KeyOf(target[d]) # k

\* Only the entry of an agent without a path is ever replaced.
OnlyPathlessReplaced ==
    [][\A k \in Paths : tree[k] \in Agents => tree'[k] \in {tree[k], Vacant}]_vars

\* Nicknames chosen in this session are never given out twice, also not after
\* the pool was exhausted and reset.
NicknamesDistinct ==
    \A s, t \in Spawns : s # t /\ nick[s] # NoName => nick[s] # nick[t]
=============================================================================
