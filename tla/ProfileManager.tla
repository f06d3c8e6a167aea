--------------------------- MODULE ProfileManager ---------------------------
(***************************************************************************)
(* The profile manager (pkg/profiles/manager.go): a map of profiles under a *)
(* read-write lock, filled from built-in profiles, a local directory and a  *)
(* cache directory when the server starts, looked up for every entry, and   *)
(* read by the /stats endpoint.  AddProfile, RemoveProfile and a repeated   *)
(* LoadProfiles are part of its interface, though no command calls them.    *)
(*                                                                          *)
(* A profile is a record of its name, where it came from, whether           *)
(* validateProfile passes it, and whether verifyProfile does so in strict   *)
(* mode.  The local directory holds one file, which `logsieve learn` writes *)
(* in place; the cache directory does not change.                           *)
(***************************************************************************)
EXTENDS Naturals, FiniteSets

CONSTANTS
  Callers,   \* goroutines that use the manager
  Builtin,   \* the profiles of loadBuiltinProfiles
  Generic,   \* the name of the fallback profile
  Learned,   \* the profile that `logsieve learn` writes
  InCache,   \* the profiles in the cache directory, no two of one name
  Offered,   \* profiles that AddProfile is called with
  NoOne      \* not a caller

\* What ParseProfile makes of a file that is empty or only begun: no error.
Empty == [name |-> "", from |-> "local", valid |-> FALSE, trusted |-> FALSE]

Known == Builtin \cup InCache \cup Offered \cup {Learned, Empty}
Names == {p.name : p \in Known}

ASSUME ManagerAssumption ==
  /\ \A p \in Known : p.valid \in BOOLEAN /\ p.trusted \in BOOLEAN
  /\ \E p \in Builtin : p.name = Generic
  /\ \A p, q \in Builtin : p.name = q.name => p = q
  /\ \A p, q \in InCache : p.name = q.name => p = q
  /\ Builtin \cap (InCache \cup Offered \cup {Learned, Empty}) = {}
  /\ IsFiniteSet(Known)
  /\ NoOne \notin Callers

VARIABLES
  strict,    \* trustMode is "strict"
  server,    \* "down", "loading" or "up"
  profiles,  \* the values of m.profiles; no two have one name
  local,     \* the local file: "absent", "torn" or "whole"
  readers,   \* m.mu: how many read locks each caller holds
  pending,   \* m.mu: the writer that holds the lock or waits for readers to leave
  pc,        \* where each caller is
  call,      \* its operation, and that operation's argument
  result,    \* what it has found, counted and listed
  whole      \* history: every load since the start has read the local file whole

lock     == <<readers, pending>>
managerVars == <<strict, server, profiles, local, lock, pc, call, result, whole>>

NoResult == [found |-> {}, count |-> 0, listed |-> {}]

ManagerInit ==
  /\ strict = FALSE
  /\ server = "down"
  /\ profiles = {}
  /\ local = "absent"
  /\ readers = [c \in Callers |-> 0]
  /\ pending = NoOne
  /\ pc = [c \in Callers |-> "idle"]
  /\ call = [c \in Callers |-> [op |-> "none"]]
  /\ result = [c \in Callers |-> NoResult]
  /\ whole = TRUE

-----------------------------------------------------------------------------
(* The lock: a writer that waits keeps new readers out, and Unlock lets in all *)
(* readers that wait before the next writer.                                   *)

\* RLock, also of a caller that holds a read lock already.
RLock(c) ==
  /\ pc[c] \in {"rlock", "rlock again"}
  /\ IF pending = NoOne
     THEN /\ readers' = [readers EXCEPT ![c] = @ + 1]
          /\ pc' = [pc EXCEPT ![c] = IF @ = "rlock" THEN "read" ELSE "read again"]
     ELSE /\ pc' = [pc EXCEPT ![c] = IF @ = "rlock" THEN "rwait" ELSE "rwait again"]
          /\ UNCHANGED readers
  /\ UNCHANGED <<strict, server, profiles, local, pending, call, result, whole>>

\* The first half of Lock.
Lock(c) ==
  /\ pc[c] = "lock"
  /\ pending = NoOne
  /\ pending' = c
  /\ pc' = [pc EXCEPT ![c] = "acquire"]
  /\ UNCHANGED <<strict, server, profiles, local, readers, call, result, whole>>

Acquired(c) == pc[c] = "acquire" /\ \A d \in Callers : readers[d] = 0

\* The end of a writer's call.
Unlock(c) ==
  /\ pending' = NoOne
  /\ readers' = [d \in Callers |-> IF pc[d] = "rwait" THEN readers[d] + 1 ELSE readers[d]]
  /\ pc' = [d \in Callers |-> IF d = c THEN "idle" ELSE IF pc[d] = "rwait" THEN "read" ELSE pc[d]]

\* The end of a reader's call.
RUnlock(c) ==
  /\ readers' = [readers EXCEPT ![c] = 0]
  /\ pc' = [pc EXCEPT ![c] = "idle"]

-----------------------------------------------------------------------------
(* Calls that read. *)

Begin(c, step, op) ==
  /\ pc[c] = "idle"
  /\ pc' = [pc EXCEPT ![c] = step]
  /\ call' = [call EXCEPT ![c] = op]
  /\ result' = [result EXCEPT ![c] = NoResult]
  /\ UNCHANGED <<profiles, local, lock>>

BeginRead(c) ==
  /\ server = "up"
  /\ \/ \E n \in Names : Begin(c, "rlock", [op |-> "GetProfile", name |-> n])
     \/ \E n \in Names : Begin(c, "rlock", [op |-> "ProcessWithProfile", name |-> n])
     \/ Begin(c, "rlock", [op |-> "ListProfiles"])
     \/ Begin(c, "rlock", [op |-> "GetStats"])
  /\ UNCHANGED <<strict, server, whole>>

Entry(n) == {p \in profiles : p.name = n}

\* GetProfile, and ProcessWithProfile when it finds the profile.
Finds(c) ==
  /\ pc[c] = "read"
  /\ call[c].op \in {"GetProfile", "ProcessWithProfile", "its fallback"}
  /\ call[c].op # "GetProfile" => Entry(call[c].name) # {}
  /\ result' = [result EXCEPT ![c].found = Entry(call[c].name)]
  /\ RUnlock(c)
  /\ UNCHANGED <<strict, server, profiles, local, pending, call, whole>>

\* ProcessWithProfile does not find the profile and asks for the generic one, with a
\* lock of its own.
FallsBack(c) ==
  /\ pc[c] = "read"
  /\ call[c].op = "ProcessWithProfile"
  /\ Entry(call[c].name) = {}
  /\ readers' = [readers EXCEPT ![c] = 0]
  /\ pc' = [pc EXCEPT ![c] = "rlock"]
  /\ call' = [call EXCEPT ![c] = [op |-> "its fallback", name |-> Generic]]
  /\ UNCHANGED <<strict, server, profiles, local, pending, result, whole>>

ListProfiles(c) ==
  /\ pc[c] = "read"
  /\ call[c].op = "ListProfiles"
  /\ RUnlock(c)
  /\ UNCHANGED <<strict, server, profiles, local, pending, call, result, whole>>

\* Mutant of CountProfiles: GetStats releases its lock before it lists.
CountProfiles_Unlocks(c) ==
  /\ pc[c] = "read"
  /\ call[c].op = "GetStats"
  /\ result' = [result EXCEPT ![c].count = Cardinality(profiles)]
  /\ readers' = [readers EXCEPT ![c] = 0]
  /\ pc' = [pc EXCEPT ![c] = "rlock again"]
  /\ UNCHANGED <<strict, server, profiles, local, pending, call, whole>>

\* GetStats: it takes the number of profiles and calls ListProfiles, which locks again.
CountProfiles(c) ==
  /\ pc[c] = "read"
  /\ call[c].op = "GetStats"
  /\ result' = [result EXCEPT ![c].count = Cardinality(profiles)]
  /\ pc' = [pc EXCEPT ![c] = "rlock again"]
  /\ UNCHANGED <<strict, server, profiles, local, lock, call, whole>>

ListForStats(c) ==
  /\ pc[c] = "read again"
  /\ result' = [result EXCEPT ![c].listed = {p.name : p \in profiles}]
  /\ RUnlock(c)
  /\ UNCHANGED <<strict, server, profiles, local, pending, call, whole>>

-----------------------------------------------------------------------------
(* Calls that write. *)

BeginWrite(c) ==
  /\ server = "up"
  /\ \/ \E p \in Offered : Begin(c, "lock", [op |-> "AddProfile", profile |-> p])
     \/ \E n \in Names : Begin(c, "lock", [op |-> "RemoveProfile", name |-> n])
     \/ Begin(c, "lock", [op |-> "LoadProfiles"])
  /\ UNCHANGED <<strict, server, whole>>

\* verifyProfile, and what its callers make of it.
Accepted(p) == strict => p.trusted

\* What AddProfile asks for; loading from a directory does not validate.
Addable(p) == p.valid /\ Accepted(p)

\* m.profiles[p.Metadata.Name] = p, for each of ps.
With(ps) == {q \in profiles : \A p \in ps : q.name # p.name} \cup ps

AddProfile(c) ==
  /\ Acquired(c) /\ call[c].op = "AddProfile"
  /\ LET p == call[c].profile
     IN profiles' = IF Addable(p) THEN With({p}) ELSE profiles
  /\ Unlock(c)
  /\ UNCHANGED <<strict, server, local, call, result, whole>>

\* Mutant of RemoveProfile: an unknown name is reported without Unlock.
RemoveProfile_Returns(c) ==
  /\ Acquired(c) /\ call[c].op = "RemoveProfile"
  /\ profiles' = profiles \ Entry(call[c].name)
  /\ IF Entry(call[c].name) = {}
     THEN pc' = [pc EXCEPT ![c] = "idle"] /\ UNCHANGED lock
     ELSE Unlock(c)
  /\ UNCHANGED <<strict, server, local, call, result, whole>>

RemoveProfile(c) ==
  /\ Acquired(c) /\ call[c].op = "RemoveProfile"
  /\ profiles' = profiles \ Entry(call[c].name)
  /\ Unlock(c)
  /\ UNCHANGED <<strict, server, local, call, result, whole>>

\* LoadProfiles, the built-in profiles.
LoadBuiltin(c) ==
  /\ Acquired(c) /\ call[c].op = "LoadProfiles"
  /\ profiles' = With(Builtin)
  /\ pc' = [pc EXCEPT ![c] = "local"]
  /\ UNCHANGED <<strict, server, local, lock, call, result, whole>>

FromDir(ps) == With({p \in ps : Accepted(p)})

\* Mutant of LoadLocal: a name that is taken is left alone.
LoadLocal_KeepsBuiltin(c) ==
  /\ pc[c] = "local"
  /\ profiles' =
       IF local = "absent" \/ Entry(Learned.name) # {} THEN profiles
       ELSE FromDir({IF local = "whole" THEN Learned ELSE Empty})
  /\ whole' = (whole /\ local = "whole")
  /\ pc' = [pc EXCEPT ![c] = "cache"]
  /\ UNCHANGED <<strict, server, local, lock, call, result>>

LoadLocal(c) ==
  /\ pc[c] = "local"
  /\ profiles' =
       IF local = "absent" THEN profiles
       ELSE FromDir({IF local = "whole" THEN Learned ELSE Empty})
  /\ whole' = (whole /\ local = "whole")
  /\ pc' = [pc EXCEPT ![c] = "cache"]
  /\ UNCHANGED <<strict, server, local, lock, call, result>>

\* The cache directory comes last; syncFromHub only asks whether the hub is there.  The
\* server goes on whatever LoadProfiles returns.
LoadCached(c) ==
  /\ pc[c] = "cache"
  /\ profiles' = FromDir(InCache)
  /\ server' = "up"
  /\ Unlock(c)
  /\ UNCHANGED <<strict, local, call, result, whole>>

-----------------------------------------------------------------------------
(* The process, and the file. *)

\* NewProcessor loads the profiles before anything else uses the manager.
StartServer(c) ==
  /\ server = "down"
  /\ server' = "loading"
  /\ strict' \in BOOLEAN
  /\ Begin(c, "lock", [op |-> "LoadProfiles"])
  /\ UNCHANGED whole

Gone ==
  /\ server' = "down"
  /\ strict' = FALSE
  /\ profiles' = {}
  /\ readers' = [d \in Callers |-> 0]
  /\ pending' = NoOne
  /\ pc' = [d \in Callers |-> "idle"]
  /\ call' = [d \in Callers |-> [op |-> "none"]]
  /\ result' = [d \in Callers |-> NoResult]
  /\ whole' = TRUE

\* The process is stopped or killed.
StopServer == server # "down" /\ Gone /\ UNCHANGED local

\* ProcessWithProfile does not find the generic profile either, and processEntry
\* dereferences nil in the processing loop.
Panics(c) ==
  /\ pc[c] = "read"
  /\ call[c].op = "its fallback"
  /\ Entry(Generic) = {}
  /\ Gone
  /\ UNCHANGED local

\* `logsieve learn` creates its output, which truncates it, and writes it.
CreateLocal ==
  /\ local' = "torn"
  /\ UNCHANGED <<strict, server, profiles, lock, pc, call, result, whole>>

WriteLocal ==
  /\ local = "torn"
  /\ local' = "whole"
  /\ UNCHANGED <<strict, server, profiles, lock, pc, call, result, whole>>

-----------------------------------------------------------------------------

Writes(c) ==
  AddProfile(c) \/ RemoveProfile(c) \/ LoadBuiltin(c) \/ LoadLocal(c) \/ LoadCached(c)

Reads(c) ==
  \/ Finds(c) \/ FallsBack(c) \/ Panics(c) \/ ListProfiles(c)
  \/ CountProfiles(c) \/ ListForStats(c)

Steps(c) == RLock(c) \/ Reads(c) \/ Writes(c)

ManagerNext ==
  \/ \E c \in Callers : BeginRead(c) \/ BeginWrite(c) \/ Steps(c) \/ Lock(c) \/ StartServer(c)
  \/ StopServer

\* Goroutines run, files are read in finite time and the hub's answer is waited for at
\* most 30 seconds; sync.Mutex, for which writers queue, starves nobody.  Nothing is
\* assumed of who calls.
ManagerFairness ==
  \A c \in Callers : WF_managerVars(Steps(c)) /\ SF_managerVars(Lock(c))

-----------------------------------------------------------------------------
(* Properties. *)

Calls ==
  [op : {"none", "ListProfiles", "GetStats", "LoadProfiles"}]
  \cup [op : {"GetProfile", "ProcessWithProfile", "its fallback", "RemoveProfile"}, name : Names]
  \cup [op : {"AddProfile"}, profile : Offered]

\* The map and what callers have of it hold profiles from the known sources alone.
ManagerTypeOK ==
  /\ strict \in BOOLEAN
  /\ server \in {"down", "loading", "up"}
  /\ profiles \subseteq Known
  /\ local \in {"absent", "torn", "whole"}
  /\ readers \in [Callers -> Nat]
  /\ pending \in Callers \cup {NoOne}
  /\ pc \in [Callers -> {"idle", "rlock", "rwait", "read", "rlock again", "rwait again",
                        "read again", "lock", "acquire", "local", "cache"}]
  /\ call \in [Callers -> Calls]
  /\ result \in [Callers -> [found : SUBSET Known, count : Nat, listed : SUBSET Names]]
  /\ whole \in BOOLEAN

\* Every call comes to an end, unless a GetStats waits for its second read lock: then a
\* writer waits for its first one, and nobody gets the lock again.
CallsEnd ==
  \A c \in Callers :
    pc[c] # "idle" ~> (pc[c] = "idle" \/ \E d \in Callers : pc[d] = "rwait again")

\* What GetStats returns is of one moment: as many names as it counted, although the
\* count and the list are taken under separate locks.
StatsAreConsistent ==
  \A c \in Callers :
    pc[c] = "idle" => result[c].count = Cardinality(result[c].listed)

\* A learned profile replaces the built-in one of its name: unless a load has met the
\* file missing or half written, no lookup finds the built-in profile, also while
\* profiles are loaded again.
LearnedWins ==
  \A c \in Callers :
    whole /\ Accepted(Learned) =>
      \A p \in result[c].found : p.name = Learned.name => p \notin Builtin
=============================================================================
