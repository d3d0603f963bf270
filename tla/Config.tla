------------------------------- MODULE Config -------------------------------
(***************************************************************************)
(* Reloading sylar's configuration from a directory while an editor       *)
(* rewrites the file (src/sylar/config.cc), the ConfigVar<int> it updates  *)
(* (ConfigVar::fromString/setValue in src/sylar/hook.cc) over its RWMutex  *)
(* and scoped locks (the mutex.h part of hook.cc), and the one listener    *)
(* the repository registers: hook.cc's _HookIniter mirrors                 *)
(* "tcp.connect.timeout" into s_connect_timeout, which connect() reads.    *)
(*                                                                         *)
(* The directory holds one .yml file that sets tcp.connect.timeout.  Each  *)
(* reloader thread calls Config::LoadFromConfDir(path) (force = false) up  *)
(* to MaxReloads times.  The file's st_mtime has whole seconds.            *)
(***************************************************************************)
EXTENDS Naturals, FiniteSets

CONSTANTS
    Reloaders,   \* threads calling LoadFromConfDir
    Vals,        \* the timeouts a file may set (lexical_cast succeeds)
    Default,     \* 5000: the default Config::Lookup registered
    Bad,         \* a file YAML::LoadFile or lexical_cast<int> rejects
    SameSecond,  \* the editor may save twice within one second
    MaxTime,     \* bound on the clock (seconds)
    MaxWrites,   \* bound on the editor's saves
    MaxReloads   \* bound on each reloader's calls

ASSUME /\ Default \notin {Bad} /\ Bad \notin Vals
       /\ SameSecond \in BOOLEAN
       /\ {MaxTime, MaxWrites, MaxReloads} \subseteq Nat

VARIABLES
    file,      \* the content of the .yml file
    mtime,     \* its st_mtime
    now,       \* the wall clock in seconds
    writes,    \* saves the editor has made
    modtime,   \* s_file2modifytime[file] (0 until first recorded)
    val,       \* ConfigVar::m_val of tcp.connect.timeout
    mirror,    \* s_connect_timeout, kept by the variable's listener
    readers,   \* the threads holding the variable's m_mutex for reading
    pc,        \* where each reloader is in LoadFromConfDir
    st,        \* the st_mtime its lstat returned
    v,         \* the value it is setting
    count      \* its completed calls

vars == <<file, mtime, now, writes, modtime, val, mirror, readers, pc, st, v,
          count>>
envVars == <<file, mtime, now, writes>>
thrVars == <<pc, st, v, count>>

-----------------------------------------------------------------------------
(* RWMutex::ReadLock: the scoped lock's constructor calls rdlock; its      *)
(* unlock (or destructor) calls pthread_rwlock_unlock once.                *)
ReadLock(r)   == readers' = readers \cup {r}
ReadUnlock(r) == readers' = readers \ {r}

(* RWMutex::WriteLock can be taken when no thread holds the read lock.     *)
WriteLockFree == readers = {}

(* The listener _HookIniter registers: s_connect_timeout = new_value.     *)
HookListener(new) == mirror' = new

(* The end of one LoadFromConfDir call.                                    *)
Return(r) == /\ pc' = [pc EXCEPT ![r] = "idle"]
             /\ count' = [count EXCEPT ![r] = @ + 1]

(* Mutant: the call stamps the file with the time of the reload instead  *)
(* of its st_mtime.                                                         *)
StatUsesNow(r) ==
    /\ pc[r] = "idle" /\ count[r] < MaxReloads
    /\ st' = [st EXCEPT ![r] = now]
    /\ pc' = [pc EXCEPT ![r] = "check"]
    /\ UNCHANGED <<envVars, modtime, val, mirror, readers, v, count>>

(* LoadFromConfDir: ListAllFile finds the one .yml file; lstat reads its   *)
(* st_mtime before s_mutex is taken.                                       *)
Stat(r) ==
    /\ pc[r] = "idle" /\ count[r] < MaxReloads
    /\ st' = [st EXCEPT ![r] = mtime]
    /\ pc' = [pc EXCEPT ![r] = "check"]
    /\ UNCHANGED <<envVars, modtime, val, mirror, readers, v, count>>

(* Under s_mutex: skip the file if its recorded time equals the lstat     *)
(* one, else record that time, before the file is read.                   *)
Check(r) ==
    /\ pc[r] = "check"
    /\ IF modtime = st[r]
       THEN Return(r) /\ UNCHANGED modtime
       ELSE /\ modtime' = st[r]
            /\ pc' = [pc EXCEPT ![r] = "load"]
            /\ UNCHANGED count
    /\ UNCHANGED <<envVars, val, mirror, readers, st, v>>

(* LoadFromYaml: ListAllMember flattens the tree to "tcp.connect.timeout",  *)
(* LookupBase finds the variable, and fromString calls setValue with what  *)
(* lexical_cast<int> made of the scalar.                                   *)
LoadFromYaml(r, c) ==
    /\ v' = [v EXCEPT ![r] = c]
    /\ pc' = [pc EXCEPT ![r] = "rdlock"]

(* Mutant: a file that fails to parse is still handed to setValue.       *)
LoadUnchecked(r) ==
    /\ pc[r] = "load"
    /\ LoadFromYaml(r, file)
    /\ UNCHANGED <<envVars, modtime, val, mirror, readers, st, count>>

(* YAML::LoadFile reads the file as it is now.  A file it cannot parse,  *)
(* or whose scalar lexical_cast<int> rejects (caught in fromString), is    *)
(* logged and changes nothing.                                             *)
Load(r) ==
    /\ pc[r] = "load"
    /\ IF file = Bad
       THEN Return(r) /\ UNCHANGED v
       ELSE LoadFromYaml(r, file) /\ UNCHANGED count
    /\ UNCHANGED <<envVars, modtime, val, mirror, readers, st>>

(* setValue takes the read lock.  Writers hold it only inside one atomic  *)
(* step, so a reader never waits here.                                     *)
RdLock(r) ==
    /\ pc[r] = "rdlock"
    /\ ReadLock(r)
    /\ pc' = [pc EXCEPT ![r] = "cmp"]
    /\ UNCHANGED <<envVars, modtime, val, mirror, st, v, count>>

(* setValue: an unchanged value returns (releasing the read lock).       *)
Compare(r) ==
    /\ pc[r] = "cmp"
    /\ IF v[r] = val
       THEN Return(r) /\ ReadUnlock(r)
       ELSE /\ pc' = [pc EXCEPT ![r] = "notify"]
            /\ UNCHANGED <<readers, count>>
    /\ UNCHANGED <<envVars, modtime, val, mirror, st, v>>

(* Mutant: the listener loop passes (new, old) instead of (old, new).    *)
NotifySwapped(r) ==
    /\ pc[r] = "notify"
    /\ HookListener(val)
    /\ ReadUnlock(r)
    /\ pc' = [pc EXCEPT ![r] = "wrlock"]
    /\ UNCHANGED <<envVars, modtime, val, st, v, count>>

(* setValue calls every listener with (m_val, v) under the read lock; the *)
(* hook's listener stores new_value into s_connect_timeout.  The read     *)
(* lock is released at the end of the block.                               *)
Notify(r) ==
    /\ pc[r] = "notify"
    /\ HookListener(v[r])
    /\ ReadUnlock(r)
    /\ pc' = [pc EXCEPT ![r] = "wrlock"]
    /\ UNCHANGED <<envVars, modtime, val, st, v, count>>

(* setValue: RWMutex::WriteLock waits until no thread holds the read lock, *)
(* then m_val = v and the scoped lock unlocks.                            *)
Assign(r) ==
    /\ pc[r] = "wrlock"
    /\ WriteLockFree
    /\ val' = v[r]
    /\ Return(r)
    /\ UNCHANGED <<envVars, modtime, mirror, readers, st, v>>

-----------------------------------------------------------------------------
(* The environment: the clock advances; the editor saves new content (Bad *)
(* is a file caught half written), stamping the current second.          *)
Tick ==
    /\ now < MaxTime
    /\ now' = now + 1
    /\ UNCHANGED <<file, mtime, writes, modtime, val, mirror, readers, thrVars>>

Save(c) ==
    /\ writes < MaxWrites
    /\ SameSecond \/ mtime < now
    /\ file' = c /\ mtime' = now
    /\ writes' = writes + 1
    /\ UNCHANGED <<now, modtime, val, mirror, readers, thrVars>>

(* Every reloader has made its calls (the clock and the editor may go on).*)
Finished ==
    /\ \A r \in Reloaders : pc[r] = "idle" /\ count[r] = MaxReloads
    /\ UNCHANGED vars

(* After static initialisation: Config::Lookup registered the variable     *)
(* with its default, and _HookIniter read it into s_connect_timeout and    *)
(* added its listener.  The file was deployed at second 1.                *)
Init ==
    /\ file \in Vals /\ mtime = 1 /\ now = 1 /\ writes = 0
    /\ modtime = 0
    /\ val = Default /\ mirror = Default
    /\ readers = {}
    /\ pc = [r \in Reloaders |-> "idle"]
    /\ st = [r \in Reloaders |-> 0]
    /\ v = [r \in Reloaders |-> Default]
    /\ count = [r \in Reloaders |-> 0]

ReloaderStep(r) ==
    Stat(r) \/ Check(r) \/ Load(r) \/ RdLock(r) \/ Compare(r) \/ Notify(r)
    \/ Assign(r)

Next ==
    \/ \E r \in Reloaders : ReloaderStep(r)
    \/ Tick
    \/ \E c \in Vals \cup {Bad} : Save(c)
    \/ Finished

Spec == Init /\ [][Next]_vars

-----------------------------------------------------------------------------
TypeOK ==
    /\ file \in Vals \cup {Bad} /\ mtime \in 1..MaxTime /\ now \in 1..MaxTime
    /\ mtime <= now /\ writes \in 0..MaxWrites
    /\ modtime \in 0..MaxTime
    /\ val \in Vals \cup {Default} /\ mirror \in Vals \cup {Default}
    /\ readers \subseteq Reloaders
    /\ pc \in [Reloaders -> {"idle", "check", "load", "rdlock", "cmp",
                             "notify", "wrlock"}]
    /\ st \in [Reloaders -> 0..MaxTime]
    /\ v \in [Reloaders -> Vals \cup {Default}]
    /\ count \in [Reloaders -> 0..MaxReloads]

(* The listener keeps connect()'s copy right: whenever no setValue is      *)
(* between its listener call and its assignment, s_connect_timeout equals  *)
(* the variable's value, through every early return on an equal value.    *)
MirrorAgrees ==
    (\A r \in Reloaders : pc[r] # "wrlock") => mirror = val

(* LoadFromConfDir's skip is sound: when no reload is running and the      *)
(* recorded time equals the file's st_mtime (so every later call skips    *)
(* the file), the variable holds what the file says.                      *)
Settled ==
    /\ \A r \in Reloaders : pc[r] = "idle"
    /\ modtime = mtime
    /\ file \in Vals

LoadedMeansApplied == Settled => val = file
=============================================================================
