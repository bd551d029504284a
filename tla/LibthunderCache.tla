---------------------------- MODULE LibthunderCache ----------------------------
(***************************************************************************)
(* The node's cache of the client library (internal/daemon/libthunder.go). *)
(* The reconcile loop, which warms it, and every CDI hook, which copies    *)
(* the library into a container, run Ensure as processes of their own that *)
(* share the cache directory and the lock file in it.  The lock file is    *)
(* never deleted, so unlike a claim's it is known by its holder alone.     *)
(***************************************************************************)
EXTENDS Faults

CONSTANTS Daemon,         \* the reconcile loop's ensureLibthunder
          Hooks,          \* CDI hook processes
          Builds,         \* builds of the library, named by their digests
          ExplicitPin,    \* ExplicitPin[u]: the build u is configured with, or None
          Junk,           \* contents that have the digest of no build
          None

Users == Hooks \cup {Daemon}

ASSUME LibraryAssumption ==
    /\ Daemon \notin Hooks
    /\ ExplicitPin \in [Users -> Builds \cup {None}]
    /\ None \notin Builds /\ Junk \notin Builds /\ None # Junk
    /\ None \notin Users

VARIABLES pin,            \* the build the installer script pins now (external)
          served,         \* the build the artifact host serves now (external)
          library,        \* library[path]: what is cached there, or None
          lock,           \* who holds .download.lock, or None
          user,           \* user[u]: process u's call of Ensure
          rootfs          \* rootfs[h]: the library in the container h stages

libraryVars == <<pin, served, library, lock, user, rootfs, faults>>

\* One file per digest, so a new release replaces nothing.
Path(b) == <<"lib", b>>
Paths == {Path(b) : b \in Builds}

Contents == Builds \cup {Junk, None}

UserPCs == {"idle", "resolve", "stat", "lock", "recheck", "fetch", "verify",
            "publish", "copy"}
Fetching == {"fetch", "verify", "publish"}

\* build: the artifact resolved; temp: the temporary file being written.
Ensuring == [pc : UserPCs, build : Builds \cup {None}, temp : Contents]
NoCall == [pc |-> "idle", build |-> None, temp |-> None]

LibraryInit ==
    /\ pin \in Builds /\ served \in Builds
    /\ library = [f \in Paths |-> None]
    /\ lock = None
    /\ user = [u \in Users |-> NoCall]
    /\ rootfs = [h \in Hooks |-> None]
    /\ faults = 0

-------------------------------------------------------------------------------
(* Ensure *)

World == <<pin, served>>
AtStep(u, pc) == user[u].pc = pc
Step(u, r) == user' = [user EXCEPT ![u] = r]

\* Mutant: a call that found the file cached drops the lock of another.
UnlockAlways(u) == lock' = None

Unlock(u) == lock' = IF lock = u THEN None ELSE lock

\* Mutant: an error path that forgets the deferred unlock.
GiveUpLocked(u) == Step(u, NoCall) /\ UNCHANGED lock

\* Returning an error: the temporary file is removed and the lock released.
GiveUp(u) == Step(u, NoCall) /\ Unlock(u)

\* Returning the path: a hook goes on to copy it, the daemon is done.
Return(u) ==
    /\ Step(u, IF u \in Hooks THEN [user[u] EXCEPT !.pc = "copy", !.temp = None]
                              ELSE NoCall)
    /\ Unlock(u)

\* Mutant: the reconcile loop warms the cache only while it is empty.
BeginIfEmpty(u) ==
    /\ AtStep(u, "idle")
    /\ u = Daemon => \A f \in Paths : library[f] = None
    /\ Step(u, [NoCall EXCEPT !.pc = "resolve"])
    /\ rootfs' = [h \in Hooks |-> IF h = u THEN None ELSE rootfs[h]]
    /\ UNCHANGED <<World, library, lock, faults>>

\* A pass of the reconcile loop, or a hook for a new container; each makes a
\* cache object of its own, so Resolve's memo never outlives the call.
Begin(u) ==
    /\ AtStep(u, "idle")
    /\ Step(u, [NoCall EXCEPT !.pc = "resolve"])
    /\ rootfs' = [h \in Hooks |-> IF h = u THEN None ELSE rootfs[h]]
    /\ UNCHANGED <<World, library, lock, faults>>

\* Mutant: fetches the installer whether it is needed or not.
ResolveAlways(u) ==
    /\ AtStep(u, "resolve")
    /\ LET b == IF ExplicitPin[u] = None THEN pin ELSE ExplicitPin[u]
       IN \/ /\ Step(u, [user[u] EXCEPT !.pc = "stat", !.build = b])
             /\ UNCHANGED <<lock, faults>>
          \/ Fault("error") /\ GiveUp(u)
    /\ UNCHANGED <<World, library, rootfs>>

\* An explicit pin needs no installer; otherwise it is fetched and parsed.
Resolve(u) ==
    /\ AtStep(u, "resolve")
    /\ LET found(b) == Step(u, [user[u] EXCEPT !.pc = "stat", !.build = b])
       IN \/ /\ ExplicitPin[u] # None
             /\ found(ExplicitPin[u]) /\ UNCHANGED <<lock, faults>>
          \/ /\ ExplicitPin[u] = None
             /\ found(pin) /\ UNCHANGED <<lock, faults>>
          \/ ExplicitPin[u] = None /\ Fault("error") /\ GiveUp(u)
    /\ UNCHANGED <<World, library, rootfs>>

Cached(u) == library[Path(user[u].build)] # None

StatCached(u) ==
    /\ AtStep(u, "stat")
    /\ \/ Cached(u) /\ Return(u) /\ UNCHANGED faults
       \/ /\ ~Cached(u)
          /\ Step(u, [user[u] EXCEPT !.pc = "lock"]) /\ UNCHANGED <<lock, faults>>
       \/ ~Cached(u) /\ Fault("error") /\ GiveUp(u)
    /\ UNCHANGED <<World, library, rootfs>>

LockCache(u) ==
    /\ AtStep(u, "lock") /\ lock = None
    /\ lock' = u
    /\ Step(u, [user[u] EXCEPT !.pc = "recheck"])
    /\ UNCHANGED <<World, library, rootfs, faults>>

\* Mutant: does not look again.
RecheckNot(u) ==
    /\ AtStep(u, "recheck")
    /\ Step(u, [user[u] EXCEPT !.pc = "fetch"])
    /\ UNCHANGED <<World, library, lock, rootfs, faults>>

\* Whoever held the lock before may have finished the same download.
Recheck(u) ==
    /\ AtStep(u, "recheck")
    /\ \/ Cached(u) /\ Return(u)
       \/ ~Cached(u) /\ Step(u, [user[u] EXCEPT !.pc = "fetch"]) /\ UNCHANGED lock
    /\ UNCHANGED <<World, library, rootfs, faults>>

\* The artifact's URL names no digest: it serves what is released now.  What
\* arrives may be cut short at the size limit or be something else altogether.
Fetch(u) ==
    /\ AtStep(u, "fetch")
    /\ LET body == IF ExplicitPin[u] # None THEN ExplicitPin[u] ELSE served
           write(x) == Step(u, [user[u] EXCEPT !.pc = "verify", !.temp = x])
       IN \/ write(body) /\ UNCHANGED <<lock, faults>>
          \/ Fault("corrupt") /\ write(Junk) /\ UNCHANGED lock
          \/ Fault("error") /\ GiveUp(u)
    /\ UNCHANGED <<World, library, rootfs>>

Verify(u) ==
    /\ AtStep(u, "verify")
    /\ \/ /\ user[u].temp = user[u].build
          /\ Step(u, [user[u] EXCEPT !.pc = "publish"]) /\ UNCHANGED lock
       \/ user[u].temp # user[u].build /\ GiveUp(u)
    /\ UNCHANGED <<World, library, rootfs, faults>>

\* chmod and rename.
Publish(u) ==
    /\ AtStep(u, "publish")
    /\ \/ /\ library' = [library EXCEPT ![Path(user[u].build)] = user[u].temp]
          /\ Return(u) /\ UNCHANGED faults
       \/ Fault("error") /\ GiveUp(u) /\ UNCHANGED library
    /\ UNCHANGED <<World, rootfs>>

\* Mutant: copies the build that is pinned by now.
CopyPinned(h) ==
    /\ AtStep(h, "copy")
    /\ rootfs' = [rootfs EXCEPT ![h] = library[Path(pin)]]
    /\ Step(h, [NoCall EXCEPT !.build = user[h].build])
    /\ UNCHANGED <<World, library, lock, faults>>

\* stageThunderClient: the cached file is copied into the container.  The hook's
\* own process ends with it; it keeps what it resolved for the properties' sake.
CopyLibrary(h) ==
    /\ AtStep(h, "copy")
    /\ \/ /\ rootfs' = [rootfs EXCEPT ![h] = library[Path(user[h].build)]]
          /\ UNCHANGED faults
       \/ Fault("error") /\ UNCHANGED rootfs
    /\ Step(h, [NoCall EXCEPT !.build = user[h].build])
    /\ UNCHANGED <<World, library, lock>>

EnsureStep(u) ==
    \/ Resolve(u) \/ StatCached(u) \/ LockCache(u) \/ Recheck(u)
    \/ Fetch(u) \/ Verify(u) \/ Publish(u)
    \/ u \in Hooks /\ CopyLibrary(u)

-------------------------------------------------------------------------------
(* The world around it (external) *)

\* A process is killed: its lock goes with it, its temporary file stays behind.
Killed(u) ==
    /\ ~AtStep(u, "idle")
    /\ Fault(IF u \in Hooks THEN "hookCrash" ELSE "daemonCrash")
    /\ Step(u, NoCall) /\ Unlock(u)
    /\ UNCHANGED <<World, library, rootfs>>

\* Thunder releases a build: its installer and its artifact change one at a time.
Release ==
    /\ Fault("release")
    /\ \/ pin' \in Builds \ {pin} /\ UNCHANGED served
       \/ served' \in Builds \ {served} /\ UNCHANGED pin
    /\ UNCHANGED <<library, lock, user, rootfs>>

LibraryNext ==
    \/ \E u \in Users : Begin(u) \/ EnsureStep(u) \/ Killed(u)
    \/ Release

LibrarySpec == LibraryInit /\ [][LibraryNext]_libraryVars

\* The reconcile loop never stops passing here; a call goes on to its end, and
\* flock serves those who wait in turn.  A hook has a deadline for what it
\* downloads; the daemon has none, so nothing is assumed of what it is waiting for.
Goes(u) == WF_libraryVars(EnsureStep(u)) /\ SF_libraryVars(LockCache(u))

LibraryFairSpec ==
    /\ LibrarySpec
    /\ WF_libraryVars(Begin(Daemon))
    /\ WF_libraryVars(user[Daemon].pc \notin {"resolve", "fetch"} /\ EnsureStep(Daemon))
    /\ SF_libraryVars(LockCache(Daemon))
    /\ \A h \in Hooks : Goes(h)

-------------------------------------------------------------------------------
(* Properties *)

LibraryTypeOK ==
    /\ pin \in Builds /\ served \in Builds
    /\ library \in [Paths -> Contents]
    /\ lock \in Users \cup {None}
    /\ user \in [Users -> Ensuring]
    /\ rootfs \in [Hooks -> Contents]
    /\ FaultsTypeOK

\* A truncated or tampered download never becomes the library a workload
\* preloads (libthunder.go 160-162): a cached file is the build its name says,
\* and a container has the build its hook resolved, whatever was released,
\* downloaded or killed in between.
LibraryIsVerified ==
    /\ \A b \in Builds : library[Path(b)] \in {b, None}
    /\ \A h \in Hooks : rootfs[h] \in {user[h].build, None}

\* One download per node, not one per container (libthunder.go 176-178): at
\* most one process downloads at a time, and never a build the node has.
OneDownload ==
    \A u \in Users : user[u].pc \in Fetching =>
        /\ ~Cached(u)
        /\ \A v \in Users : user[v].pc \in Fetching => u = v

\* Whoever is past the lock holds it: nobody else's return released it.
LockIsHeld ==
    \A u \in Users : user[u].pc \in {"recheck"} \cup Fetching => lock = u

\* A call past Resolve has a build, its process's own if it is configured with
\* one, and a file is published or copied only when it is that build.
CallIsOnBuild ==
    /\ \A u \in Users :
          /\ user[u].pc \notin {"idle", "resolve"} =>
                /\ user[u].build # None
                /\ ExplicitPin[u] \in {None, user[u].build}
          /\ user[u].pc = "publish" => user[u].temp = user[u].build
          /\ user[u].pc = "copy" => u \in Hooks /\ Cached(u)
    /\ \A h \in Hooks : user[h].pc # "idle" => rootfs[h] = None

\* What makes the cache safe for processes that only share its directory: the
\* lock is its holder's until it returns, and what is renamed was verified.
LibraryInv ==
    /\ LibraryTypeOK /\ LockIsHeld /\ CallIsOnBuild
    /\ LibraryIsVerified /\ OneDownload

\* The daemon asks for something that never comes.
StuckAt(pc) == <>[]AtStep(Daemon, pc)

CallEnds(u) == user[u].pc # "idle" ~> user[u].pc = "idle"

\* A call of Ensure returns, also after the process that held the lock was
\* killed or failed, unless the daemon's own download never ends (libthunder.go
\* 67-72, reconcile.go 347-358): nothing else keeps a hook, which holds its
\* claim's lock meanwhile, for ever.
EnsureReturns ==
    /\ StuckAt("fetch") \/ \A h \in Hooks : CallEnds(h)
    /\ StuckAt("fetch") \/ StuckAt("resolve") \/ CallEnds(Daemon)

\* The hook's own deadline bounds the whole hook (cdihook.go 32-33), its wait
\* for the daemon's download included.
HookIsBounded == \A h \in Hooks : CallEnds(h)

\* Once a release is complete, the node gets its library, and keeps it, without
\* any container asking for it (reconcile.go 150-153), unless the daemon is
\* never answered.
CacheIsWarmed ==
    \A b \in Builds :
        <>[](pin = b /\ served = b) =>
            StuckAt("resolve") \/ StuckAt("fetch") \/ <>[](library[Path(b)] = b)

\* An explicit pin skips the installer entirely (libthunder.go 91-92), and what is
\* cached needs no artifact host: as long as its build is there, a hook with a
\* pin gets it, whatever is down and whoever holds the lock.
PinnedIsServed ==
    [][\A h \in Hooks :
          /\ ExplicitPin[h] # None /\ library[Path(ExplicitPin[h])] # None
          /\ user[h].pc # "copy" /\ EnsureStep(h)
          => user'[h].pc # "idle"]_libraryVars

\* A node that cannot reach the artifact host can still serve claims whose
\* library is already cached (reconcile.go 343-346): a hook does not fail as
\* long as the build that is pinned is there.
CachedIsServed ==
    [][\A h \in Hooks :
          library[Path(pin)] # None /\ user[h].pc \in UserPCs \ {"idle", "copy"}
              => user'[h].pc # "idle"]_libraryVars
===============================================================================
