----------------------------- MODULE LibraryProofs ----------------------------
(***************************************************************************)
(* The library cache is safe for any number of hooks, builds and faults.   *)
(***************************************************************************)
EXTENDS LibthunderCache, TLAPS

LEMMA PathFacts ==
    /\ \A b \in Builds : Path(b) \in Paths
    /\ \A a, b \in Builds : Path(a) = Path(b) => a = b
BY DEF Path, Paths

LEMMA FaultSteps ==
    ASSUME FaultsTypeOK
    PROVE  /\ UNCHANGED faults => FaultsTypeOK'
           /\ \A kind : Fault(kind) => FaultsTypeOK'
BY FaultAssumption DEF FaultsTypeOK, Fault

LEMMA Updates ==
    ASSUME NEW r \in Ensuring
    PROVE  /\ \A pc \in UserPCs : [r EXCEPT !.pc = pc] \in Ensuring
           /\ \A pc \in UserPCs, b \in Builds \cup {None} :
                 [r EXCEPT !.pc = pc, !.build = b] \in Ensuring
           /\ \A pc \in UserPCs, x \in Contents :
                 [r EXCEPT !.pc = pc, !.temp = x] \in Ensuring
BY DEF Ensuring

LEMMA NoCallUpdates ==
    /\ NoCall \in Ensuring /\ NoCall.pc = "idle" /\ NoCall.build = None
    /\ \A b \in Builds \cup {None} :
          /\ [NoCall EXCEPT !.build = b] \in Ensuring
          /\ [NoCall EXCEPT !.build = b].pc = "idle"
          /\ [NoCall EXCEPT !.build = b].build = b
    /\ \A pc \in UserPCs :
          /\ [NoCall EXCEPT !.pc = pc] \in Ensuring
          /\ [NoCall EXCEPT !.pc = pc].pc = pc
          /\ [NoCall EXCEPT !.pc = pc].build = None
BY DEF Ensuring, NoCall, Contents, UserPCs

\* What a step of u may do to the lock: take it when it is free, drop its own.
LockMove(u) ==
    \/ lock' = lock
    \/ lock = None /\ lock' = u
    \/ lock = u /\ lock' = None

\* What a step of u may do to the cache: add the build it resolved, under the lock.
LibraryMove(u) ==
    \/ library' = library
    \/ /\ lock = u /\ user[u].build \in Builds
       /\ library' = [library EXCEPT ![Path(user[u].build)] = user[u].build]

\* What LibraryInv asks of the call r that u is in after the step.
CallFits(u, r) ==
    /\ r \in Ensuring
    /\ r.pc \in {"recheck"} \cup Fetching => lock' = u
    /\ r.pc \notin {"idle", "resolve"} =>
          r.build # None /\ ExplicitPin[u] \in {None, r.build}
    /\ r.pc = "publish" => r.temp = r.build
    /\ r.pc = "copy" => u \in Hooks /\ library'[Path(r.build)] # None
    /\ r.pc \in Fetching => library'[Path(r.build)] = None
    /\ u \in Hooks => /\ r.pc # "idle" => rootfs'[u] = None
                      /\ rootfs'[u] \in {r.build, None}

\* A step of one process keeps the invariant of all of them.
LEMMA ProcessStep ==
    ASSUME LibraryInv, NEW u \in Users, NEW r,
           user' = [user EXCEPT ![u] = r],
           CallFits(u, r), LockMove(u), LibraryMove(u),
           \A h \in Hooks : h # u => rootfs'[h] = rootfs[h],
           rootfs' \in [Hooks -> Contents],
           UNCHANGED World, FaultsTypeOK'
    PROVE  LibraryInv'
<1> USE DEF LibraryInv
<1>0. /\ \A v \in Users : user'[v] = IF v = u THEN r ELSE user[v]
      /\ Hooks \subseteq Users /\ \A v \in Users : user[v] \in Ensuring
  BY DEF LibraryTypeOK, Users
<1>1. \A b \in Builds : library'[Path(b)] \in {library[Path(b)], b}
  BY PathFacts DEF LibraryMove, LibraryTypeOK
<1>2. \A v \in Users : v # u /\ user[v].pc \in {"recheck"} \cup Fetching =>
          lock' = v /\ library' = library
  BY LibraryAssumption DEF LockIsHeld, LockMove, LibraryMove
<1>3. LibraryTypeOK'
  <2>1. library' \in [Paths -> Contents]
    BY PathFacts DEF LibraryMove, LibraryTypeOK, Contents
  <2>2. lock' \in Users \cup {None}
    BY DEF LockMove, LibraryTypeOK
  <2>3. user' \in [Users -> Ensuring]
    BY DEF LibraryTypeOK, CallFits
  <2> QED
    BY <2>1, <2>2, <2>3 DEF LibraryTypeOK, World
<1>4. LockIsHeld'
  BY <1>0, <1>2 DEF LockIsHeld, CallFits
<1>5. CallIsOnBuild'
  <2>1. ASSUME NEW v \in Users
        PROVE  /\ user'[v].pc \notin {"idle", "resolve"} =>
                     user'[v].build # None /\ ExplicitPin[v] \in {None, user'[v].build}
               /\ user'[v].pc = "publish" => user'[v].temp = user'[v].build
    BY <1>0 DEF CallIsOnBuild, CallFits
  <2>2. ASSUME NEW v \in Users, user'[v].pc = "copy"
        PROVE  v \in Hooks /\ library'[Path(user'[v].build)] # None
    <3>1. CASE v = u
      BY <3>1, <2>2, <1>0 DEF CallFits
    <3>2. CASE v # u
      <4>1. /\ user'[v] = user[v] /\ v \in Hooks
            /\ user[v].build # None /\ library[Path(user[v].build)] # None
        BY <3>2, <2>2, <1>0 DEF CallIsOnBuild, Cached
      <4>2. user[v].build \in Builds
        BY <4>1, <1>0 DEF Ensuring
      <4> QED
        BY <4>1, <4>2, <1>1, LibraryAssumption
    <3> QED
      BY <3>1, <3>2
  <2>3. ASSUME NEW h \in Hooks, user'[h].pc # "idle" PROVE rootfs'[h] = None
    BY <2>3, <1>0 DEF CallIsOnBuild, CallFits
  <2> QED
    BY <2>1, <2>2, <2>3 DEF CallIsOnBuild, Cached
<1>6. LibraryIsVerified'
  <2>1. \A b \in Builds : library'[Path(b)] \in {b, None}
    BY <1>1 DEF LibraryIsVerified
  <2>2. \A h \in Hooks : rootfs'[h] \in {user'[h].build, None}
    BY <1>0 DEF LibraryIsVerified, CallFits
  <2> QED
    BY <2>1, <2>2 DEF LibraryIsVerified
<1>7. OneDownload'
  <2>1. ASSUME NEW v \in Users, user'[v].pc \in Fetching
        PROVE  library'[Path(user'[v].build)] = None
    <3>1. CASE v = u
      BY <3>1, <2>1, <1>0 DEF CallFits
    <3>2. CASE v # u
      BY <3>2, <2>1, <1>0, <1>2 DEF OneDownload, Cached
    <3> QED
      BY <3>1, <3>2
  <2> QED
    BY <2>1, <1>4 DEF OneDownload, Cached, LockIsHeld
<1> QED
  BY <1>3, <1>4, <1>5, <1>6, <1>7

-------------------------------------------------------------------------------
(* The ways a call goes on *)

\* A step of u that touches neither the cache nor a container.
Quiet == UNCHANGED <<World, library, rootfs>>

LEMMA QuietStep ==
    ASSUME LibraryInv, NEW u \in Users, NEW r, Step(u, r), CallFits(u, r),
           LockMove(u), Quiet, FaultsTypeOK'
    PROVE  LibraryInv'
BY ProcessStep DEF Quiet, World, Step, LibraryMove, LibraryInv, LibraryTypeOK

\* What the invariant says of u alone.
LEMMA CallFacts ==
    ASSUME LibraryInv, NEW u \in Users
    PROVE  /\ user[u] \in Ensuring
           /\ user[u].pc \in {"recheck"} \cup Fetching => lock = u
           /\ user[u].pc \notin {"idle", "resolve"} =>
                 user[u].build \in Builds /\ ExplicitPin[u] \in {None, user[u].build}
           /\ user[u].pc \in Fetching => library[Path(user[u].build)] = None
           /\ u \in Hooks /\ user[u].pc # "idle" => rootfs[u] = None
           /\ FaultsTypeOK
BY DEF LibraryInv, LibraryTypeOK, LockIsHeld, CallIsOnBuild, OneDownload, Cached, Ensuring

LEMMA GivesUp ==
    ASSUME LibraryInv, NEW u \in Users, user[u].pc # "idle", GiveUp(u), Quiet,
           FaultsTypeOK'
    PROVE  LibraryInv'
<1>1. CallFits(u, NoCall)
  BY CallFacts, NoCallUpdates DEF CallFits, Quiet, Fetching
<1> QED
  BY <1>1, QuietStep DEF GiveUp, Unlock, LockMove

\* The call a return leaves u in.
Returned(u) == IF u \in Hooks THEN [user[u] EXCEPT !.pc = "copy", !.temp = None]
                              ELSE NoCall

LEMMA ReturnFits ==
    ASSUME LibraryInv, NEW u \in Users, user[u].pc \notin {"idle", "resolve"},
           library'[Path(user[u].build)] # None, UNCHANGED rootfs
    PROVE  CallFits(u, Returned(u))
<1>1. Returned(u) \in Ensuring
  BY CallFacts, Updates, NoCallUpdates DEF Returned, UserPCs, Contents
<1>2. CASE u \in Hooks
  BY <1>1, <1>2, CallFacts, LibraryAssumption DEF CallFits, Returned, Ensuring, Fetching
<1>3. CASE u \notin Hooks
  BY <1>1, <1>3, NoCallUpdates DEF CallFits, Returned, Fetching
<1> QED
  BY <1>2, <1>3

LEMMA Returns ==
    ASSUME LibraryInv, NEW u \in Users, user[u].pc \notin {"idle", "resolve"},
           Cached(u), Return(u), Quiet, FaultsTypeOK'
    PROVE  LibraryInv'
<1>1. CallFits(u, Returned(u))
  BY ReturnFits DEF Cached, Quiet
<1> QED
  BY <1>1, QuietStep DEF Return, Returned, Unlock, LockMove

\* A call that goes on to its next step, its build resolved.
LEMMA GoesOn ==
    ASSUME LibraryInv, NEW u \in Users, user[u].pc \notin {"idle", "resolve"},
           NEW pc \in {"lock", "recheck", "fetch"},
           Step(u, [user[u] EXCEPT !.pc = pc]),
           pc \in {"recheck", "fetch"} => lock' = u, LockMove(u),
           pc = "fetch" => ~Cached(u),
           Quiet, FaultsTypeOK'
    PROVE  LibraryInv'
<1> DEFINE r == [user[u] EXCEPT !.pc = pc]
<1>1. r \in Ensuring
  BY CallFacts, Updates DEF UserPCs
<1>2. r.pc = pc /\ r.build = user[u].build
  BY CallFacts DEF Ensuring
<1>3. CallFits(u, r)
  BY <1>1, <1>2, CallFacts, LibraryAssumption DEF CallFits, Fetching, Cached, Quiet
<1> QED
  BY <1>3, QuietStep

-------------------------------------------------------------------------------
(* The actions *)

LEMMA BeginStep ==
    ASSUME LibraryInv, NEW u \in Users, Begin(u)
    PROVE  LibraryInv'
<1> DEFINE r == [NoCall EXCEPT !.pc = "resolve"]
<1>1. r \in Ensuring /\ r.pc = "resolve" /\ r.build = None
  BY NoCallUpdates DEF UserPCs
<1>2. CallFits(u, r)
  BY <1>1 DEF CallFits, Fetching, Begin
<1>3. rootfs' \in [Hooks -> Contents]
  BY DEF Begin, LibraryInv, LibraryTypeOK, Contents
<1>4. LockMove(u) /\ LibraryMove(u) /\ FaultsTypeOK'
  BY CallFacts, FaultSteps DEF Begin, LockMove, LibraryMove
<1> QED
  BY <1>2, <1>3, <1>4, ProcessStep DEF Begin, Step

LEMMA ResolveStep ==
    ASSUME LibraryInv, NEW u \in Users, Resolve(u)
    PROVE  LibraryInv'
<1>0. /\ user[u].pc = "resolve" /\ Quiet
      /\ FaultsTypeOK /\ FaultsTypeOK'
  BY CallFacts, FaultSteps DEF Resolve, AtStep, Quiet
<1>1. ASSUME NEW b \in Builds, ExplicitPin[u] \in {None, b}, UNCHANGED lock,
             Step(u, [user[u] EXCEPT !.pc = "stat", !.build = b])
      PROVE  LibraryInv'
  <2> DEFINE r == [user[u] EXCEPT !.pc = "stat", !.build = b]
  <2>0. r \in Ensuring
    BY CallFacts, Updates DEF UserPCs
  <2>1. r.pc = "stat" /\ r.build = b
    BY CallFacts DEF Ensuring
  <2>2. CallFits(u, r)
    BY <2>0, <2>1, <1>0, <1>1, CallFacts, LibraryAssumption
    DEF CallFits, Fetching, Quiet
  <2> QED
    BY <1>0, <1>1, <2>2, QuietStep DEF LockMove
<1>2. pin \in Builds /\ ExplicitPin[u] \in Builds \cup {None}
  BY LibraryAssumption DEF LibraryInv, LibraryTypeOK
<1>3. CASE GiveUp(u)
  BY <1>0, <1>3, GivesUp
<1> QED
  BY <1>1, <1>2, <1>3 DEF Resolve

LEMMA StatCachedStep ==
    ASSUME LibraryInv, NEW u \in Users, StatCached(u)
    PROVE  LibraryInv'
<1>0. user[u].pc = "stat" /\ Quiet /\ FaultsTypeOK'
  BY CallFacts, FaultSteps DEF StatCached, AtStep, Quiet
<1>1. CASE Cached(u) /\ Return(u)
  BY <1>0, <1>1, Returns
<1>2. CASE Step(u, [user[u] EXCEPT !.pc = "lock"]) /\ UNCHANGED lock
  BY <1>0, <1>2, GoesOn DEF LockMove
<1>3. CASE GiveUp(u)
  BY <1>0, <1>3, GivesUp
<1> QED
  BY <1>1, <1>2, <1>3 DEF StatCached

LEMMA LockCacheStep ==
    ASSUME LibraryInv, NEW u \in Users, LockCache(u)
    PROVE  LibraryInv'
<1>1. user[u].pc = "lock" /\ Quiet /\ FaultsTypeOK' /\ LockMove(u)
  BY CallFacts, FaultSteps DEF LockCache, AtStep, Quiet, LockMove
<1> QED
  BY <1>1, GoesOn DEF LockCache

LEMMA RecheckStep ==
    ASSUME LibraryInv, NEW u \in Users, Recheck(u)
    PROVE  LibraryInv'
<1>0. user[u].pc = "recheck" /\ lock = u /\ Quiet /\ FaultsTypeOK'
  BY CallFacts, FaultSteps DEF Recheck, AtStep, Quiet
<1>1. CASE Cached(u) /\ Return(u)
  BY <1>0, <1>1, Returns
<1>2. CASE ~Cached(u) /\ Step(u, [user[u] EXCEPT !.pc = "fetch"]) /\ UNCHANGED lock
  BY <1>0, <1>2, GoesOn DEF LockMove
<1> QED
  BY <1>1, <1>2 DEF Recheck

LEMMA FetchStep ==
    ASSUME LibraryInv, NEW u \in Users, Fetch(u)
    PROVE  LibraryInv'
<1>0. user[u].pc = "fetch" /\ lock = u /\ Quiet /\ FaultsTypeOK'
  BY CallFacts, FaultSteps DEF Fetch, AtStep, Quiet, Fetching
<1>1. ASSUME NEW x \in Contents, UNCHANGED lock,
             Step(u, [user[u] EXCEPT !.pc = "verify", !.temp = x])
      PROVE  LibraryInv'
  <2> DEFINE r == [user[u] EXCEPT !.pc = "verify", !.temp = x]
  <2>0. r \in Ensuring
    BY CallFacts, Updates DEF UserPCs
  <2>1. r.pc = "verify" /\ r.build = user[u].build
    BY CallFacts DEF Ensuring
  <2>2. CallFits(u, r)
    BY <1>0, <1>1, <2>0, <2>1, CallFacts, LibraryAssumption DEF CallFits, Fetching, Quiet
  <2> QED
    BY <1>0, <1>1, <2>2, QuietStep DEF LockMove
<1>2. /\ Junk \in Contents /\ served \in Contents
      /\ ExplicitPin[u] # None => ExplicitPin[u] \in Contents
  BY LibraryAssumption DEF LibraryInv, LibraryTypeOK, Contents
<1>3. CASE GiveUp(u)
  BY <1>0, <1>3, GivesUp
<1> QED
  BY <1>1, <1>2, <1>3 DEF Fetch

LEMMA VerifyStep ==
    ASSUME LibraryInv, NEW u \in Users, Verify(u)
    PROVE  LibraryInv'
<1>0. user[u].pc = "verify" /\ lock = u /\ Quiet /\ FaultsTypeOK'
  BY CallFacts, FaultSteps DEF Verify, AtStep, Quiet, Fetching
<1>1. CASE /\ user[u].temp = user[u].build
           /\ Step(u, [user[u] EXCEPT !.pc = "publish"]) /\ UNCHANGED lock
  <2> DEFINE r == [user[u] EXCEPT !.pc = "publish"]
  <2>0. r \in Ensuring
    BY CallFacts, Updates DEF UserPCs
  <2>1. /\ r.pc = "publish"
        /\ r.build = user[u].build /\ r.temp = user[u].temp
    BY CallFacts DEF Ensuring
  <2>2. CallFits(u, r)
    BY <1>0, <1>1, <2>0, <2>1, CallFacts, LibraryAssumption DEF CallFits, Fetching, Quiet
  <2> QED
    BY <1>0, <1>1, <2>2, QuietStep DEF LockMove
<1>2. CASE GiveUp(u)
  BY <1>0, <1>2, GivesUp
<1> QED
  BY <1>1, <1>2 DEF Verify

\* The one step that fills the cache.
LEMMA PublishStep ==
    ASSUME LibraryInv, NEW u \in Users, Publish(u)
    PROVE  LibraryInv'
<1>0. /\ user[u].pc = "publish" /\ lock = u /\ user[u].build \in Builds
      /\ user[u].temp = user[u].build /\ FaultsTypeOK'
  BY CallFacts, FaultSteps DEF Publish, AtStep, Fetching, LibraryInv, CallIsOnBuild
<1>1. CASE /\ library' = [library EXCEPT ![Path(user[u].build)] = user[u].temp]
           /\ Return(u)
  <2>1. LibraryMove(u)
    BY <1>0, <1>1 DEF LibraryMove
  <2>2. library'[Path(user[u].build)] # None
    BY <1>0, <1>1, PathFacts, LibraryAssumption DEF LibraryInv, LibraryTypeOK
  <2>3. CallFits(u, Returned(u))
    BY <1>0, <2>2, ReturnFits DEF Publish
  <2>4. LockMove(u) /\ Step(u, Returned(u))
    BY <1>1 DEF Return, Returned, Unlock, LockMove
  <2>5. rootfs' \in [Hooks -> Contents]
    BY DEF Publish, LibraryInv, LibraryTypeOK
  <2> QED
    BY <1>0, <2>1, <2>3, <2>4, <2>5, ProcessStep DEF Publish, Step
<1>2. CASE GiveUp(u) /\ UNCHANGED library
  <2>1. Quiet
    BY <1>2 DEF Publish, Quiet
  <2> QED
    BY <1>0, <1>2, <2>1, GivesUp
<1> QED
  BY <1>1, <1>2 DEF Publish

LEMMA CopyLibraryStep ==
    ASSUME LibraryInv, NEW h \in Hooks, CopyLibrary(h)
    PROVE  LibraryInv'
<1> DEFINE b == user[h].build
           r == [NoCall EXCEPT !.build = b]
<1>0. h \in Users /\ user[h].pc = "copy" /\ FaultsTypeOK'
  <2>1. h \in Users
    BY DEF Users
  <2> QED
    BY <2>1, CallFacts, FaultSteps DEF CopyLibrary, AtStep
<1>1. b \in Builds /\ library[Path(b)] = b /\ rootfs[h] = None
  <2>1. b \in Builds /\ library[Path(b)] # None /\ rootfs[h] = None
    BY <1>0, CallFacts DEF LibraryInv, CallIsOnBuild, Cached
  <2> QED
    BY <2>1 DEF LibraryInv, LibraryIsVerified
<1>2. r \in Ensuring /\ r.pc = "idle" /\ r.build = b
  BY <1>1, NoCallUpdates
<1>3. /\ rootfs' \in [Hooks -> Contents]
      /\ rootfs'[h] \in {b, None}
      /\ \A g \in Hooks : g # h => rootfs'[g] = rootfs[g]
  BY <1>1 DEF CopyLibrary, LibraryInv, LibraryTypeOK, Contents
<1>4. CallFits(h, r)
  BY <1>2, <1>3 DEF CallFits, Fetching
<1>5. LockMove(h) /\ LibraryMove(h)
  BY DEF CopyLibrary, LockMove, LibraryMove
<1> QED
  BY <1>0, <1>3, <1>4, <1>5, ProcessStep DEF CopyLibrary, Step

LEMMA KilledStep ==
    ASSUME LibraryInv, NEW u \in Users, Killed(u)
    PROVE  LibraryInv'
<1>1. user[u].pc # "idle" /\ Quiet /\ FaultsTypeOK'
  BY CallFacts, FaultSteps DEF Killed, AtStep, Quiet
<1> QED
  BY <1>1, GivesUp DEF Killed, GiveUp

LEMMA ReleaseStep ==
    ASSUME LibraryInv, Release
    PROVE  LibraryInv'
<1>1. FaultsTypeOK' /\ pin' \in Builds /\ served' \in Builds
  BY FaultSteps DEF Release, LibraryInv, LibraryTypeOK
<1>2. UNCHANGED <<library, lock, user, rootfs>>
  BY DEF Release
<1> QED
  BY <1>1, <1>2 DEF LibraryInv, LibraryTypeOK, LockIsHeld, CallIsOnBuild,
                    LibraryIsVerified, OneDownload, Cached

-------------------------------------------------------------------------------
(* The theorems *)

\* The lock stays its holder's until it returns and only verified downloads are
\* renamed into the cache (Ensure), for any number of hooks and any builds:
\* the inductive invariant behind the next two theorems.
THEOREM LibraryInvariant == LibrarySpec => []LibraryInv
<1>1. LibraryInit => LibraryInv
  <2> SUFFICES ASSUME LibraryInit PROVE LibraryInv
    OBVIOUS
  <2>1. LibraryTypeOK
    BY NoCallUpdates, FaultAssumption
    DEF LibraryInit, LibraryTypeOK, Contents, FaultsTypeOK
  <2>2. /\ \A u \in Users : user[u].pc = "idle" /\ user[u].build = None
        /\ \A h \in Hooks : h \in Users /\ rootfs[h] = None
        /\ \A b \in Builds : library[Path(b)] = None
    BY PathFacts DEF LibraryInit, NoCall, Users
  <2> QED
    BY <2>1, <2>2 DEF LibraryInv, LockIsHeld, CallIsOnBuild, LibraryIsVerified,
                      OneDownload, Fetching
<1>2. LibraryInv /\ [LibraryNext]_libraryVars => LibraryInv'
  <2> SUFFICES ASSUME LibraryInv, [LibraryNext]_libraryVars PROVE LibraryInv'
    OBVIOUS
  <2>1. CASE UNCHANGED libraryVars
    BY <2>1 DEF libraryVars, LibraryInv, LibraryTypeOK, FaultsTypeOK, LockIsHeld,
                CallIsOnBuild, LibraryIsVerified, OneDownload, Cached
  <2>2. CASE Release
    BY <2>2, ReleaseStep
  <2>3. ASSUME NEW u \in Users, Begin(u) \/ EnsureStep(u) \/ Killed(u)
        PROVE  LibraryInv'
    BY <2>3, BeginStep, ResolveStep, StatCachedStep, LockCacheStep, RecheckStep,
       FetchStep, VerifyStep, PublishStep, CopyLibraryStep, KilledStep
    DEF EnsureStep
  <2> QED
    BY <2>1, <2>2, <2>3 DEF LibraryNext
<1> QED
  BY <1>1, <1>2, PTL DEF LibrarySpec

\* A truncated or tampered download never becomes the library a workload
\* preloads (Ensure's digest check before the rename, stageThunderClient's copy).
THEOREM VerifiedLibrary == LibrarySpec => []LibraryIsVerified
<1>1. LibraryInv => LibraryIsVerified
  BY DEF LibraryInv
<1> QED
  BY <1>1, LibraryInvariant, PTL

\* A node downloads one build at a time and none that it has (the lock and the
\* second stat of Ensure).
THEOREM SingleDownload == LibrarySpec => []OneDownload
<1>1. LibraryInv => OneDownload
  BY DEF LibraryInv
<1> QED
  BY <1>1, LibraryInvariant, PTL

\* A hook with an explicit pin needs neither the installer nor the artifact host
\* while its build is cached: Resolve skips the installer, both stats find the
\* file, and no call that downloads can be on a build the node has.
THEOREM PinnedHookIsServed == LibrarySpec => PinnedIsServed
<1> DEFINE A == \A h \in Hooks :
                   /\ ExplicitPin[h] # None /\ library[Path(ExplicitPin[h])] # None
                   /\ user[h].pc # "copy" /\ EnsureStep(h)
                   => user'[h].pc # "idle"
<1>1. LibraryInv /\ [LibraryNext]_libraryVars => [A]_libraryVars
  <2> SUFFICES ASSUME LibraryInv, NEW h \in Hooks, ExplicitPin[h] # None,
                      library[Path(ExplicitPin[h])] # None,
                      user[h].pc # "copy", EnsureStep(h)
               PROVE  user'[h].pc # "idle"
    OBVIOUS
  <2>1. h \in Users /\ user \in [Users -> Ensuring]
    BY DEF Users, LibraryInv, LibraryTypeOK
  <2>2. user[h].pc \notin {"idle", "resolve"} => Cached(h)
    BY <2>1, CallFacts DEF Cached
  <2>3. user[h].pc \notin Fetching
    BY <2>1, <2>2, CallFacts DEF Cached, Fetching
  <2>4. CASE Resolve(h)
    BY <2>1, <2>4 DEF Resolve, Step, Ensuring
  <2>5. CASE StatCached(h) \/ Recheck(h)
    <3>1. Return(h)
      BY <2>2, <2>5 DEF StatCached, Recheck, AtStep
    <3> QED
      BY <2>1, <3>1 DEF Return, Step, Ensuring
  <2>6. CASE LockCache(h)
    BY <2>1, <2>6 DEF LockCache, Step, Ensuring
  <2> QED
    BY <2>3, <2>4, <2>5, <2>6
    DEF EnsureStep, Fetch, Verify, Publish, CopyLibrary, AtStep, Fetching
<1> QED
  BY <1>1, LibraryInvariant, PTL DEF LibrarySpec, PinnedIsServed

===============================================================================
