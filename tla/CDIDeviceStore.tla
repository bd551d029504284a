---------------------------- MODULE CDIDeviceStore ----------------------------
(***************************************************************************)
(* The node's files for a claim (internal/daemon/store.go,                 *)
(* FileCDIDeviceStore): the CDI spec the container runtime reads, and the  *)
(* state directory with the staged enrollment token, the client config the *)
(* hook caches, and the lock file that serialises the two.                 *)
(*                                                                         *)
(* The lock is a flock on a descriptor, so it belongs to the inode that    *)
(* was opened.  Removing the state directory unlinks that inode; whoever   *)
(* opens the path next creates and locks another one.                      *)
(***************************************************************************)
EXTENDS Deployment, Faults

VARIABLES files,          \* files[n][c]: what is on node n's disk for claim c
          fd              \* fd[p]: the lock file process p has open, or None

cdiVars == <<files, fd>>

Processes == Nodes \cup Hooks

NoFiles == [dir |-> FALSE, spec |-> FALSE, token |-> None,
            config |-> None, lock |-> None]

Files == [dir : BOOLEAN, spec : BOOLEAN, token : Tokens \cup {None},
          config : Tokens \cup {None}, lock : Inodes \cup {None}]

Descriptor == [node : Nodes, claim : Claims, ino : Inodes, held : BOOLEAN]

ASSUME DescriptorAssumption == None \notin Descriptor

CDITypeOK ==
    /\ files \in [Nodes -> [Claims -> Files]]
    /\ fd \in [Processes -> Descriptor \cup {None}]

CDIInit ==
    /\ files = [n \in Nodes |-> [c \in Claims |-> NoFiles]]
    /\ fd = [p \in Processes |-> None]

\* os.RemoveAll of the state directory; the spec lives elsewhere.
RemoveStateDir(f) == [NoFiles EXCEPT !.spec = f.spec]

(***************************************************************************)
(* lockStateDir: create the directory if need be and open its lock file;   *)
(* then lockFile waits until no other descriptor of that inode is locked.  *)
(***************************************************************************)
Opened(n, c) == {fd[p].ino : p \in {q \in Processes :
                    fd[q] # None /\ fd[q].node = n /\ fd[q].claim = c}}

OpenLock(p, n, c) ==
    \E i \in Inodes :
        /\ IF files[n][c].lock # None
           THEN i = files[n][c].lock
           ELSE /\ i \notin Opened(n, c)
                /\ \A j \in Inodes \ Opened(n, c) : i <= j
        /\ files' = [files EXCEPT ![n][c] = [@ EXCEPT !.dir = TRUE, !.lock = i]]
        /\ fd' = [fd EXCEPT ![p] = [node |-> n, claim |-> c,
                                    ino |-> i, held |-> FALSE]]

LockFree(p) ==
    \A q \in Processes \ {p} :
        fd[q] # None => ~ /\ fd[q].held
                          /\ fd[q].node = fd[p].node
                          /\ fd[q].claim = fd[p].claim
                          /\ fd[q].ino = fd[p].ino

Flock(p) ==
    /\ LockFree(p)
    /\ fd' = [fd EXCEPT ![p] = [@ EXCEPT !.held = TRUE]]

Close(p) == fd' = [fd EXCEPT ![p] = None]

(***************************************************************************)
(* Create: stage the token, then publish the spec.  It takes no lock and   *)
(* leaves a config that is already cached.  On a failure the state         *)
(* directory goes, unless making it was what failed.                       *)
(***************************************************************************)
CDICreate(n, c, t, ok, fail) ==
    \/ /\ files' = [files EXCEPT ![n][c] =
                       [@ EXCEPT !.dir = TRUE, !.spec = TRUE, !.token = t]]
       /\ ok /\ UNCHANGED <<fd, faults>>
    \/ /\ Fault("error")
       /\ \E f \in {files[n][c], RemoveStateDir(files[n][c])} :
             files' = [files EXCEPT ![n][c] = f]
       /\ fail /\ UNCHANGED fd

(***************************************************************************)
(* StagedClientID: the client the cached config names.  Any failure to     *)
(* read it is reported as None, the same as no config.                     *)
(***************************************************************************)
StagedClientID(n, c, id) ==
    \/ id = files[n][c].config /\ UNCHANGED faults
    \/ id = None /\ files[n][c].config # None /\ Fault("configError")

(***************************************************************************)
(* Remove, in two steps: open the lock file (a failure is ignored and      *)
(* Remove goes on without the lock), then, once the lock is granted,       *)
(* remove the spec and the state directory and release the lock.           *)
(***************************************************************************)
CDIRemoveLock(n, c) ==
    \/ OpenLock(n, n, c) /\ UNCHANGED faults
    \/ Fault("error") /\ UNCHANGED cdiVars

CDIRemove(n, c, ok, fail) ==
    /\ fd[n] # None => LockFree(n)
    /\ Close(n)
    /\ \/ files' = [files EXCEPT ![n][c] = NoFiles] /\ ok /\ UNCHANGED faults
       \/ /\ Fault("error")
          /\ \E s \in {files[n][c].spec, FALSE} :
                files' = [files EXCEPT ![n][c] = [@ EXCEPT !.spec = s]]
          /\ fail
===============================================================================
