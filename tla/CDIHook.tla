------------------------------- MODULE CDIHook --------------------------------
(***************************************************************************)
(* The CDI hook (internal/daemon/cdihook.go, clientconfig.go): run by the  *)
(* container runtime for every container created on a claim.  Under the    *)
(* claim's stage lock it reuses the cached client config, or spends the    *)
(* staged enrollment token once and caches the client it gets for it.      *)
(***************************************************************************)
EXTENDS ThunderAPI, CDIDeviceStore

CONSTANT ExchangeAttempts \* exchangeAttempts: tries per hook run

ASSUME HookAssumption == ExchangeAttempts \in Nat \ {0}

VARIABLE hook             \* hook[h]: what hook process h is doing

HookPCs == {"off", "wait", "config", "exchange", "cache"}

Off == [pc |-> "off", node |-> None, claim |-> None, tok |-> None, tries |-> 0]

HookProcess == [pc : HookPCs, node : Nodes \cup {None}, claim : Claims \cup {None},
                tok : Tokens \cup {None}, tries : 0 .. (ExchangeAttempts - 1)]

\* A running hook works on a claim of a node and has its lock file open.
HookTypeOK ==
    /\ hook \in [Hooks -> HookProcess]
    /\ \A h \in Hooks :
          /\ hook[h].pc # "off" =>
                hook[h].node # None /\ hook[h].claim # None /\ fd[h] # None
          /\ hook[h].pc \in {"exchange", "cache"} => hook[h].tok # None

HookInit == hook = [h \in Hooks |-> Off]

\* Hook processes at work on claim c of node n.
Staging(n, c) == {h \in Hooks : hook[h].node = n /\ hook[h].claim = c}

\* The hook ends, with the container started or failed; its lock is released.
Exit(h) ==
    /\ hook' = [hook EXCEPT ![h] = Off]
    /\ Close(h)

\* RunCDIHook up to the wait for the lock.  The runtime runs it because the
\* claim's CDI spec says so.
HookStart(h, n, c) ==
    /\ hook[h].pc = "off"
    /\ files[n][c].spec
    /\ hook' = [hook EXCEPT ![h] = [pc |-> "wait", node |-> n, claim |-> c,
                                    tok |-> None, tries |-> 0]]
    /\ OpenLock(h, n, c)
    /\ UNCHANGED <<thunderVars, faults>>

\* Mutant: goes on without waiting for the lock.
HookLockNoWait(h) ==
    /\ hook[h].pc = "wait"
    /\ fd' = [fd EXCEPT ![h] = [@ EXCEPT !.held = TRUE]]
    /\ hook' = [hook EXCEPT ![h] = [@ EXCEPT !.pc = "config"]]
    /\ UNCHANGED <<thunderVars, files, faults>>

HookLock(h) ==
    /\ hook[h].pc = "wait"
    /\ Flock(h)
    /\ hook' = [hook EXCEPT ![h] = [@ EXCEPT !.pc = "config"]]
    /\ UNCHANGED <<thunderVars, files, faults>>

\* Ensure the library, then clientConfigForClaim: a cached config is staged
\* as it is; without one that can be read, the token is tried, and no token file
\* fails the container.
HookConfig(h) ==
    /\ hook[h].pc = "config"
    /\ LET f == files[hook[h].node][hook[h].claim]
       IN \/ /\ f.config # None \/ f.token = None
             /\ Exit(h) /\ UNCHANGED faults
          \/ /\ f.token # None
             /\ \/ f.config = None /\ UNCHANGED faults
                \/ f.config # None /\ Fault("configError")
             /\ hook' = [hook EXCEPT ![h] = [@ EXCEPT !.pc = "exchange", !.tok = f.token]]
             /\ UNCHANGED fd
          \/ Fault("error") /\ Exit(h)
    /\ UNCHANGED <<thunderVars, files>>

\* Mutant: one attempt too many.
RetryOnceMore(h) ==
    \/ /\ hook[h].tries + 1 <= ExchangeAttempts
       /\ hook' = [hook EXCEPT ![h] = [@ EXCEPT !.tries = hook[h].tries + 1]]
       /\ UNCHANGED fd
    \/ Exit(h)

\* exchangeWithRetry: a rejection ends the hook; a lost request or a lost
\* answer is tried again while attempts and the deadline allow.
Retry(h) ==
    \/ /\ hook[h].tries + 1 < ExchangeAttempts
       /\ hook' = [hook EXCEPT ![h] = [@ EXCEPT !.tries = hook[h].tries + 1]]
       /\ UNCHANGED fd
    \/ Exit(h)

HookExchange(h) ==
    /\ hook[h].pc = "exchange"
    /\ LET t == hook[h].tok
       IN \/ Remote(ExchangeToken(t), UNCHANGED thunderVars,
                    hook' = [hook EXCEPT ![h] = [@ EXCEPT !.pc = "cache"]] /\ UNCHANGED fd,
                    Retry(h))
          \/ token[t] # "unspent" /\ Exit(h) /\ UNCHANGED <<thunderVars, faults>>
    /\ UNCHANGED files

\* Mutant: drops the spent token although the config is not cached.
HookCacheTokenOnly(h) ==
    /\ hook[h].pc = "cache"
    /\ files' = [files EXCEPT ![hook[h].node][hook[h].claim] = [@ EXCEPT !.token = None]]
    /\ Exit(h)
    /\ UNCHANGED <<thunderVars, faults>>

\* Cache the config, then drop the spent token (a failure to is ignored), and
\* stage the client.  The write fails if the state directory has gone.
HookCache(h) ==
    /\ hook[h].pc = "cache"
    /\ LET n == hook[h].node
           c == hook[h].claim
       IN \/ /\ files[n][c].dir
             /\ \E left \in {None, files[n][c].token} :
                   files' = [files EXCEPT ![n][c] =
                               [@ EXCEPT !.config = hook[h].tok, !.token = left]]
             /\ UNCHANGED faults
          \/ /\ ~files[n][c].dir
             /\ UNCHANGED <<files, faults>>
          \/ Fault("configError") /\ UNCHANGED files
    /\ Exit(h)
    /\ UNCHANGED thunderVars

\* The runtime kills the hook at its timeout, or it dies.
HookCrash(h) ==
    /\ hook[h].pc # "off"
    /\ Fault("hookCrash")
    /\ Exit(h)
    /\ UNCHANGED <<thunderVars, files>>

HookStep(h) == HookLock(h) \/ HookConfig(h) \/ HookExchange(h) \/ HookCache(h)
===============================================================================
