---------------------------- MODULE BootPipeline ----------------------------
(***************************************************************************)
(* How an engine process comes up: the schema gate, the boot-mode chains,  *)
(* the key-permission gate, the restored halt and the recovery pipeline    *)
(* that finally opens the orchestrator.  The two chains are hash-linked    *)
(* tables: one row per boot and per change of exchange environment, and a  *)
(* rotation row that witnesses each change.  Engines may cold-start at the *)
(* same time, crash inside the boot transaction, and find a damaged row.   *)
(* A row's HMAC is modelled by the payload it signs: two are equal exactly *)
(* when chain, sub-key and payload are.                                    *)
(***************************************************************************)
EXTENDS Naturals, Sequences, FiniteSets, SequencesExt

CONSTANTS Engines,      \* processes that may be started
          MaxBoots,     \* bound: process starts
          MaxDamage,    \* bound: rows damaged outside the engine
          None

VARIABLES history, rotations,   \* the committed chains
          nextSeq,              \* the BIGSERIAL both tables draw from: never rolled back
          lock,                 \* holder of the boot advisory lock
          proc, boots, damage

vars == <<history, rotations, nextSeq, lock, proc, boots, damage>>

ConstantsOK == MaxBoots \in Nat /\ MaxDamage \in Nat /\ None \notin Engines

Envs == {"testnet", "paper", "live"}
NoTx == [hist |-> <<>>, rot |-> <<>>]
Down == [pc |-> "down", env |-> "testnet", token |-> FALSE, goAhead |-> FALSE, tx |-> NoTx]

Init ==
    /\ history = <<>> /\ rotations = <<>> /\ nextSeq = 1 /\ lock = None
    /\ proc = [e \in Engines |-> Down] /\ boots = 0 /\ damage = 0

-----------------------------------------------------------------------------
(* Rows and their signatures.                                              *)

Mac(chain, payload) == <<chain, payload>>

EncodeHistory(seq, kind, env, from, prev) ==
    Mac("boot_mode_history", <<seq, kind, env, from, prev>>)

EncodeRotation(seq, from, to, pre, token, prev) ==
    Mac("boot_mode_chain_rotations", <<seq, from, to, pre, token, prev>>)

HistoryRow(seq, kind, env, from, prev) ==
    [seq |-> seq, kind |-> kind, env |-> env, from |-> from, prev |-> prev,
     mac |-> EncodeHistory(seq, kind, env, from, prev)]

RotationRow(seq, from, to, pre, token, prev) ==
    [seq |-> seq, from |-> from, to |-> to, pre |-> pre, token |-> token, prev |-> prev,
     mac |-> EncodeRotation(seq, from, to, pre, token, prev)]

TipMac(rows) == IF rows = <<>> THEN None ELSE Last(rows).mac

\* Each row names the HMAC before it.
Linked(rows) == \A i \in DOMAIN rows : rows[i].prev = TipMac(SubSeq(rows, 1, i - 1))

VerifyChainMutant(rows) == Linked(rows)
VerifyChain(rows) ==
    /\ Linked(rows)
    /\ \A i \in DOMAIN rows :
          LET r == rows[i] IN r.mac = EncodeHistory(r.seq, r.kind, r.env, r.from, r.prev)

VerifyRotations(rows) ==
    /\ Linked(rows)
    /\ \A i \in DOMAIN rows :
          LET r == rows[i] IN r.mac = EncodeRotation(r.seq, r.from, r.to, r.pre, r.token, r.prev)

Sound == VerifyChain(history) /\ VerifyRotations(rotations)

-----------------------------------------------------------------------------
(* The process.                                                            *)

Goes(e, pc) == proc' = [proc EXCEPT ![e].pc = pc]

LeavesLock(e) == IF lock = e THEN None ELSE lock

\* process.exit, an unhandled rejection of bootstrap(), or a crash: the connection drops,
\* its transaction is rolled back and the advisory lock with it.
Exits(e) == proc' = [proc EXCEPT ![e] = Down]

Start(e, env, token, goAhead) ==
    /\ proc[e].pc = "down" /\ boots < MaxBoots /\ boots' = boots + 1
    /\ proc' = [proc EXCEPT ![e] = [pc |-> "schema", env |-> env, token |-> token,
                                    goAhead |-> goAhead, tx |-> NoTx]]
    /\ UNCHANGED <<history, rotations, nextSeq, lock, damage>>

\* A missing table or column: alerted, then process.exit.
SchemaRefused(e) == Exits(e)

\* collectHardFailures found every table and column, or failHard ends the process.
SchemaGate(e) ==
    /\ proc[e].pc = "schema" /\ (Goes(e, "chain") \/ SchemaRefused(e))
    /\ UNCHANGED <<history, rotations, nextSeq, lock, boots, damage>>

LockFreeMutant == TRUE
LockFree == lock = None

AcquireBootAdvisoryLock(e) ==
    /\ proc[e].pc = "chain" /\ LockFree /\ lock' = e /\ Goes(e, "verify")
    /\ UNCHANGED <<history, rotations, nextSeq, boots, damage>>

AbortSecurityCritical(e) ==
    /\ Exits(e) /\ lock' = LeavesLock(e)
    /\ UNCHANGED <<history, rotations, nextSeq, boots, damage>>

\* The one-way arrows that are wired.
AuthorizedMutant(from, to) == from # to
Authorized(from, to) == <<from, to>> \in {<<"testnet", "paper">>, <<"paper", "live">>}

TokenVerifies(e) == proc[e].token

SameMode(e) == history = <<>> \/ Last(history).env = proc[e].env

\* Both walks, then the tip.  A mismatch needs a wired arrow and its token before any
\* row is written.
ReadTip(e) ==
    /\ proc[e].pc = "verify"
    /\ IF ~Sound THEN AbortSecurityCritical(e)
       ELSE IF SameMode(e) THEN Goes(e, "boot") /\ UNCHANGED <<history, rotations, nextSeq, lock, boots, damage>>
       ELSE IF Authorized(Last(history).env, proc[e].env) /\ TokenVerifies(e)
       THEN Goes(e, "transition") /\ UNCHANGED <<history, rotations, nextSeq, lock, boots, damage>>
       ELSE AbortSecurityCritical(e)

\* appendInTransaction: a placeholder is inserted, the sequence number it returns is
\* signed, and the HMAC written back.  The row stays in the transaction.
AppendHistory(e, kind, from, pc) ==
    LET tip == TipMac(history \o proc[e].tx.hist)
        row == HistoryRow(nextSeq, kind, proc[e].env, from, tip) IN
    /\ proc' = [proc EXCEPT ![e].tx.hist = Append(@, row), ![e].pc = pc]
    /\ nextSeq' = nextSeq + 1

AppendTransition(e) ==
    /\ proc[e].pc = "transition" /\ AppendHistory(e, "transition", Last(history).env, "boot")
    /\ UNCHANGED <<history, rotations, lock, boots, damage>>

AppendBoot(e) ==
    /\ proc[e].pc = "boot"
    /\ AppendHistory(e, "boot", None, IF proc[e].tx.hist = <<>> THEN "commit" ELSE "rotation")
    /\ UNCHANGED <<history, rotations, lock, boots, damage>>

\* preTipHash is the tip the transition left behind.
PreTipMutant(e) == TipMac(history \o proc[e].tx.hist)
PreTip(e) == TipMac(history)

AppendRotation(e) ==
    LET from == Last(history).env
        row  == RotationRow(nextSeq, from, proc[e].env, PreTip(e), TRUE, TipMac(rotations)) IN
    /\ proc[e].pc = "rotation" /\ nextSeq' = nextSeq + 1
    /\ proc' = [proc EXCEPT ![e].tx.rot = <<row>>, ![e].pc = "commit"]
    /\ UNCHANGED <<history, rotations, lock, boots, damage>>

Commit(e) ==
    /\ proc[e].pc = "commit"
    /\ history' = history \o proc[e].tx.hist /\ rotations' = rotations \o proc[e].tx.rot
    /\ proc' = [proc EXCEPT ![e].tx = NoTx, ![e].pc = "permissions"] /\ lock' = LeavesLock(e)
    /\ UNCHANGED <<nextSeq, boots, damage>>

GoAheadVerifies(e) == proc[e].env = "live" => proc[e].goAhead

\* The LIVE go-ahead token is verified here, after the chain has recorded the boot.
\* TESTNET is exempt from the exchange's key-permission answer; the others must have it,
\* and have it acceptable.
KeyPermissions(e) ==
    /\ proc[e].pc = "permissions"
    /\ \/ GoAheadVerifies(e) /\ Goes(e, "restore")
       \/ GoAheadVerifies(e) /\ proc[e].env # "testnet" /\ Exits(e)
       \/ ~GoAheadVerifies(e) /\ Exits(e)
    /\ UNCHANGED <<history, rotations, nextSeq, lock, boots, damage>>

\* The halt is read back from the audit and the day's row (HaltControl); a failed read
\* rejects the bootstrap.
RestoreHalt(e) ==
    /\ proc[e].pc = "restore" /\ (Goes(e, "pipeline") \/ Exits(e))
    /\ UNCHANGED <<history, rotations, nextSeq, lock, boots, damage>>

\* Phases 1 to 9.  A phase that throws is logged: the process stays up and the
\* orchestrator stays closed.
RunPipeline(e) ==
    /\ proc[e].pc = "pipeline" /\ (Goes(e, "open") \/ Goes(e, "closed"))
    /\ UNCHANGED <<history, rotations, nextSeq, lock, boots, damage>>

CrashLockMutant(e) == lock
CrashLock(e) == LeavesLock(e)

Crash(e) ==
    /\ proc[e].pc # "down" /\ boots < MaxBoots /\ Exits(e) /\ lock' = CrashLock(e)
    /\ UNCHANGED <<history, rotations, nextSeq, boots, damage>>

\* A committed row is altered outside the engine, between two boot transactions.
Damage(i, env) ==
    /\ lock = None /\ damage < MaxDamage /\ damage' = damage + 1
    /\ history[i].env # env /\ history' = [history EXCEPT ![i].env = env]
    /\ UNCHANGED <<rotations, nextSeq, lock, proc, boots>>

BootStep(e) ==
    \/ SchemaGate(e) \/ AcquireBootAdvisoryLock(e) \/ ReadTip(e) \/ AppendTransition(e)
    \/ AppendBoot(e) \/ AppendRotation(e) \/ Commit(e) \/ KeyPermissions(e)
    \/ RestoreHalt(e) \/ RunPipeline(e)

Next ==
    \/ \E e \in Engines :
          \/ \E env \in Envs, token, goAhead \in BOOLEAN : Start(e, env, token, goAhead)
          \/ BootStep(e) \/ Crash(e)
    \/ \E i \in DOMAIN history, env \in Envs : Damage(i, env)

\* A started process runs its hooks to the end.
Spec == Init /\ [][Next]_vars /\ \A e \in Engines : WF_vars(BootStep(e))

-----------------------------------------------------------------------------
(* Properties.                                                             *)

TypeOK ==
    /\ nextSeq \in Nat /\ lock \in Engines \cup {None} /\ damage \in 0..MaxDamage
    /\ \A e \in Engines : proc[e].env \in Envs
    /\ Len(history) + Len(rotations) < nextSeq

\* Engines that cold-start together, and boots that crash before their commit, leave two
\* chains the next boot can verify: no fork, no unsigned placeholder, although sequence
\* numbers are lost (runBootSequence, under pg_advisory_xact_lock).
ChainsVerify == damage = 0 => Sound

\* Every change of environment in the history is a transition row followed by its boot
\* row, and is witnessed by exactly one rotation row that names the tip it left: the
\* three rows of handleModeMismatch stand or fall together.
TransitionsWitnessed ==
    damage = 0 =>
    /\ \A i \in 2..Len(history) :
          LET r == history[i] IN
          r.env # history[i - 1].env =>
             /\ r.kind = "transition" /\ r.from = history[i - 1].env
             /\ i < Len(history) /\ history[i + 1].kind = "boot" /\ history[i + 1].env = r.env
             /\ Cardinality({k \in DOMAIN rotations :
                                /\ rotations[k].pre = history[i - 1].mac
                                /\ rotations[k].to = r.env}) = 1
    /\ Len(rotations) = Cardinality({i \in DOMAIN history : history[i].kind = "transition"})

LeavesDamaged == damage = 1 => Len(history') = Len(history) /\ rotations' = rotations

\* Nothing is appended to a chain that does not verify (abortSecurityCritical before any
\* append): a damaged history stays as it was found.
DamageIsFinal == [][LeavesDamaged]_vars

\* An engine reaches LIVE on a chain that began elsewhere only by passing through PAPER.
LiveCameThroughPaper ==
    damage = 0 =>
    \A i \in DOMAIN history :
       history[i].env = "live" /\ history[1].env # "live" =>
          \E j \in 1..i : history[j].env = "paper"

Booting(e) == proc[e].pc = "chain"
Booted(e) == proc[e].pc \in {"open", "closed", "down"}

\* A started process ends open, closed or down: nobody waits for the boot lock for ever,
\* even when its holder crashes inside the transaction.
BootSettles == \A e \in Engines : Booting(e) ~> Booted(e)
=============================================================================
