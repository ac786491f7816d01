--------------------------- MODULE RecoveryProofs ---------------------------
(***************************************************************************)
(* What is proved of the components that put the engine right again, for   *)
(* every value of the bounds and sets MCRecovery declares: a behaviour is  *)
(* one component's, so each has an inductive invariant of its own, which   *)
(* holds while that component is the one that runs.                        *)
(***************************************************************************)
EXTENDS MCRecovery, Sequences, FiniteSets, FiniteSetTheorems, SequenceTheorems, TLAPS

-----------------------------------------------------------------------------
(* Sequences.                                                              *)

\* A sequence of whatever it holds: the rows of a chain contain each other's signatures, so no set
\* of rows is at hand to take it from.
ASeq(h) == h \in Seq({h[i] : i \in DOMAIN h})

LEMMA SeqBasics ==
    ASSUME NEW h, ASeq(h)
    PROVE  Len(h) \in Nat /\ DOMAIN h = 1..Len(h) /\ (h = <<>> <=> Len(h) = 0)
BY DEF ASeq

LEMMA SeqOf ==
    ASSUME NEW S, NEW h \in Seq(S)
    PROVE  ASeq(h)
BY DEF ASeq

LEMMA SeqJoin ==
    ASSUME NEW g, NEW h, ASeq(g), ASeq(h)
    PROVE  /\ ASeq(g \o h) /\ Len(g \o h) = Len(g) + Len(h)
           /\ \A i \in 1..Len(g) : (g \o h)[i] = g[i]
           /\ \A i \in 1..Len(h) : (g \o h)[Len(g) + i] = h[i]
<1> DEFINE S == {g[i] : i \in DOMAIN g} \cup {h[i] : i \in DOMAIN h}
<1>1. g \in Seq(S) /\ h \in Seq(S)
  BY DEF ASeq
<1>2. g \o h \in Seq(S)
  BY <1>1
<1> HIDE DEF S
<1>3. ASeq(g \o h)
  BY <1>2, SeqOf
<1> QED BY <1>1, <1>3

LEMMA SeqShort ==
    ASSUME NEW x, NEW y
    PROVE  /\ ASeq(<<>>) /\ Len(<<>>) = 0
           /\ ASeq(<<x>>) /\ Len(<<x>>) = 1 /\ <<x>>[1] = x
           /\ ASeq(<<x, y>>) /\ Len(<<x, y>>) = 2 /\ <<x, y>>[1] = x /\ <<x, y>>[2] = y
           /\ Append(<<>>, x) = <<x>> /\ Append(<<x>>, y) = <<x, y>>
<1>1. <<>> \in Seq({x, y}) /\ <<x>> \in Seq({x, y}) /\ <<x, y>> \in Seq({x, y})
  OBVIOUS
<1>2. ASeq(<<>>) /\ ASeq(<<x>>) /\ ASeq(<<x, y>>)
  BY <1>1, SeqOf
<1>3. Len(<<>>) = 0 /\ Len(<<x>>) = 1 /\ Len(<<x, y>>) = 2
  OBVIOUS
<1>4. <<x>>[1] = x /\ <<x, y>>[1] = x /\ <<x, y>>[2] = y
  OBVIOUS
<1>5. Append(<<>>, x) = <<x>>
  OBVIOUS
<1>6. Append(<<x>>, y) = <<x, y>>
  <2>1. Append(<<x>>, y) \in Seq({x, y}) /\ Len(Append(<<x>>, y)) = 2
    BY <1>1
  <2>2. Append(<<x>>, y)[1] = x /\ Append(<<x>>, y)[2] = y
    BY <1>1, <1>3, <1>4
  <2>3. \A i \in 1..2 : Append(<<x>>, y)[i] = <<x, y>>[i]
    BY <2>2, <1>4
  <2> QED BY <1>1, <1>3, <2>1, <2>3, SeqEqual
<1> QED BY <1>2, <1>3, <1>4, <1>5, <1>6

\* The tip of a chain, and what it is to be linked.
LEMMA TipIs ==
    ASSUME NEW h, ASeq(h)
    PROVE  BP!TipMac(h) = IF Len(h) = 0 THEN None ELSE h[Len(h)].mac
BY SeqBasics DEF BP!TipMac, BP!Last

LEMMA LinkedIs ==
    ASSUME NEW h, ASeq(h)
    PROVE  BP!Linked(h) <=> \A i \in 1..Len(h) : h[i].prev = IF i = 1 THEN None ELSE h[i - 1].mac
<1> DEFINE S == {h[i] : i \in DOMAIN h}
<1>1. h \in Seq(S) /\ Len(h) \in Nat /\ DOMAIN h = 1..Len(h)
  BY DEF ASeq
<1> HIDE DEF S
<1>2. ASSUME NEW i \in 1..Len(h)
      PROVE  BP!TipMac(SubSeq(h, 1, i - 1)) = IF i = 1 THEN None ELSE h[i - 1].mac
  <2>1. SubSeq(h, 1, i - 1) \in Seq(S) /\ Len(SubSeq(h, 1, i - 1)) = i - 1
    BY <1>1
  <2>2. i # 1 => SubSeq(h, 1, i - 1)[i - 1] = h[i - 1]
    BY <1>1
  <2>3. ASeq(SubSeq(h, 1, i - 1))
    BY <2>1, SeqOf
  <2>4. BP!TipMac(SubSeq(h, 1, i - 1)) = IF i - 1 = 0 THEN None ELSE SubSeq(h, 1, i - 1)[i - 1].mac
    BY <2>1, <2>3, TipIs
  <2> QED BY <2>2, <2>4
<1> QED BY <1>1, <1>2 DEF BP!Linked

-----------------------------------------------------------------------------
(* The boot.                                                               *)

\* Where a process is inside the boot transaction, under the advisory lock.
Held == {"verify", "transition", "boot", "rotation", "commit"}

Shaped ==
    /\ DOMAIN proc = Engines
    /\ \A e \in Engines :
          /\ DOMAIN proc[e] = {"pc", "env", "token", "goAhead", "tx"}
          /\ DOMAIN proc[e].tx = {"hist", "rot"} /\ proc[e].env \in BP!Envs

Locked == lock \in Engines \cup {None} /\ \A e \in Engines : proc[e].pc \in Held => lock = e

Counted ==
    /\ nextSeq \in Nat /\ damage \in 0..MaxDamage /\ Len(history) + Len(rotations) < nextSeq
    /\ \A e \in Engines :
          /\ Len(proc[e].tx.hist) \in Nat /\ Len(proc[e].tx.rot) \in Nat
          /\ Len(history) + Len(rotations) + Len(proc[e].tx.hist) + Len(proc[e].tx.rot) < nextSeq

\* Sequence numbers grow along the history, whatever was damaged since.
Numbered ==
    /\ ASeq(history) /\ ASeq(rotations)
    /\ \A i \in 1..Len(history) :
          /\ DOMAIN history[i] = {"seq", "kind", "env", "from", "prev", "mac"}
          /\ history[i].seq \in Nat /\ history[i].seq < nextSeq
    /\ \A i, j \in 1..Len(history) : i < j => history[i].seq < history[j].seq

Fresh(s) == s < nextSeq /\ \A i \in 1..Len(history) : history[i].seq < s

Same(e) == Len(history) > 0 => history[Len(history)].env = proc[e].env
Change(e) == Len(history) > 0 /\ BP!Authorized(history[Len(history)].env, proc[e].env)

TurnRow(e, s) == BP!HistoryRow(s, "transition", proc[e].env, history[Len(history)].env, BP!TipMac(history))
BootRow(e, s, prev) == BP!HistoryRow(s, "boot", proc[e].env, None, prev)
WitnessRow(e, s) ==
    BP!RotationRow(s, history[Len(history)].env, proc[e].env, BP!TipMac(history), TRUE, BP!TipMac(rotations))

TurnedOnly(e) == \E s \in Nat : Fresh(s) /\ proc[e].tx.hist = <<TurnRow(e, s)>>
BootedOnly(e) == \E s \in Nat : Fresh(s) /\ proc[e].tx.hist = <<BootRow(e, s, BP!TipMac(history))>>
TurnedAndBooted(e) ==
    \E s, u \in Nat :
        /\ Fresh(s) /\ Fresh(u) /\ s < u
        /\ proc[e].tx.hist = <<TurnRow(e, s), BootRow(e, u, TurnRow(e, s).mac)>>

\* What a process has in its transaction, at each of its steps.
Pending(e) ==
    /\ proc[e].pc \notin {"boot", "rotation", "commit"} => proc[e].tx.hist = <<>>
    /\ proc[e].pc # "commit" => proc[e].tx.rot = <<>>
    /\ proc[e].pc = "transition" => Change(e)
    /\ proc[e].pc = "boot" =>
          \/ Same(e) /\ proc[e].tx.hist = <<>>
          \/ Change(e) /\ TurnedOnly(e)
    /\ proc[e].pc = "rotation" => Change(e) /\ TurnedAndBooted(e)
    /\ proc[e].pc = "commit" =>
          \/ Same(e) /\ BootedOnly(e) /\ proc[e].tx.rot = <<>>
          \/ Change(e) /\ TurnedAndBooted(e) /\ \E s \in Nat : proc[e].tx.rot = <<WitnessRow(e, s)>>

\* Changes of environment and the rotation rows that witness them.
Turned ==
    \A i \in 2..Len(history) :
        history[i].env # history[i - 1].env =>
            /\ history[i].kind = "transition" /\ history[i].from = history[i - 1].env
            /\ i < Len(history) /\ history[i + 1].kind = "boot" /\ history[i + 1].env = history[i].env
            /\ \E k \in 1..Len(rotations) : rotations[k].pre = history[i - 1].mac /\ rotations[k].to = history[i].env

Witnessed ==
    /\ \A k \in 1..Len(rotations) : \E j \in 1..(Len(history) - 1) : rotations[k].pre = history[j].mac
    /\ \A k, l \in 1..Len(rotations) : rotations[k].pre = rotations[l].pre => k = l

Transitions(h) == {i \in 1..Len(h) : h[i].kind = "transition"}

Chain ==
    /\ BP!Sound /\ Turned /\ Witnessed /\ Len(rotations) = Cardinality(Transitions(history))
    /\ \A i \in 1..Len(history) :
          (history[i].env = "live" /\ history[1].env # "live") => \E j \in 1..i : history[j].env = "paper"

Unsigned(r) == r.mac # BP!EncodeHistory(r.seq, r.kind, r.env, r.from, r.prev)

\* A damaged row no longer carries the signature of what it says, and nobody has got past the walk.
Tampered ==
    /\ \E i \in 1..Len(history) : Unsigned(history[i])
    /\ \A e \in Engines : proc[e].pc \notin Held \ {"verify"}

BootInv ==
    /\ Shaped /\ Locked /\ Counted /\ Numbered /\ (\A e \in Engines : Pending(e))
    /\ damage = 0 => Chain
    /\ damage = 1 => Tampered

LEMMA BootInitially == BP!Init => BootInv
<1> SUFFICES ASSUME BP!Init PROVE BootInv
  OBVIOUS
<1>0. ASeq(<<>>) /\ Len(<<>>) = 0
  BY SeqShort
<1>1. /\ history = <<>> /\ rotations = <<>> /\ nextSeq = 1 /\ lock = None /\ damage = 0
      /\ ASeq(<<>>) /\ Len(<<>>) = 0 /\ 1..Len(<<>>) = {}
  BY <1>0 DEF BP!Init
<1>2. DOMAIN proc = Engines /\ \A e \in Engines : proc[e] = BP!Down
  BY DEF BP!Init
<1>3. Shaped /\ Locked
  BY <1>1, <1>2 DEF Shaped, Locked, Held, BP!Down, BP!NoTx, BP!Envs
<1>4. Counted
  <2>1. \A e \in Engines : proc[e].tx.hist = <<>> /\ proc[e].tx.rot = <<>>
    BY <1>2 DEF BP!Down, BP!NoTx
  <2>2. damage \in 0..MaxDamage
    BY <1>1, BootAssumption DEF BP!ConstantsOK
  <2>3. \A e \in Engines : Len(proc[e].tx.hist) = 0 /\ Len(proc[e].tx.rot) = 0
    BY <1>1, <2>1
  <2>4. Len(history) = 0 /\ Len(rotations) = 0 /\ nextSeq = 1
    BY <1>1
  <2>5. Len(history) + Len(rotations) = 0 /\ 0 < nextSeq /\ nextSeq \in Nat
    BY <2>4
  <2>6. ASSUME NEW e \in Engines
        PROVE  /\ Len(proc[e].tx.hist) \in Nat /\ Len(proc[e].tx.rot) \in Nat
               /\ Len(history) + Len(rotations) + Len(proc[e].tx.hist) + Len(proc[e].tx.rot) < nextSeq
    <3>1. ASSUME NEW a \in Nat, NEW b \in Nat, NEW c \in Nat, NEW d \in Nat, a = 0, b = 0, c = 0, d = 0
          PROVE  a + b + c + d < 1
      BY <3>1
    <3>2. Len(proc[e].tx.hist) = 0 /\ Len(proc[e].tx.rot) = 0
      BY <2>3
    <3>3. Len(proc[e].tx.hist) \in Nat /\ Len(proc[e].tx.rot) \in Nat /\ Len(history) \in Nat /\ Len(rotations) \in Nat
      BY <3>2, <2>4
    <3>4. Len(history) + Len(rotations) + Len(proc[e].tx.hist) + Len(proc[e].tx.rot) < 1
      BY <2>4, <3>1, <3>2, <3>3
    <3> QED BY <2>4, <3>3, <3>4
  <2> QED BY <2>2, <2>5, <2>6 DEF Counted
<1>5. Numbered
  BY <1>1 DEF Numbered
<1>6. ASSUME NEW e \in Engines PROVE Pending(e)
  BY <1>2 DEF Pending, BP!Down, BP!NoTx
<1>7. Chain
  <2>1. BP!Sound
    BY <1>1 DEF BP!Sound, BP!VerifyChain, BP!VerifyRotations, BP!Linked
  <2>2. Turned /\ Witnessed
    BY <1>1 DEF Turned, Witnessed
  <2>3. Transitions(history) = {} /\ Cardinality({}) = 0
    BY <1>1, FS_EmptySet DEF Transitions
  <2> QED BY <1>1, <2>1, <2>2, <2>3 DEF Chain
<1> QED BY <1>1, <1>3, <1>4, <1>5, <1>6, <1>7 DEF BootInv

\* A step of one process that leaves the chains alone.
LEMMA BootMoves ==
    ASSUME BootInv, NEW e \in Engines,
           UNCHANGED <<history, rotations, damage>>, nextSeq' \in Nat, nextSeq' >= nextSeq,
           Shaped', lock' \in Engines \cup {None}, Locked',
           \A f \in Engines \ {e} : proc'[f] = proc[f],
           Pending(e)',
           Len(proc'[e].tx.hist) \in Nat, Len(proc'[e].tx.rot) \in Nat,
           Len(history) + Len(rotations) + Len(proc'[e].tx.hist) + Len(proc'[e].tx.rot) < nextSeq',
           damage = 1 => proc'[e].pc \notin Held \ {"verify"}
    PROVE  BootInv'
<1>0. Len(history) \in Nat /\ Len(rotations) \in Nat /\ nextSeq \in Nat
  BY SeqBasics DEF BootInv, Numbered, Counted
<1>1. Counted'
  <2>1. ASSUME NEW f \in Engines
        PROVE  /\ Len(proc'[f].tx.hist) \in Nat /\ Len(proc'[f].tx.rot) \in Nat
               /\ Len(history) + Len(rotations) + Len(proc'[f].tx.hist) + Len(proc'[f].tx.rot) < nextSeq'
    <3>1. CASE f = e
      BY <3>1
    <3>2. CASE f # e
      <4>1. proc'[f] = proc[f]
        BY <3>2
      <4>2. /\ Len(proc[f].tx.hist) \in Nat /\ Len(proc[f].tx.rot) \in Nat
            /\ Len(history) + Len(rotations) + Len(proc[f].tx.hist) + Len(proc[f].tx.rot) < nextSeq
        BY DEF BootInv, Counted
      <4>3. ASSUME NEW a \in Nat, NEW b \in Nat, Len(history) + Len(rotations) + a + b < nextSeq
            PROVE  Len(history) + Len(rotations) + a + b < nextSeq'
        BY <1>0, <4>3
      <4> QED BY <4>1, <4>2, <4>3
    <3> QED BY <3>1, <3>2
  <2>2. Len(history) + Len(rotations) < nextSeq' /\ damage' \in 0..MaxDamage
    BY <1>0 DEF BootInv, Counted
  <2> QED BY <2>1, <2>2 DEF Counted
<1>2. Numbered'
  BY <1>0 DEF BootInv, Numbered
<1>3. ASSUME NEW f \in Engines PROVE Pending(f)'
  <2>1. CASE f = e
    BY <2>1
  <2>2. CASE f # e
    <3>1. proc'[f] = proc[f] /\ Pending(f)
      BY <2>2 DEF BootInv
    <3>2. \A s \in Nat : Fresh(s) => Fresh(s)'
      BY <1>0 DEF Fresh
    <3>3. Same(f)' = Same(f) /\ Change(f)' = Change(f)
      BY <3>1 DEF Same, Change, BP!Authorized
    <3>4. \A s : TurnRow(f, s)' = TurnRow(f, s) /\ WitnessRow(f, s)' = WitnessRow(f, s)
      BY <3>1 DEF TurnRow, WitnessRow, BP!HistoryRow, BP!RotationRow, BP!TipMac
    <3>5. \A s, p : BootRow(f, s, p)' = BootRow(f, s, p)
      BY <3>1 DEF BootRow, BP!HistoryRow
    <3>6. TurnedOnly(f) => TurnedOnly(f)'
      BY <3>1, <3>2, <3>4 DEF TurnedOnly
    <3>7. BootedOnly(f) => BootedOnly(f)'
      BY <3>1, <3>2, <3>5 DEF BootedOnly
    <3>8. TurnedAndBooted(f) => TurnedAndBooted(f)'
      BY <3>1, <3>2, <3>4, <3>5 DEF TurnedAndBooted
    <3>9. (\E s \in Nat : proc[f].tx.rot = <<WitnessRow(f, s)>>) => \E s \in Nat : proc'[f].tx.rot = <<WitnessRow(f, s)'>>
      BY <3>1, <3>4
    <3> QED BY <3>1, <3>3, <3>6, <3>7, <3>8, <3>9 DEF Pending
  <2> QED BY <2>1, <2>2
<1>4. damage' = 0 => Chain'
  BY DEF BootInv, Chain, BP!Sound, Turned, Witnessed, Transitions
<1>5. damage' = 1 => Tampered'
  BY DEF BootInv, Tampered, Unsigned
<1> QED BY <1>1, <1>2, <1>3, <1>4, <1>5 DEF BootInv

LEMMA BootGoes ==
    ASSUME Shaped, NEW e \in Engines, NEW p, BP!Goes(e, p)
    PROVE  /\ Shaped' /\ proc'[e].pc = p /\ proc'[e].env = proc[e].env /\ proc'[e].tx = proc[e].tx
           /\ \A f \in Engines \ {e} : proc'[f] = proc[f]
BY DEF BP!Goes, Shaped

LEMMA BootEnds ==
    ASSUME Shaped, NEW e \in Engines, BP!Exits(e)
    PROVE  /\ Shaped' /\ proc'[e] = BP!Down /\ \A f \in Engines \ {e} : proc'[f] = proc[f]
BY DEF BP!Exits, Shaped, BP!Down, BP!NoTx, BP!Envs

\* A process that goes on with nothing in its transaction.
LEMMA BootPasses ==
    ASSUME BootInv, NEW e \in Engines, NEW p, BP!Goes(e, p),
           UNCHANGED <<history, rotations, nextSeq, damage>>,
           proc[e].pc \notin {"boot", "rotation", "commit"}, p \notin {"transition", "boot", "rotation", "commit"},
           \/ p # "verify" /\ lock' = lock
           \/ p = "verify" /\ lock = None /\ lock' = e
    PROVE  BootInv'
<1>1. /\ Shaped' /\ proc'[e].pc = p /\ proc'[e].env = proc[e].env /\ proc'[e].tx = proc[e].tx
      /\ \A f \in Engines \ {e} : proc'[f] = proc[f]
  BY BootGoes DEF BootInv
<1>2. Locked'
  <2>1. lock' \in Engines \cup {None}
    BY DEF BootInv, Locked
  <2>2. ASSUME NEW f \in Engines, proc'[f].pc \in Held PROVE lock' = f
    <3>1. CASE f = e
      BY <1>1, <2>2, <3>1 DEF Held
    <3>2. CASE f # e
      <4>1. proc'[f] = proc[f]
        BY <1>1, <3>2
      <4>2. lock = f
        BY <2>2, <4>1 DEF BootInv, Locked
      <4> QED BY <4>2, BootAssumption DEF BP!ConstantsOK
    <3> QED BY <3>1, <3>2
  <2> QED BY <2>1, <2>2 DEF Locked
<1>3. proc'[e].tx.hist = <<>> /\ proc'[e].tx.rot = <<>>
  BY <1>1 DEF BootInv, Pending
<1>4. Pending(e)'
  BY <1>1, <1>3 DEF Pending
<1>5. /\ Len(proc'[e].tx.hist) \in Nat /\ Len(proc'[e].tx.rot) \in Nat
      /\ Len(history) + Len(rotations) + Len(proc'[e].tx.hist) + Len(proc'[e].tx.rot) < nextSeq
  BY <1>1 DEF BootInv, Counted
<1>6. nextSeq' \in Nat /\ nextSeq' >= nextSeq
  BY DEF BootInv, Counted
<1> QED BY <1>1, <1>2, <1>4, <1>5, <1>6, BootMoves DEF Locked, Held

\* A process that dies: its transaction and its lock go with it.
LEMMA BootDies ==
    ASSUME BootInv, NEW e \in Engines, BP!Exits(e),
           UNCHANGED <<history, rotations, nextSeq, damage>>,
           \/ lock' = BP!LeavesLock(e)
           \/ lock' = lock
    PROVE  BootInv'
<1>1. /\ Shaped' /\ proc'[e] = BP!Down /\ \A f \in Engines \ {e} : proc'[f] = proc[f]
  BY BootEnds DEF BootInv
<1>2. Locked'
  <2>1. lock' \in Engines \cup {None}
    BY DEF BootInv, Locked, BP!LeavesLock
  <2>2. ASSUME NEW f \in Engines, proc'[f].pc \in Held PROVE lock' = f
    <3>1. f # e
      BY <1>1, <2>2 DEF BP!Down, Held
    <3>2. lock = f
      BY <1>1, <2>2, <3>1 DEF BootInv, Locked
    <3> QED BY <3>1, <3>2 DEF BP!LeavesLock
  <2> QED BY <2>1, <2>2 DEF Locked
<1>3. proc'[e].pc = "down" /\ proc'[e].tx.hist = <<>> /\ proc'[e].tx.rot = <<>>
  BY <1>1 DEF BP!Down, BP!NoTx
<1>4. Pending(e)'
  BY <1>3 DEF Pending
<1>5. Len(proc'[e].tx.hist) = 0 /\ Len(proc'[e].tx.rot) = 0
  BY <1>3, SeqShort
<1>6. Len(history) \in Nat /\ Len(rotations) \in Nat /\ Len(history) + Len(rotations) < nextSeq /\ nextSeq \in Nat
  BY SeqBasics DEF BootInv, Counted, Numbered
<1>7. ASSUME NEW a, NEW b, a = 0, b = 0
      PROVE  a \in Nat /\ b \in Nat /\ Len(history) + Len(rotations) + a + b < nextSeq
  BY <1>6, <1>7
<1>8. /\ Len(proc'[e].tx.hist) \in Nat /\ Len(proc'[e].tx.rot) \in Nat
      /\ Len(history) + Len(rotations) + Len(proc'[e].tx.hist) + Len(proc'[e].tx.rot) < nextSeq
  BY <1>5, <1>7
<1>9. nextSeq' \in Nat /\ nextSeq' >= nextSeq
  BY <1>6
<1>10. proc'[e].pc \notin Held
  BY <1>3 DEF Held
<1> QED BY <1>1, <1>2, <1>4, <1>8, <1>9, <1>10, BootMoves DEF Locked

\* A row is appended inside the transaction of the lock's holder.
LEMMA BootAppends ==
    ASSUME Shaped, NEW e \in Engines, NEW kind, NEW from, NEW p, BP!AppendHistory(e, kind, from, p)
    PROVE  /\ Shaped' /\ proc'[e].pc = p /\ proc'[e].env = proc[e].env
           /\ proc'[e].tx.rot = proc[e].tx.rot
           /\ proc'[e].tx.hist = Append(proc[e].tx.hist,
                  BP!HistoryRow(nextSeq, kind, proc[e].env, from, BP!TipMac(history \o proc[e].tx.hist)))
           /\ \A f \in Engines \ {e} : proc'[f] = proc[f]
           /\ nextSeq' = nextSeq + 1
BY DEF BP!AppendHistory, Shaped

LEMMA TipOfJoin ==
    ASSUME ASeq(history), NEW x
    PROVE  /\ BP!TipMac(history \o <<>>) = BP!TipMac(history)
           /\ BP!TipMac(history \o <<x>>) = x.mac
<1>1. /\ ASeq(<<>>) /\ Len(<<>>) = 0 /\ ASeq(<<x>>) /\ Len(<<x>>) = 1 /\ <<x>>[1] = x /\ Len(history) \in Nat
  BY SeqShort, SeqBasics
<1>2. /\ ASeq(history \o <<>>) /\ Len(history \o <<>>) = Len(history)
      /\ \A i \in 1..Len(history) : (history \o <<>>)[i] = history[i]
  BY <1>1, SeqJoin
<1>3. /\ ASeq(history \o <<x>>) /\ Len(history \o <<x>>) = Len(history) + 1
      /\ (history \o <<x>>)[Len(history) + 1] = x
  BY <1>1, SeqJoin
<1>4. BP!TipMac(history \o <<>>) = BP!TipMac(history)
  BY <1>1, <1>2, TipIs
<1>5. BP!TipMac(history \o <<x>>) = x.mac
  <2>1. BP!TipMac(history \o <<x>>)
            = IF Len(history \o <<x>>) = 0 THEN None ELSE (history \o <<x>>)[Len(history \o <<x>>)].mac
    BY <1>3, TipIs
  <2>2. Len(history) + 1 # 0
    BY <1>1
  <2> QED BY <1>3, <2>1, <2>2
<1> QED BY <1>4, <1>5

\* A step of the lock's holder that stays inside the transaction.
LEMMA BootInside ==
    ASSUME BootInv, NEW e \in Engines, proc[e].pc \in Held, proc'[e].pc \in Held,
           UNCHANGED <<history, rotations, lock, damage>>, Shaped',
           nextSeq' \in {nextSeq, nextSeq + 1},
           \A f \in Engines \ {e} : proc'[f] = proc[f],
           Pending(e)',
           Len(proc'[e].tx.hist) \in Nat, Len(proc'[e].tx.rot) \in Nat,
           Len(proc'[e].tx.hist) + Len(proc'[e].tx.rot)
               <= Len(proc[e].tx.hist) + Len(proc[e].tx.rot) + (nextSeq' - nextSeq),
           damage = 1 => proc'[e].pc = "verify"
    PROVE  BootInv'
<1>1. Locked'
  BY DEF BootInv, Locked
<1>2. /\ Len(history) \in Nat /\ Len(rotations) \in Nat /\ nextSeq \in Nat
      /\ Len(proc[e].tx.hist) \in Nat /\ Len(proc[e].tx.rot) \in Nat
      /\ Len(history) + Len(rotations) + Len(proc[e].tx.hist) + Len(proc[e].tx.rot) < nextSeq
  BY SeqBasics DEF BootInv, Counted, Numbered
<1>3. nextSeq' \in Nat /\ nextSeq' >= nextSeq
  BY <1>2
<1>5. Len(history) + Len(rotations) + Len(proc'[e].tx.hist) + Len(proc'[e].tx.rot) < nextSeq'
  <2> DEFINE a == Len(proc[e].tx.hist)
             b == Len(proc[e].tx.rot)
             c == Len(proc'[e].tx.hist)
             d == Len(proc'[e].tx.rot)
             g == Len(history) + Len(rotations)
             n == nextSeq'
  <2>1. a \in Nat /\ b \in Nat /\ c \in Nat /\ d \in Nat /\ n \in Nat /\ nextSeq \in Nat
    BY <1>2, <1>3
  <2>2. g \in Nat
    BY <1>2
  <2>3. g + a + b < nextSeq
    BY <1>2
  <2>4. c + d <= a + b + (n - nextSeq)
    BY Zenon
  <2> SUFFICES g + c + d < n
    BY <1>2
  <2> HIDE DEF a, b, c, d, g, n
  <2> QED BY <2>1, <2>2, <2>3, <2>4
<1> QED BY <1>1, <1>3, <1>5, BootMoves DEF Locked, Held

\* Both walks refuse a history with a row that does not carry its signature.
LEMMA DamageIsSeen ==
    ASSUME ASeq(history), Tampered
    PROVE  ~BP!Sound
BY SeqBasics DEF Tampered, Unsigned, BP!Sound, BP!VerifyChain

LEMMA BootReadsTip ==
    ASSUME BootInv, NEW e \in Engines, BP!ReadTip(e)
    PROVE  BootInv'
<1>1. proc[e].pc = "verify" /\ proc[e].tx.hist = <<>> /\ proc[e].tx.rot = <<>> /\ Shaped
  BY DEF BootInv, Pending, BP!ReadTip
<1>2. CASE BP!AbortSecurityCritical(e)
  BY <1>2, BootDies DEF BP!AbortSecurityCritical
<1>3. ASSUME NEW p \in {"boot", "transition"}, BP!Sound, BP!Goes(e, p), p = "boot" => Same(e), p = "transition" => Change(e),
             UNCHANGED <<history, rotations, nextSeq, lock, boots, damage>>
      PROVE  BootInv'
  <2>1. /\ Shaped' /\ proc'[e].pc = p /\ proc'[e].env = proc[e].env /\ proc'[e].tx = proc[e].tx
        /\ \A f \in Engines \ {e} : proc'[f] = proc[f]
    BY <1>1, <1>3, BootGoes
  <2>2. damage # 1
    BY <1>3, DamageIsSeen DEF BootInv, Numbered
  <2>3. Same(e)' = Same(e) /\ Change(e)' = Change(e)
    BY <1>3, <2>1 DEF Same, Change, BP!Authorized
  <2>4. Pending(e)'
    BY <1>1, <1>3, <2>1, <2>3 DEF Pending
  <2>5. Len(proc'[e].tx.hist) \in Nat /\ Len(proc'[e].tx.rot) \in Nat
    BY <2>1 DEF BootInv, Counted
  <2>6. nextSeq' = nextSeq /\ nextSeq' \in Nat /\ nextSeq' - nextSeq = 0
    BY <1>3 DEF BootInv, Counted
  <2>7. Len(proc'[e].tx.hist) + Len(proc'[e].tx.rot)
               <= Len(proc[e].tx.hist) + Len(proc[e].tx.rot) + (nextSeq' - nextSeq)
    BY <2>1, <2>5, <2>6
  <2>8. proc[e].pc \in Held /\ proc'[e].pc \in Held
    BY <1>1, <1>3, <2>1 DEF Held
  <2> QED BY <1>3, <2>1, <2>2, <2>4, <2>5, <2>6, <2>7, <2>8, BootInside
<1>4. BP!SameMode(e) => Same(e)
  BY SeqBasics DEF BP!SameMode, BP!Last, Same, BootInv, Numbered
<1>5. (~BP!SameMode(e) /\ BP!Authorized(BP!Last(history).env, proc[e].env)) => Change(e)
  BY SeqBasics DEF BP!SameMode, BP!Last, Change, BootInv, Numbered
<1> QED BY <1>2, <1>3, <1>4, <1>5 DEF BP!ReadTip

\* One row more in the transaction, whose length grows by one.
LEMMA BootInsideOne ==
    ASSUME BootInv, NEW e \in Engines, proc[e].pc \in Held \ {"verify"}, proc'[e].pc \in Held \ {"verify"},
           UNCHANGED <<history, rotations, lock, damage>>, Shaped',
           nextSeq' = nextSeq + 1,
           \A f \in Engines \ {e} : proc'[f] = proc[f],
           Pending(e)',
           Len(proc'[e].tx.hist) \in Nat, Len(proc'[e].tx.rot) \in Nat,
           \/ proc'[e].tx.rot = proc[e].tx.rot /\ Len(proc'[e].tx.hist) = Len(proc[e].tx.hist) + 1
           \/ proc'[e].tx.hist = proc[e].tx.hist /\ Len(proc'[e].tx.rot) = Len(proc[e].tx.rot) + 1
    PROVE  BootInv'
<1>1. damage # 1
  BY DEF BootInv, Tampered
<1>2. Len(proc[e].tx.hist) \in Nat /\ Len(proc[e].tx.rot) \in Nat /\ nextSeq \in Nat
  BY DEF BootInv, Counted
<1>3. nextSeq' - nextSeq = 1
  BY <1>2
<1>4. Len(proc'[e].tx.hist) + Len(proc'[e].tx.rot)
               <= Len(proc[e].tx.hist) + Len(proc[e].tx.rot) + (nextSeq' - nextSeq)
  <2> DEFINE a == Len(proc[e].tx.hist)
             b == Len(proc[e].tx.rot)
             c == Len(proc'[e].tx.hist)
             d == Len(proc'[e].tx.rot)
  <2>1. a \in Nat /\ b \in Nat /\ c \in Nat /\ d \in Nat
    BY <1>2
  <2>2. \/ d = b /\ c = a + 1
        \/ c = a /\ d = b + 1
    BY Zenon
  <2> SUFFICES c + d <= a + b + 1
    BY <1>3
  <2> HIDE DEF a, b, c, d
  <2> QED BY <2>1, <2>2
<1> QED BY <1>1, <1>4, BootInside

LEMMA FreshNext ==
    ASSUME Numbered, nextSeq \in Nat, nextSeq' = nextSeq + 1, UNCHANGED history, NEW n, n = nextSeq
    PROVE  n \in Nat /\ Fresh(n)' /\ \A s \in Nat : Fresh(s) => Fresh(s)' /\ s < n
<1>1. Len(history) \in Nat
  BY SeqBasics DEF Numbered
<1> QED BY <1>1 DEF Numbered, Fresh

LEMMA BootAppendsTurn ==
    ASSUME BootInv, NEW e \in Engines, BP!AppendTransition(e)
    PROVE  BootInv'
<1> PICK n : n = nextSeq
  OBVIOUS
<1> DEFINE r == TurnRow(e, n)
<1>1. /\ proc[e].pc = "transition" /\ proc[e].tx.hist = <<>> /\ proc[e].tx.rot = <<>> /\ Change(e)
      /\ Shaped /\ Numbered /\ nextSeq \in Nat /\ UNCHANGED <<history, rotations, lock, damage>>
  BY DEF BP!AppendTransition, BootInv, Pending, Counted
<1>2. /\ Shaped' /\ proc'[e].pc = "boot" /\ proc'[e].env = proc[e].env /\ proc'[e].tx.rot = <<>>
      /\ proc'[e].tx.hist = Append(<<>>, BP!HistoryRow(n, "transition", proc[e].env, BP!Last(history).env,
                                                       BP!TipMac(history \o <<>>)))
      /\ \A f \in Engines \ {e} : proc'[f] = proc[f]
      /\ nextSeq' = nextSeq + 1
  <2>1. BP!AppendHistory(e, "transition", BP!Last(history).env, "boot")
    BY DEF BP!AppendTransition
  <2>2. /\ Shaped' /\ proc'[e].pc = "boot" /\ proc'[e].env = proc[e].env /\ proc'[e].tx.rot = proc[e].tx.rot
        /\ proc'[e].tx.hist = Append(proc[e].tx.hist,
               BP!HistoryRow(nextSeq, "transition", proc[e].env, BP!Last(history).env,
                             BP!TipMac(history \o proc[e].tx.hist)))
        /\ \A f \in Engines \ {e} : proc'[f] = proc[f]
        /\ nextSeq' = nextSeq + 1
    <3>1. Shaped
      BY <1>1
    <3> QED BY <2>1, <3>1, BootAppends
  <2> QED BY <1>1, <2>2
<1>3. BP!TipMac(history \o <<>>) = BP!TipMac(history) /\ BP!Last(history) = history[Len(history)]
  BY <1>1, TipOfJoin DEF Numbered, BP!Last
<1>4. proc'[e].tx.hist = <<r>>
  <2>1. r = BP!HistoryRow(n, "transition", proc[e].env, BP!Last(history).env, BP!TipMac(history \o <<>>))
    BY <1>3 DEF TurnRow
  <2>2. Append(<<>>, r) = <<r>>
    BY SeqShort
  <2> HIDE DEF r
  <2> QED BY <1>2, <2>1, <2>2
<1>5. n \in Nat /\ Fresh(n)'
  BY <1>1, <1>2, FreshNext
<1>6. r = TurnRow(e, n)'
  BY <1>1, <1>2 DEF TurnRow, BP!TipMac, BP!Last
<1>7. TurnedOnly(e)' /\ Change(e)'
  BY <1>1, <1>2, <1>4, <1>5, <1>6 DEF TurnedOnly, Change, BP!Authorized
<1>8. Pending(e)'
  BY <1>2, <1>7 DEF Pending
<1>9. Len(proc'[e].tx.hist) = 1 /\ Len(proc'[e].tx.rot) = 0 /\ Len(proc[e].tx.hist) = 0
  <2> HIDE DEF r
  <2> QED BY <1>1, <1>2, <1>4, SeqShort
<1>10. /\ proc'[e].tx.rot = proc[e].tx.rot /\ Len(proc'[e].tx.hist) = Len(proc[e].tx.hist) + 1
       /\ Len(proc'[e].tx.hist) \in Nat /\ Len(proc'[e].tx.rot) \in Nat
  BY <1>1, <1>2, <1>9
<1> HIDE DEF r
<1> QED BY <1>1, <1>2, <1>8, <1>10, BootInsideOne DEF Held

LEMMA BootAppendsBoot ==
    ASSUME BootInv, NEW e \in Engines, BP!AppendBoot(e)
    PROVE  BootInv'
<1> PICK n : n = nextSeq
  OBVIOUS
<1>1. /\ proc[e].pc = "boot" /\ proc[e].tx.rot = <<>>
      /\ Shaped /\ Numbered /\ nextSeq \in Nat /\ UNCHANGED <<history, rotations, lock, damage>>
  BY DEF BP!AppendBoot, BootInv, Pending, Counted
<1>2. /\ Shaped' /\ proc'[e].env = proc[e].env /\ proc'[e].tx.rot = <<>>
      /\ proc'[e].pc = IF proc[e].tx.hist = <<>> THEN "commit" ELSE "rotation"
      /\ proc'[e].tx.hist = Append(proc[e].tx.hist, BP!HistoryRow(n, "boot", proc[e].env, None,
                                                                 BP!TipMac(history \o proc[e].tx.hist)))
      /\ \A f \in Engines \ {e} : proc'[f] = proc[f]
      /\ nextSeq' = nextSeq + 1
  BY <1>1, BootAppends DEF BP!AppendBoot
<1>3. n \in Nat /\ Fresh(n)' /\ \A s \in Nat : Fresh(s) => Fresh(s)' /\ s < n
  BY <1>1, <1>2, FreshNext
<1>4. CASE Same(e) /\ proc[e].tx.hist = <<>>
  <2> DEFINE r == BootRow(e, n, BP!TipMac(history))
  <2>1. BP!TipMac(history \o <<>>) = BP!TipMac(history)
    BY <1>1, TipOfJoin DEF Numbered
  <2>2. r = BP!HistoryRow(n, "boot", proc[e].env, None, BP!TipMac(history \o <<>>))
    BY <2>1 DEF BootRow
  <2>3. r = BootRow(e, n, BP!TipMac(history))'
    BY <1>1, <1>2 DEF BootRow, BP!TipMac, BP!Last
  <2>4. /\ Append(<<>>, r) = <<r>> /\ Len(<<r>>) = 1
    BY SeqShort
  <2> HIDE DEF r
  <2>5. proc'[e].tx.hist = <<r>> /\ proc'[e].pc = "commit"
    BY <1>2, <1>4, <2>2, <2>4
  <2>6. BootedOnly(e)' /\ Same(e)'
    BY <1>1, <1>2, <1>3, <1>4, <2>3, <2>5 DEF BootedOnly, Same
  <2>7. Pending(e)'
    BY <1>2, <2>5, <2>6 DEF Pending
  <2>8. Len(proc'[e].tx.hist) = 1 /\ Len(proc'[e].tx.rot) = 0 /\ Len(proc[e].tx.hist) = 0
    BY <1>2, <1>4, <2>4, <2>5, SeqShort
  <2>9. /\ proc'[e].tx.rot = proc[e].tx.rot /\ Len(proc'[e].tx.hist) = Len(proc[e].tx.hist) + 1
         /\ Len(proc'[e].tx.hist) \in Nat /\ Len(proc'[e].tx.rot) \in Nat
    BY <1>1, <1>2, <2>8
  <2> QED BY <1>1, <1>2, <2>5, <2>7, <2>9, BootInsideOne DEF Held
<1>5. CASE Change(e) /\ TurnedOnly(e)
  <2>1. PICK s \in Nat : Fresh(s) /\ proc[e].tx.hist = <<TurnRow(e, s)>>
    BY <1>5 DEF TurnedOnly
  <2> DEFINE t == TurnRow(e, s)
             r == BootRow(e, n, t.mac)
  <2>2. BP!TipMac(history \o <<t>>) = t.mac
    <3> HIDE DEF t
    <3> QED BY <1>1, TipOfJoin DEF Numbered
  <2>3. r = BP!HistoryRow(n, "boot", proc[e].env, None, BP!TipMac(history \o proc[e].tx.hist))
    BY <2>1, <2>2 DEF BootRow
  <2>4. t = TurnRow(e, s)' /\ r = BootRow(e, n, TurnRow(e, s).mac)'
    BY <1>1, <1>2 DEF BootRow, TurnRow, BP!TipMac, BP!Last
  <2>5. /\ Append(<<t>>, r) = <<t, r>> /\ Len(<<t, r>>) = 2 /\ Len(<<t>>) = 1 /\ <<t>> # <<>>
    <3> HIDE DEF t, r
    <3>1. /\ Append(<<t>>, r) = <<t, r>> /\ Len(<<t, r>>) = 2 /\ Len(<<t>>) = 1
      BY SeqShort
    <3> QED BY <3>1, SeqShort
  <2>6. proc[e].tx.hist = <<t>>
    BY <2>1
  <2> HIDE DEF t, r
  <2>7. proc'[e].tx.hist = <<t, r>> /\ proc'[e].pc = "rotation"
    BY <1>2, <2>3, <2>5, <2>6
  <2>8. TurnedAndBooted(e)' /\ Change(e)'
    <3>1. Fresh(s)' /\ s < n
      BY <1>3, <2>1
    <3>2. TurnedAndBooted(e)'
      BY <1>3, <2>4, <2>7, <3>1 DEF TurnedAndBooted
    <3> QED BY <1>1, <1>2, <1>5, <3>2 DEF Change, BP!Authorized
  <2>9. Pending(e)'
    BY <1>2, <2>7, <2>8 DEF Pending
  <2>10. Len(proc'[e].tx.hist) = 2 /\ Len(proc'[e].tx.rot) = 0 /\ Len(proc[e].tx.hist) = 1
    BY <1>2, <2>5, <2>6, <2>7, SeqShort
  <2>11. /\ proc'[e].tx.rot = proc[e].tx.rot /\ Len(proc'[e].tx.hist) = Len(proc[e].tx.hist) + 1
         /\ Len(proc'[e].tx.hist) \in Nat /\ Len(proc'[e].tx.rot) \in Nat
    BY <1>1, <1>2, <2>10
  <2> QED BY <1>1, <1>2, <2>7, <2>9, <2>11, BootInsideOne DEF Held
<1> QED BY <1>1, <1>4, <1>5 DEF BootInv, Pending

LEMMA BootAppendsWitness ==
    ASSUME BootInv, NEW e \in Engines, BP!AppendRotation(e)
    PROVE  BootInv'
<1> PICK n : n = nextSeq
  OBVIOUS
<1> DEFINE r == WitnessRow(e, n)
<1>1. /\ proc[e].pc = "rotation" /\ proc[e].tx.rot = <<>> /\ Change(e) /\ TurnedAndBooted(e)
      /\ Shaped /\ Numbered /\ nextSeq \in Nat /\ UNCHANGED <<history, rotations, lock, damage>>
      /\ nextSeq' = nextSeq + 1
  BY DEF BP!AppendRotation, BootInv, Pending, Counted
<1>2. r = BP!RotationRow(n, BP!Last(history).env, proc[e].env, BP!PreTip(e), TRUE, BP!TipMac(rotations))
  BY DEF WitnessRow, BP!Last, BP!PreTip
<1>3. /\ Shaped' /\ proc'[e].env = proc[e].env /\ proc'[e].pc = "commit"
      /\ proc'[e].tx.hist = proc[e].tx.hist /\ proc'[e].tx.rot = <<r>>
      /\ \A f \in Engines \ {e} : proc'[f] = proc[f]
  <2> HIDE DEF r
  <2> QED BY <1>1, <1>2 DEF BP!AppendRotation, Shaped
<1>4. n \in Nat /\ Fresh(n)' /\ \A s \in Nat : Fresh(s) => Fresh(s)' /\ s < n
  BY <1>1, <1>3, FreshNext
<1>5. r = WitnessRow(e, n)'
  BY <1>1, <1>3 DEF WitnessRow, BP!TipMac, BP!Last
<1>6. TurnedAndBooted(e)' /\ Change(e)'
  <2>1. \A s : TurnRow(e, s)' = TurnRow(e, s)
    BY <1>1, <1>3 DEF TurnRow, BP!TipMac, BP!Last
  <2>2. \A s, p : BootRow(e, s, p)' = BootRow(e, s, p)
    BY <1>3 DEF BootRow
  <2>3. TurnedAndBooted(e)'
    BY <1>1, <1>3, <1>4, <2>1, <2>2 DEF TurnedAndBooted
  <2> QED BY <1>1, <1>3, <2>3 DEF Change, BP!Authorized
<1>7. Pending(e)'
  BY <1>3, <1>4, <1>5, <1>6 DEF Pending
<1> HIDE DEF r
<1>8. Len(proc'[e].tx.rot) = 1 /\ Len(proc[e].tx.rot) = 0
  BY <1>1, <1>3, SeqShort
<1>9. /\ proc'[e].tx.hist = proc[e].tx.hist /\ Len(proc'[e].tx.rot) = Len(proc[e].tx.rot) + 1
      /\ Len(proc'[e].tx.hist) \in Nat /\ Len(proc'[e].tx.rot) \in Nat
  BY <1>3, <1>8 DEF BootInv, Counted
<1> QED BY <1>1, <1>3, <1>7, <1>9, BootInsideOne DEF Held

\* What the two walks check, row by row.
Links(h, i) == h[i].prev = IF i = 1 THEN None ELSE h[i - 1].mac
SignedTurn(r) == r.mac = BP!EncodeRotation(r.seq, r.from, r.to, r.pre, r.token, r.prev)

LEMMA SoundIs ==
    ASSUME NEW h, NEW g, ASeq(h), ASeq(g)
    PROVE  (BP!VerifyChain(h) /\ BP!VerifyRotations(g)) <=>
               /\ \A i \in 1..Len(h) : Links(h, i) /\ ~Unsigned(h[i])
               /\ \A k \in 1..Len(g) : Links(g, k) /\ SignedTurn(g[k])
<1>1. DOMAIN h = 1..Len(h) /\ DOMAIN g = 1..Len(g)
  BY SeqBasics
<1>2. BP!Linked(h) <=> \A i \in 1..Len(h) : Links(h, i)
  BY LinkedIs DEF Links
<1>3. BP!Linked(g) <=> \A k \in 1..Len(g) : Links(g, k)
  BY LinkedIs DEF Links
<1>4. BP!VerifyChain(h) <=> BP!Linked(h) /\ \A i \in 1..Len(h) : ~Unsigned(h[i])
  BY <1>1 DEF BP!VerifyChain, Unsigned
<1>5. BP!VerifyRotations(g) <=> BP!Linked(g) /\ \A k \in 1..Len(g) : SignedTurn(g[k])
  BY <1>1 DEF BP!VerifyRotations, SignedTurn
<1> QED BY <1>2, <1>3, <1>4, <1>5

\* Signatures in a sound history differ, for their sequence numbers do.
LEMMA MacsDiffer ==
    ASSUME Numbered, \A i \in 1..Len(history) : ~Unsigned(history[i]),
           NEW i \in 1..Len(history), NEW j \in 1..Len(history), history[i].mac = history[j].mac
    PROVE  i = j
<1>1. history[i].seq = history[j].seq
  BY DEF Unsigned, BP!EncodeHistory, BP!Mac
<1>2. i \in Int /\ j \in Int /\ history[i].seq \in Nat /\ history[j].seq \in Nat
  BY DEF Numbered
<1>3. ~(i < j) /\ ~(j < i)
  BY <1>1, <1>2 DEF Numbered
<1> QED BY <1>2, <1>3

LEMMA RowIs ==
    ASSUME NEW s, NEW k, NEW v, NEW f, NEW p
    PROVE  LET r == BP!HistoryRow(s, k, v, f, p) IN
           /\ DOMAIN r = {"seq", "kind", "env", "from", "prev", "mac"}
           /\ r.seq = s /\ r.kind = k /\ r.env = v /\ r.from = f /\ r.prev = p /\ ~Unsigned(r)
BY DEF BP!HistoryRow, Unsigned

LEMMA ChainGrowsSame ==
    ASSUME Numbered, Chain, NEW e \in Engines, Same(e), NEW s \in Nat, Fresh(s),
           ASeq(history'), Len(history') = Len(history) + 1,
           \A i \in 1..Len(history) : history'[i] = history[i],
           history'[Len(history) + 1] = BootRow(e, s, BP!TipMac(history)),
           ASeq(rotations'), Len(rotations') = Len(rotations),
           \A k \in 1..Len(rotations) : rotations'[k] = rotations[k]
    PROVE  Chain'
<1> DEFINE n == Len(history)
           b == history'[n + 1]
<1>1. n \in Nat /\ Len(rotations) \in Nat /\ ASeq(history) /\ ASeq(rotations)
  BY SeqBasics DEF Numbered
<1>2. b.kind = "boot" /\ b.env = proc[e].env /\ b.prev = BP!TipMac(history) /\ ~Unsigned(b)
  BY RowIs DEF BootRow
<1>3. BP!TipMac(history) = IF n = 0 THEN None ELSE history[n].mac
  BY <1>1, TipIs
<1>4. /\ \A i \in 1..n : Links(history, i) /\ ~Unsigned(history[i])
      /\ \A k \in 1..Len(rotations) : Links(rotations, k) /\ SignedTurn(rotations[k])
  BY <1>1, SoundIs DEF Chain, BP!Sound
<1> HIDE DEF b
<1>5. BP!Sound'
  <2>1. ASSUME NEW i \in 1..(n + 1) PROVE Links(history', i) /\ ~Unsigned(history'[i])
    <3>1. CASE i = n + 1
      <4>1. b.prev = IF i = 1 THEN None ELSE history[i - 1].mac
        BY <1>1, <1>2, <1>3, <3>1
      <4>2. i # 1 => history'[i - 1] = history[i - 1]
        BY <1>1, <3>1
      <4> QED BY <1>2, <3>1, <4>1, <4>2 DEF Links, b
    <3>2. CASE i # n + 1
      <4>1. i \in 1..n /\ (i # 1 => i - 1 \in 1..n)
        BY <1>1, <3>2
      <4> QED BY <1>4, <4>1 DEF Links
    <3> QED BY <3>1, <3>2
  <2>2. ASSUME NEW k \in 1..Len(rotations) PROVE Links(rotations', k) /\ SignedTurn(rotations'[k])
    <3>1. k # 1 => k - 1 \in 1..Len(rotations)
      BY <1>1
    <3> QED BY <1>4, <3>1 DEF Links
  <2>3. BP!VerifyChain(history') /\ BP!VerifyRotations(rotations')
    BY <2>1, <2>2, SoundIs
  <2> QED BY <2>3 DEF BP!Sound
<1>6. n > 0 => history[n].env = b.env
  BY <1>2 DEF Same
<1>7. Turned'
  <2> SUFFICES ASSUME NEW i \in 2..(n + 1), history'[i].env # history'[i - 1].env
               PROVE  /\ history'[i].kind = "transition" /\ history'[i].from = history'[i - 1].env
                      /\ i < n + 1 /\ history'[i + 1].kind = "boot" /\ history'[i + 1].env = history'[i].env
                      /\ \E k \in 1..Len(rotations) : /\ rotations'[k].pre = history'[i - 1].mac
                                                     /\ rotations'[k].to = history'[i].env
    BY DEF Turned
  <2>1. i # n + 1
    <3> SUFFICES ASSUME i = n + 1 PROVE FALSE
      OBVIOUS
    <3>1. history'[i - 1] = history[n] /\ n > 0
      BY <1>1
    <3> QED BY <1>6, <3>1 DEF b
  <2>2. i \in 2..n /\ i \in 1..n /\ i - 1 \in 1..n
    BY <1>1, <2>1
  <2>3. /\ history[i].kind = "transition" /\ history[i].from = history[i - 1].env
        /\ i < n /\ history[i + 1].kind = "boot" /\ history[i + 1].env = history[i].env
        /\ \E k \in 1..Len(rotations) : rotations[k].pre = history[i - 1].mac /\ rotations[k].to = history[i].env
    BY <2>2 DEF Chain, Turned
  <2>4. i + 1 \in 1..n /\ i < n + 1
    BY <1>1, <2>2, <2>3
  <2> QED BY <2>2, <2>3, <2>4
<1>8. Witnessed'
  <2>1. ASSUME NEW k \in 1..Len(rotations)
        PROVE  \E j \in 1..(Len(history') - 1) : rotations'[k].pre = history'[j].mac
    <3>1. PICK j \in 1..(n - 1) : rotations[k].pre = history[j].mac
      BY DEF Chain, Witnessed
    <3>2. j \in 1..n /\ j \in 1..(Len(history') - 1)
      BY <1>1
    <3> QED BY <3>1, <3>2
  <2>2. ASSUME NEW k \in 1..Len(rotations), NEW l \in 1..Len(rotations), rotations'[k].pre = rotations'[l].pre
        PROVE  k = l
    BY <2>2 DEF Chain, Witnessed
  <2> QED BY <2>1, <2>2 DEF Witnessed
<1>9. Transitions(history)' = Transitions(history)
  <2>1. ASSUME NEW i \in 1..(n + 1) PROVE i \in Transitions(history') <=> i \in Transitions(history)
    <3>1. CASE i = n + 1
      BY <1>1, <1>2, <3>1 DEF Transitions, b
    <3>2. CASE i # n + 1
      <4>1. i \in 1..n
        BY <1>1, <3>2
      <4> QED BY <1>1, <4>1 DEF Transitions
    <3> QED BY <3>1, <3>2
  <2>2. Transitions(history) \subseteq 1..(n + 1) /\ Transitions(history') \subseteq 1..(n + 1)
    BY <1>1 DEF Transitions
  <2> QED BY <2>1, <2>2
<1>10. ASSUME NEW i \in 1..(n + 1), history'[i].env = "live", history'[1].env # "live"
       PROVE  \E j \in 1..i : history'[j].env = "paper"
  <2>1. PICK m \in 1..n : m <= i /\ history[m].env = "live"
    <3>1. CASE i = n + 1
      <4>1. n # 0
        BY <1>10, <3>1
      <4>2. n \in 1..n /\ n <= i /\ n > 0
        BY <1>1, <3>1, <4>1
      <4> QED BY <1>6, <1>10, <3>1, <4>2 DEF b
    <3>2. CASE i # n + 1
      <4>1. i \in 1..n /\ i <= i
        BY <1>1, <3>2
      <4> QED BY <1>10, <4>1
    <3> QED BY <3>1, <3>2
  <2>2. 1 \in 1..n
    BY <1>1
  <2>3. PICK j \in 1..m : history[j].env = "paper"
    BY <1>10, <2>1, <2>2 DEF Chain
  <2>4. j \in 1..n /\ j \in 1..i
    BY <1>1, <2>1
  <2> QED BY <2>3, <2>4
<1> QED BY <1>5, <1>7, <1>8, <1>9, <1>10 DEF Chain

LEMMA ChainGrowsTurned ==
    ASSUME Numbered, Chain, NEW e \in Engines, Change(e), NEW s \in Nat, NEW u \in Nat, NEW w \in Nat,
           ASeq(history'), Len(history') = Len(history) + 2,
           \A i \in 1..Len(history) : history'[i] = history[i],
           history'[Len(history) + 1] = TurnRow(e, s),
           history'[Len(history) + 2] = BootRow(e, u, TurnRow(e, s).mac),
           ASeq(rotations'), Len(rotations') = Len(rotations) + 1,
           \A k \in 1..Len(rotations) : rotations'[k] = rotations[k],
           rotations'[Len(rotations) + 1] = WitnessRow(e, w)
    PROVE  Chain'
<1> DEFINE n == Len(history)
           m == Len(rotations)
           t == history'[n + 1]
           b == history'[n + 2]
           r == rotations'[m + 1]
<1>1. n \in Nat /\ n > 0 /\ m \in Nat /\ ASeq(history) /\ ASeq(rotations)
  BY SeqBasics DEF Numbered, Change
<1>2. BP!TipMac(history) = history[n].mac /\ BP!TipMac(rotations) = IF m = 0 THEN None ELSE rotations[m].mac
  BY <1>1, TipIs
<1>3. /\ t.kind = "transition" /\ t.env = proc[e].env /\ t.from = history[n].env
      /\ t.prev = history[n].mac /\ ~Unsigned(t)
  BY <1>2, RowIs DEF TurnRow
<1>4. b.kind = "boot" /\ b.env = proc[e].env /\ b.prev = t.mac /\ ~Unsigned(b)
  BY RowIs DEF BootRow
<1>5. /\ r.to = proc[e].env /\ r.pre = history[n].mac /\ r.prev = (IF m = 0 THEN None ELSE rotations[m].mac)
      /\ SignedTurn(r)
  <2>1. r = BP!RotationRow(w, history[n].env, proc[e].env, BP!TipMac(history), TRUE, BP!TipMac(rotations))
    BY DEF WitnessRow
  <2> HIDE DEF r, n, m
  <2>2. r.to = proc[e].env /\ r.pre = BP!TipMac(history) /\ r.prev = BP!TipMac(rotations) /\ SignedTurn(r)
    BY <2>1 DEF BP!RotationRow, SignedTurn
  <2> QED BY <1>2, <2>2
<1>6. /\ \A i \in 1..n : Links(history, i) /\ ~Unsigned(history[i])
      /\ \A k \in 1..m : Links(rotations, k) /\ SignedTurn(rotations[k])
  BY <1>1, SoundIs DEF Chain, BP!Sound
<1>7. history[n].env # proc[e].env /\ (proc[e].env = "live" => history[n].env = "paper")
  BY DEF Change, BP!Authorized
<1>8. /\ \A i \in 1..(n + 2) : i \in 1..n \/ i = n + 1 \/ i = n + 2
      /\ n \in 1..n /\ n + 1 - 1 = n /\ n + 2 - 1 = n + 1 /\ n + 1 # 1 /\ n + 2 # 1
      /\ \A k \in 1..(m + 1) : k \in 1..m \/ k = m + 1
      /\ m + 1 - 1 = m /\ (m # 0 => m \in 1..m)
  BY <1>1
<1>9. history'[n] = history[n] /\ (m # 0 => rotations'[m] = rotations[m])
  BY <1>8
<1> HIDE DEF t, b, r
<1>10. BP!Sound'
  <2>1. ASSUME NEW i \in 1..(n + 2) PROVE Links(history', i) /\ ~Unsigned(history'[i])
    <3>1. CASE i = n + 1
      BY <1>3, <1>8, <1>9, <3>1 DEF Links, t
    <3>2. CASE i = n + 2
      BY <1>4, <1>8, <3>2 DEF Links, b, t
    <3>3. CASE i \in 1..n
      <4>1. i # 1 => i - 1 \in 1..n
        BY <1>1, <3>3
      <4> QED BY <1>6, <3>3, <4>1 DEF Links
    <3> QED BY <1>8, <3>1, <3>2, <3>3
  <2>2. ASSUME NEW k \in 1..(m + 1) PROVE Links(rotations', k) /\ SignedTurn(rotations'[k])
    <3>1. CASE k = m + 1
      <4>1. (k = 1) <=> (m = 0)
        BY <1>1, <3>1
      <4> QED BY <1>5, <1>8, <1>9, <3>1, <4>1 DEF Links, r
    <3>2. CASE k \in 1..m
      <4>1. k # 1 => k - 1 \in 1..m
        BY <1>1, <3>2
      <4> QED BY <1>6, <3>2, <4>1 DEF Links
    <3> QED BY <1>8, <3>1, <3>2
  <2>3. BP!VerifyChain(history') /\ BP!VerifyRotations(rotations')
    BY <2>1, <2>2, SoundIs
  <2> QED BY <2>3 DEF BP!Sound
<1>11. m + 1 \in 1..(m + 1) /\ (\A k \in 1..m : k \in 1..(m + 1)) /\ n + 1 < n + 2 /\ n + 1 + 1 = n + 2
  BY <1>1
<1>12. Turned'
  <2> SUFFICES ASSUME NEW i \in 2..(n + 2), history'[i].env # history'[i - 1].env
               PROVE  /\ history'[i].kind = "transition" /\ history'[i].from = history'[i - 1].env
                      /\ i < n + 2 /\ history'[i + 1].kind = "boot" /\ history'[i + 1].env = history'[i].env
                      /\ \E k \in 1..(m + 1) : /\ rotations'[k].pre = history'[i - 1].mac
                                              /\ rotations'[k].to = history'[i].env
    BY DEF Turned
  <2>1. i \in 2..n \/ i = n + 1 \/ i = n + 2
    <3> HIDE DEF n
    <3> QED BY <1>1
  <2>2. i # n + 2
    BY <1>3, <1>4, <1>8 DEF t, b
  <2>3. CASE i = n + 1
    <3>1. history'[i] = t /\ history'[i - 1] = history[n] /\ history'[i + 1] = b
      BY <1>8, <1>9, <1>11, <2>3 DEF t, b
    <3>2. rotations'[m + 1].pre = history[n].mac /\ rotations'[m + 1].to = t.env
      BY <1>3, <1>5 DEF r
    <3> QED BY <1>3, <1>4, <1>11, <2>3, <3>1, <3>2
  <2>4. CASE i \in 2..n
    <3>1. i \in 1..n /\ i - 1 \in 1..n
      BY <1>1, <2>4
    <3>2. /\ history[i].kind = "transition" /\ history[i].from = history[i - 1].env
          /\ i < n /\ history[i + 1].kind = "boot" /\ history[i + 1].env = history[i].env
          /\ \E k \in 1..m : rotations[k].pre = history[i - 1].mac /\ rotations[k].to = history[i].env
      BY <2>4, <3>1 DEF Chain, Turned
    <3>3. i + 1 \in 1..n /\ i < n + 2
      BY <1>1, <3>1, <3>2
    <3> QED BY <1>11, <3>1, <3>2, <3>3
  <2> QED BY <2>1, <2>2, <2>3, <2>4
<1>13. Witnessed'
  <2>0. ASSUME NEW k \in 1..m PROVE \E j \in 1..(n - 1) : rotations'[k].pre = history[j].mac
    <3>1. \E j \in 1..(n - 1) : rotations[k].pre = history[j].mac
      BY DEF Chain, Witnessed
    <3>2. rotations'[k] = rotations[k]
      OBVIOUS
    <3> QED BY <3>1, <3>2
  <2>1. ASSUME NEW k \in 1..(m + 1)
        PROVE  \E j \in 1..(n + 1) : rotations'[k].pre = history'[j].mac
    <3>1. CASE k = m + 1
      <4>1. n \in 1..(n + 1)
        BY <1>1
      <4> QED BY <1>5, <1>9, <3>1, <4>1 DEF r
    <3>2. CASE k \in 1..m
      <4>1. PICK j \in 1..(n - 1) : rotations'[k].pre = history[j].mac
        BY <2>0, <3>2
      <4>2. j \in 1..n /\ j \in 1..(n + 1)
        BY <1>1
      <4> QED BY <4>1, <4>2
    <3> QED BY <1>8, <3>1, <3>2
  <2>2. ASSUME NEW k \in 1..m PROVE rotations'[k].pre # r.pre
    <3>1. PICK j \in 1..(n - 1) : rotations'[k].pre = history[j].mac
      BY <2>0
    <3>2. j \in 1..n /\ j # n
      BY <1>1
    <3>3. history[j].mac # history[n].mac
      BY <1>6, <1>8, <3>2, MacsDiffer
    <3> QED BY <1>5, <3>1, <3>3
  <2>3. ASSUME NEW k \in 1..(m + 1), NEW l \in 1..(m + 1), rotations'[k].pre = rotations'[l].pre
        PROVE  k = l
    <3>1. CASE k \in 1..m /\ l \in 1..m
      BY <2>3, <3>1 DEF Chain, Witnessed
    <3> QED BY <1>8, <2>2, <2>3, <3>1 DEF r
  <2>4. Len(rotations') = m + 1 /\ Len(history') - 1 = n + 1
    BY <1>1
  <2>5. \A k \in 1..Len(rotations') : \E j \in 1..(Len(history') - 1) : rotations'[k].pre = history'[j].mac
    BY <2>1, <2>4, Zenon
  <2>6. \A k, l \in 1..Len(rotations') : rotations'[k].pre = rotations'[l].pre => k = l
    BY <2>3, <2>4, Zenon
  <2> QED BY <2>5, <2>6, Zenon DEF Witnessed
<1>14. Transitions(history') = Transitions(history) \cup {n + 1} /\ n + 1 \notin Transitions(history)
  <2>1. ASSUME NEW i \in 1..(n + 2) PROVE i \in Transitions(history') <=> i \in Transitions(history) \cup {n + 1}
    <3>1. CASE i = n + 1
      BY <1>1, <1>3, <3>1 DEF Transitions, t
    <3>2. CASE i = n + 2
      BY <1>1, <1>4, <3>2 DEF Transitions, b
    <3>3. CASE i \in 1..n
      BY <1>1, <3>3 DEF Transitions
    <3> QED BY <1>8, <3>1, <3>2, <3>3
  <2>2. /\ Transitions(history) \subseteq 1..n /\ Transitions(history') \subseteq 1..(n + 2)
        /\ 1..n \subseteq 1..(n + 2) /\ n + 1 \in 1..(n + 2) /\ n + 1 \notin 1..n
    BY <1>1 DEF Transitions
  <2> QED BY <2>1, <2>2
<1>15. Len(rotations') = Cardinality(Transitions(history'))
  <2>1. IsFiniteSet(1..n)
    BY <1>1, FS_Interval
  <2>2. IsFiniteSet(Transitions(history))
    BY <2>1, FS_Subset DEF Transitions
  <2>3. Cardinality(Transitions(history')) = Cardinality(Transitions(history)) + 1
    BY <1>14, <2>2, FS_AddElement
  <2> QED BY <2>3 DEF Chain
<1>16. ASSUME NEW i \in 1..(n + 2), history'[i].env = "live", history'[1].env # "live"
       PROVE  \E j \in 1..i : history'[j].env = "paper"
  <2>1. CASE i \in 1..n
    <3>1. 1 \in 1..n
      BY <1>1
    <3>2. PICK j \in 1..i : history[j].env = "paper"
      BY <1>16, <2>1, <3>1 DEF Chain
    <3>3. j \in 1..n
      BY <1>1, <2>1
    <3> QED BY <3>2, <3>3
  <2>2. CASE i \in {n + 1, n + 2}
    <3>1. proc[e].env = "live"
      BY <1>3, <1>4, <1>16, <2>2 DEF t, b
    <3>2. n \in 1..i
      BY <1>1, <2>2
    <3> QED BY <1>7, <1>9, <3>1, <3>2
  <2> QED BY <1>8, <2>1, <2>2
<1> QED BY <1>10, <1>12, <1>13, <1>15, <1>16 DEF Chain

LEMMA CountedEmpty ==
    ASSUME nextSeq' \in Nat, damage' \in 0..MaxDamage,
           Len(history') + Len(rotations') \in Nat, Len(history') + Len(rotations') < nextSeq',
           \A f \in Engines : Len(proc'[f].tx.hist) = 0 /\ Len(proc'[f].tx.rot) = 0
    PROVE  Counted'
<1> DEFINE q == Len(history') + Len(rotations')
<1>1. ASSUME NEW f \in Engines
      PROVE  /\ Len(proc'[f].tx.hist) \in Nat /\ Len(proc'[f].tx.rot) \in Nat
             /\ q + Len(proc'[f].tx.hist) + Len(proc'[f].tx.rot) < nextSeq'
  <2> DEFINE a == Len(proc'[f].tx.hist)
             c == Len(proc'[f].tx.rot)
  <2>1. a = 0 /\ c = 0 /\ q \in Nat /\ q < nextSeq'
    OBVIOUS
  <2> SUFFICES a \in Nat /\ c \in Nat /\ q + a + c < nextSeq'
    OBVIOUS
  <2> HIDE DEF a, c, q
  <2> QED BY <2>1
<1> QED BY <1>1 DEF Counted

\* The transaction becomes part of the chains, whoever waited for the lock may have it.
LEMMA BootCommits ==
    ASSUME BootInv, NEW e \in Engines, BP!Commit(e)
    PROVE  BootInv'
<1> DEFINE n == Len(history)
           m == Len(rotations)
           h == proc[e].tx.hist
           g == proc[e].tx.rot
<1>1. /\ proc[e].pc = "commit" /\ history' = history \o h /\ rotations' = rotations \o g
      /\ Shaped /\ Numbered /\ Pending(e) /\ lock = e /\ UNCHANGED <<nextSeq, damage>> /\ nextSeq \in Nat
  BY DEF BP!Commit, BootInv, Locked, Held, Counted
<1>2. /\ Shaped' /\ proc'[e].pc = "permissions" /\ proc'[e].tx.hist = <<>> /\ proc'[e].tx.rot = <<>>
      /\ \A f \in Engines \ {e} : proc'[f] = proc[f]
  BY <1>1 DEF BP!Commit, Shaped, BP!NoTx
<1>3. lock' = None
  BY <1>1 DEF BP!Commit, BP!LeavesLock
<1>4. n \in Nat /\ m \in Nat /\ ASeq(history) /\ ASeq(rotations)
  BY <1>1, SeqBasics DEF Numbered
<1>5. ASSUME NEW f \in Engines
      PROVE  proc'[f].pc \notin Held /\ proc'[f].tx.hist = <<>> /\ proc'[f].tx.rot = <<>>
  <2>1. CASE f = e
    BY <1>2, <2>1 DEF Held
  <2>2. CASE f # e
    <3>1. proc'[f] = proc[f] /\ proc[f].pc \notin Held
      BY <1>1, <1>2, <2>2 DEF BootInv, Locked
    <3> QED BY <3>1 DEF BootInv, Pending, Held
  <2> QED BY <2>1, <2>2
<1>6. Locked'
  BY <1>3, <1>5 DEF Locked
<1>7. ASSUME NEW f \in Engines PROVE Pending(f)'
  BY <1>5 DEF Pending, Held
<1>8. damage # 1
  BY <1>1 DEF BootInv, Tampered, Held
<1>9. CASE Same(e) /\ BootedOnly(e) /\ g = <<>>
  <2>1. PICK s \in Nat : Fresh(s) /\ h = <<BootRow(e, s, BP!TipMac(history))>>
    BY <1>9 DEF BootedOnly
  <2> DEFINE b == BootRow(e, s, BP!TipMac(history))
  <2>2. ASeq(<<b>>) /\ Len(<<b>>) = 1 /\ <<b>>[1] = b /\ ASeq(<<>>) /\ Len(<<>>) = 0
    <3> HIDE DEF b
    <3> QED BY SeqShort
  <2>3. /\ DOMAIN b = {"seq", "kind", "env", "from", "prev", "mac"} /\ b.seq = s
    BY RowIs DEF BootRow
  <2>4. h = <<b>> /\ Len(h) = 1 /\ Len(g) = 0
    BY <1>9, <2>1, <2>2
  <2> HIDE DEF b
  <2>5. /\ ASeq(history') /\ Len(history') = n + 1
        /\ \A i \in 1..n : history'[i] = history[i]
        /\ history'[n + 1] = b
    <3>1. 1 \in 1..Len(<<b>>)
      BY <2>2
    <3> QED BY <1>1, <1>4, <2>2, <2>4, <3>1, SeqJoin
  <2>6. /\ ASeq(rotations') /\ Len(rotations') = m
        /\ \A k \in 1..m : rotations'[k] = rotations[k]
    BY <1>1, <1>4, <1>9, <2>2, SeqJoin
  <2>7. Numbered'
    <3>1. ASSUME NEW i \in 1..(n + 1)
          PROVE  /\ DOMAIN history'[i] = {"seq", "kind", "env", "from", "prev", "mac"}
                 /\ history'[i].seq \in Nat /\ history'[i].seq < nextSeq
                 /\ \A j \in 1..(n + 1) : i < j => history'[i].seq < history'[j].seq
      <4>1. \A j \in 1..(n + 1) : j \in 1..n \/ j = n + 1
        BY <1>4
      <4>2. ASSUME NEW j \in 1..(n + 1), i < j PROVE i \in 1..n
        BY <1>4, <4>2
      <4> QED BY <1>1, <2>1, <2>3, <2>5, <4>1, <4>2 DEF Numbered, Fresh
    <3> QED BY <1>1, <2>5, <2>6, <3>1 DEF Numbered
  <2>8. damage' = 0 => Chain'
    <3> SUFFICES ASSUME damage = 0 PROVE Chain'
      BY <1>1
    <3>1. Chain
      BY DEF BootInv
    <3>2. history'[n + 1] = BootRow(e, s, BP!TipMac(history))
      BY <2>5 DEF b
    <3> QED BY <1>1, <1>9, <2>1, <2>5, <2>6, <3>1, <3>2, ChainGrowsSame
  <2>9. n + 1 + m < nextSeq
    <3> DEFINE a == Len(h)
               c == Len(g)
    <3>1. n + m + a + c < nextSeq
      BY <1>1 DEF BootInv, Counted
    <3>2. a = 1 /\ c = 0
      BY <2>4
    <3> HIDE DEF a, c, n, m
    <3> QED BY <1>1, <1>4, <3>1, <3>2
  <2>10. Counted'
    <3>1. \A f \in Engines : Len(proc'[f].tx.hist) = 0 /\ Len(proc'[f].tx.rot) = 0
      BY <1>5, <2>2
    <3>2. Len(history') + Len(rotations') < nextSeq' /\ Len(history') + Len(rotations') \in Nat
      BY <1>1, <1>4, <2>5, <2>6, <2>9
    <3>3. damage' \in 0..MaxDamage
      BY <1>1 DEF BootInv, Counted
    <3> QED BY <1>1, <3>1, <3>2, <3>3, CountedEmpty
  <2> QED BY <1>1, <1>2, <1>6, <1>7, <1>8, <2>7, <2>8, <2>10 DEF BootInv
<1>10. CASE Change(e) /\ TurnedAndBooted(e) /\ \E s \in Nat : g = <<WitnessRow(e, s)>>
  <2>1. PICK s \in Nat, u \in Nat : /\ Fresh(s) /\ Fresh(u) /\ s < u
                                   /\ h = <<TurnRow(e, s), BootRow(e, u, TurnRow(e, s).mac)>>
    BY <1>10 DEF TurnedAndBooted
  <2>0. PICK w \in Nat : g = <<WitnessRow(e, w)>>
    BY <1>10
  <2> DEFINE t == TurnRow(e, s)
             b == BootRow(e, u, t.mac)
             r == WitnessRow(e, w)
  <2>2. /\ ASeq(<<t, b>>) /\ Len(<<t, b>>) = 2 /\ <<t, b>>[1] = t /\ <<t, b>>[2] = b
        /\ ASeq(<<r>>) /\ Len(<<r>>) = 1 /\ <<r>>[1] = r /\ Len(<<>>) = 0
    <3> HIDE DEF t, b, r
    <3> QED BY SeqShort
  <2>3. /\ DOMAIN b = {"seq", "kind", "env", "from", "prev", "mac"} /\ b.seq = u
        /\ DOMAIN t = {"seq", "kind", "env", "from", "prev", "mac"} /\ t.seq = s
    BY RowIs DEF BootRow, TurnRow
  <2>4. h = <<t, b>> /\ g = <<r>> /\ Len(h) = 2 /\ Len(g) = 1
    BY <2>0, <2>1, <2>2
  <2> HIDE DEF t, b, r
  <2>5. /\ ASeq(history') /\ Len(history') = n + 2
        /\ \A i \in 1..n : history'[i] = history[i]
        /\ history'[n + 1] = t /\ history'[n + 2] = b
    <3>1. 1 \in 1..Len(<<t, b>>) /\ 2 \in 1..Len(<<t, b>>)
      BY <2>2
    <3> QED BY <1>1, <1>4, <2>2, <2>4, <3>1, SeqJoin
  <2>6. /\ ASeq(rotations') /\ Len(rotations') = m + 1
        /\ \A k \in 1..m : rotations'[k] = rotations[k]
        /\ rotations'[m + 1] = r
    <3>1. 1 \in 1..Len(<<r>>)
      BY <2>2
    <3> QED BY <1>1, <1>4, <2>2, <2>4, <3>1, SeqJoin
  <2>7. Numbered'
    <3>1. ASSUME NEW i \in 1..(n + 2)
          PROVE  /\ DOMAIN history'[i] = {"seq", "kind", "env", "from", "prev", "mac"}
                 /\ history'[i].seq \in Nat /\ history'[i].seq < nextSeq
                 /\ \A j \in 1..(n + 2) : i < j => history'[i].seq < history'[j].seq
      <4>1. \A j \in 1..(n + 2) : j \in 1..n \/ j = n + 1 \/ j = n + 2
        BY <1>4
      <4>2. ASSUME NEW j \in 1..(n + 2), i < j PROVE i \in 1..n \/ (i = n + 1 /\ j = n + 2)
        BY <1>4, <4>2
      <4> QED BY <1>1, <2>1, <2>3, <2>5, <4>1, <4>2 DEF Numbered, Fresh
    <3> QED BY <1>1, <2>5, <2>6, <3>1 DEF Numbered
  <2>8. damage' = 0 => Chain'
    <3> SUFFICES ASSUME damage = 0 PROVE Chain'
      BY <1>1
    <3>1. Chain
      BY DEF BootInv
    <3>2. /\ history'[n + 1] = TurnRow(e, s) /\ history'[n + 2] = BootRow(e, u, TurnRow(e, s).mac)
          /\ rotations'[m + 1] = WitnessRow(e, w)
      BY <2>5, <2>6 DEF t, b, r
    <3> QED BY <1>1, <1>10, <2>5, <2>6, <3>1, <3>2, ChainGrowsTurned
  <2>9. n + 2 + (m + 1) < nextSeq
    <3> DEFINE a == Len(h)
               c == Len(g)
    <3>1. n + m + a + c < nextSeq
      BY <1>1 DEF BootInv, Counted
    <3>2. a = 2 /\ c = 1
      BY <2>4
    <3> HIDE DEF a, c, n, m
    <3> QED BY <1>1, <1>4, <3>1, <3>2
  <2>10. Counted'
    <3>1. \A f \in Engines : Len(proc'[f].tx.hist) = 0 /\ Len(proc'[f].tx.rot) = 0
      BY <1>5, <2>2
    <3>2. Len(history') + Len(rotations') < nextSeq' /\ Len(history') + Len(rotations') \in Nat
      BY <1>1, <1>4, <2>5, <2>6, <2>9
    <3>3. damage' \in 0..MaxDamage
      BY <1>1 DEF BootInv, Counted
    <3> QED BY <1>1, <3>1, <3>2, <3>3, CountedEmpty
  <2> QED BY <1>1, <1>2, <1>6, <1>7, <1>8, <2>7, <2>8, <2>10 DEF BootInv
<1> QED BY <1>1, <1>9, <1>10 DEF Pending

\* A row is altered while nobody holds the lock: its signature no longer fits.
LEMMA BootDamaged ==
    ASSUME BootInv, NEW i \in DOMAIN history, NEW env \in BP!Envs, BP!Damage(i, env)
    PROVE  BootInv' /\ Len(history') = Len(history)
<1> DEFINE n == Len(history)
<1>1. /\ lock = None /\ damage' = damage + 1 /\ damage < MaxDamage /\ history[i].env # env
      /\ history' = [history EXCEPT ![i].env = env]
      /\ UNCHANGED <<rotations, nextSeq, lock, proc>>
  BY DEF BP!Damage
<1>2. n \in Nat /\ DOMAIN history = 1..n /\ ASeq(history)
  BY SeqBasics DEF BootInv, Numbered
<1>3. /\ DOMAIN history' = 1..n
      /\ \A j \in 1..n : j # i => history'[j] = history[j]
      /\ history'[i] = [history[i] EXCEPT !.env = env]
  BY <1>1, <1>2
<1>4. ASeq(history') /\ Len(history') = n
  <2> DEFINE S == {history[j] : j \in DOMAIN history} \cup {[history[i] EXCEPT !.env = env]}
  <2>1. history \in Seq(S)
    BY <1>2 DEF ASeq
  <2> HIDE DEF S
  <2>2. [history EXCEPT ![i] = [history[i] EXCEPT !.env = env]] \in Seq(S)
        /\ Len([history EXCEPT ![i] = [history[i] EXCEPT !.env = env]]) = n
    <3>1. [history[i] EXCEPT !.env = env] \in S
      BY DEF S
    <3> HIDE DEF n
    <3> QED BY <1>2, <2>1, <3>1, ExceptSeq DEF n
  <2>3. history' = [history EXCEPT ![i] = [history[i] EXCEPT !.env = env]]
    BY <1>1
  <2> QED BY <2>2, <2>3, SeqOf
<1>5. \A e \in Engines : proc[e].pc \notin Held
  BY <1>1, BootAssumption DEF BootInv, Locked, BP!ConstantsOK
<1>6. Shaped' /\ Locked'
  BY <1>1 DEF BootInv, Shaped, Locked
<1>7. Counted'
  <2>1. damage' \in 0..MaxDamage
    BY <1>1, BootAssumption DEF BootInv, Counted, BP!ConstantsOK
  <2> QED BY <1>1, <1>4, <2>1 DEF BootInv, Counted
<1>8. \A j \in 1..n : DOMAIN history'[j] = DOMAIN history[j] /\ history'[j].seq = history[j].seq
  <2>1. "env" \in DOMAIN history[i] /\ "seq" \in DOMAIN history[i]
    BY <1>2 DEF BootInv, Numbered
  <2> QED BY <1>3, <2>1
<1>9. Numbered'
  <2>1. Numbered
    BY DEF BootInv
  <2> QED BY <1>1, <1>4, <1>8, <2>1 DEF Numbered
<1>10. ASSUME NEW e \in Engines PROVE Pending(e)'
  BY <1>1, <1>5 DEF BootInv, Pending, Held
<1>11. damage' # 0
  BY <1>1 DEF BootInv, Counted
<1>12. damage' = 1 => Tampered'
  <2> SUFFICES ASSUME damage' = 1 PROVE Tampered'
    OBVIOUS
  <2>1. damage = 0
    BY <1>1 DEF BootInv, Counted
  <2>2. ~Unsigned(history[i])
    BY <1>2, <2>1, SoundIs DEF BootInv, Chain, BP!Sound, Numbered
  <2>3. Unsigned(history'[i])
    <3>1. DOMAIN history[i] = {"seq", "kind", "env", "from", "prev", "mac"}
      BY <1>2 DEF BootInv, Numbered
    <3>2. /\ history'[i].env = env /\ history'[i].mac = history[i].mac /\ history'[i].seq = history[i].seq
          /\ history'[i].kind = history[i].kind /\ history'[i].from = history[i].from
          /\ history'[i].prev = history[i].prev
      BY <1>3, <3>1
    <3> QED BY <1>1, <2>2, <3>2 DEF Unsigned, BP!EncodeHistory, BP!Mac
  <2> QED BY <1>1, <1>2, <1>4, <1>5, <2>3 DEF Tampered
<1> QED BY <1>4, <1>6, <1>7, <1>9, <1>10, <1>11, <1>12 DEF BootInv

LEMMA BootStarts ==
    ASSUME BootInv, NEW e \in Engines, NEW env \in BP!Envs, NEW token, NEW goAhead, BP!Start(e, env, token, goAhead)
    PROVE  BootInv'
<1>1. /\ Shaped' /\ proc'[e].pc = "schema" /\ proc'[e].tx = BP!NoTx
      /\ \A f \in Engines \ {e} : proc'[f] = proc[f]
      /\ UNCHANGED <<history, rotations, nextSeq, lock, damage>>
  BY DEF BP!Start, BP!NoTx, BootInv, Shaped
<1>2. Locked'
  BY <1>1 DEF BootInv, Locked, Held
<1>3. proc[e].pc = "down" /\ proc[e].tx.hist = <<>> /\ proc[e].tx.rot = <<>>
  BY DEF BP!Start, BootInv, Pending
<1>4. proc'[e].tx.hist = <<>> /\ proc'[e].tx.rot = <<>>
  BY <1>1 DEF BP!NoTx
<1>5. Pending(e)'
  BY <1>1, <1>4 DEF Pending
<1>6. /\ Len(proc'[e].tx.hist) \in Nat /\ Len(proc'[e].tx.rot) \in Nat
      /\ Len(history) + Len(rotations) + Len(proc'[e].tx.hist) + Len(proc'[e].tx.rot) < nextSeq
  <2>1. /\ Len(proc[e].tx.hist) \in Nat /\ Len(proc[e].tx.rot) \in Nat
        /\ Len(history) + Len(rotations) + Len(proc[e].tx.hist) + Len(proc[e].tx.rot) < nextSeq
    BY DEF BootInv, Counted
  <2>2. proc'[e].tx.hist = proc[e].tx.hist /\ proc'[e].tx.rot = proc[e].tx.rot
    BY <1>3, <1>4, Zenon
  <2> QED BY <2>1, <2>2, Zenon
<1>7. nextSeq' \in Nat /\ nextSeq' >= nextSeq /\ nextSeq' = nextSeq
  BY <1>1 DEF BootInv, Counted
<1> QED BY <1>1, <1>2, <1>5, <1>6, <1>7, BootMoves DEF Locked, Held

\* Every step keeps the invariant, and none appends to a damaged history.
LEMMA BootStepKeeps ==
    ASSUME BootInv, BP!Next
    PROVE  BootInv' /\ BP!LeavesDamaged
<1>1. ASSUME NEW e \in Engines, NEW env \in BP!Envs, NEW token, NEW goAhead, BP!Start(e, env, token, goAhead)
      PROVE  BootInv' /\ BP!LeavesDamaged
  BY <1>1, BootStarts DEF BP!Start, BP!LeavesDamaged
<1>2. ASSUME NEW e \in Engines, BP!SchemaGate(e) PROVE BootInv' /\ BP!LeavesDamaged
  BY <1>2, BootPasses, BootDies DEF BP!SchemaGate, BP!SchemaRefused, BP!LeavesDamaged
<1>3. ASSUME NEW e \in Engines, BP!AcquireBootAdvisoryLock(e) PROVE BootInv' /\ BP!LeavesDamaged
  BY <1>3, BootPasses DEF BP!AcquireBootAdvisoryLock, BP!LockFree, BP!LeavesDamaged
<1>4. ASSUME NEW e \in Engines, BP!ReadTip(e) PROVE BootInv' /\ BP!LeavesDamaged
  BY <1>4, BootReadsTip DEF BP!ReadTip, BP!AbortSecurityCritical, BP!LeavesDamaged
<1>5. ASSUME NEW e \in Engines, BP!AppendTransition(e) PROVE BootInv' /\ BP!LeavesDamaged
  BY <1>5, BootAppendsTurn DEF BP!AppendTransition, BP!LeavesDamaged
<1>6. ASSUME NEW e \in Engines, BP!AppendBoot(e) PROVE BootInv' /\ BP!LeavesDamaged
  BY <1>6, BootAppendsBoot DEF BP!AppendBoot, BP!LeavesDamaged
<1>7. ASSUME NEW e \in Engines, BP!AppendRotation(e) PROVE BootInv' /\ BP!LeavesDamaged
  BY <1>7, BootAppendsWitness DEF BP!AppendRotation, BP!LeavesDamaged
<1>8. ASSUME NEW e \in Engines, BP!Commit(e) PROVE BootInv' /\ BP!LeavesDamaged
  <2>1. damage # 1
    BY <1>8 DEF BP!Commit, BootInv, Tampered, Held
  <2> QED BY <1>8, <2>1, BootCommits DEF BP!LeavesDamaged
<1>9. ASSUME NEW e \in Engines, BP!KeyPermissions(e) PROVE BootInv' /\ BP!LeavesDamaged
  BY <1>9, BootPasses, BootDies DEF BP!KeyPermissions, BP!LeavesDamaged
<1>10. ASSUME NEW e \in Engines, BP!RestoreHalt(e) PROVE BootInv' /\ BP!LeavesDamaged
  BY <1>10, BootPasses, BootDies DEF BP!RestoreHalt, BP!LeavesDamaged
<1>11. ASSUME NEW e \in Engines, BP!RunPipeline(e) PROVE BootInv' /\ BP!LeavesDamaged
  BY <1>11, BootPasses DEF BP!RunPipeline, BP!LeavesDamaged
<1>12. ASSUME NEW e \in Engines, BP!Crash(e) PROVE BootInv' /\ BP!LeavesDamaged
  BY <1>12, BootDies DEF BP!Crash, BP!CrashLock, BP!LeavesDamaged
<1>13. ASSUME NEW i \in DOMAIN history, NEW env \in BP!Envs, BP!Damage(i, env) PROVE BootInv' /\ BP!LeavesDamaged
  BY <1>13, BootDamaged DEF BP!Damage, BP!LeavesDamaged
<1> QED
  BY <1>1, <1>2, <1>3, <1>4, <1>5, <1>6, <1>7, <1>8, <1>9, <1>10, <1>11, <1>12, <1>13 DEF BP!Next, BP!BootStep

LEMMA BootQuiet ==
    ASSUME BootInv, UNCHANGED BP!vars
    PROVE  BootInv'
<1>1. UNCHANGED <<history, rotations, nextSeq, lock, proc, damage>>
  BY DEF BP!vars
<1>2. Shaped' /\ Locked' /\ Counted' /\ Numbered'
  BY <1>1 DEF BootInv, Shaped, Locked, Counted, Numbered
<1>3. (damage' = 0 => Chain') /\ (damage' = 1 => Tampered')
  BY <1>1 DEF BootInv, Chain, BP!Sound, Turned, Witnessed, Transitions, Tampered, Unsigned
<1>4. ASSUME NEW e \in Engines PROVE Pending(e)'
  <2>1. Pending(e)
    BY DEF BootInv
  <2> QED BY <1>1, <2>1 DEF Pending, Same, Change, TurnedOnly, BootedOnly, TurnedAndBooted, Fresh,
                            TurnRow, BootRow, WitnessRow, BP!TipMac, BP!Last, BP!Authorized
<1> QED BY <1>1, <1>2, <1>3, <1>4 DEF BootInv

BootPart == part = "boot" => BootInv

LEMMA BootInitial == Init => BootPart
BY BootInitially DEF Init, BootPart

LEMMA BootStays == BootPart /\ [Next]_vars => BootPart'
<1> SUFFICES ASSUME BootPart, [Next]_vars, part' = "boot" PROVE BootInv'
  BY DEF BootPart
<1>1. CASE Next
  <2>1. part = "boot" /\ BP!Next
    BY <1>1 DEF Next
  <2> QED BY <2>1, BootStepKeeps DEF BootPart
<1>2. CASE UNCHANGED vars
  <2>1. part = "boot" /\ UNCHANGED BP!vars
    BY <1>2 DEF vars
  <2> QED BY <2>1, BootQuiet DEF BootPart
<1> QED BY <1>1, <1>2

\* Engines that cold-start together, lose sequence numbers and die inside the boot transaction leave
\* chains the next boot verifies; a change of environment stands with its boot row and exactly one
\* rotation row; LIVE came through PAPER (BootModeChainService.runBootSequence).
THEOREM BootIsSound == Spec => []BootSound
<1>1. ASSUME BootPart PROVE BootSound
  <2> SUFFICES ASSUME part = "boot", BootInv
               PROVE  BP!TypeOK /\ BP!ChainsVerify /\ BP!TransitionsWitnessed /\ BP!LiveCameThroughPaper
    BY <1>1 DEF BootPart, BootSound
  <2> USE DEF BootInv
  <2>1. BP!TypeOK
    BY DEF BP!TypeOK, Shaped, Locked, Counted
  <2>2. BP!ChainsVerify
    BY DEF BP!ChainsVerify, Chain
  <2>3. DOMAIN history = 1..Len(history) /\ DOMAIN rotations = 1..Len(rotations)
    BY SeqBasics DEF Numbered
  <2>4. BP!LiveCameThroughPaper
    BY <2>3 DEF BP!LiveCameThroughPaper, Chain
  <2>5. BP!TransitionsWitnessed
    <3> SUFFICES ASSUME damage = 0 PROVE BP!TransitionsWitnessed
      BY DEF BP!TransitionsWitnessed
    <3>1. Len(rotations) = BP!Cardinality({i \in DOMAIN history : history[i].kind = "transition"})
      BY <2>3 DEF Chain, Transitions, BP!Cardinality, Cardinality
    <3>2. ASSUME NEW i \in 2..Len(history), history[i].env # history[i - 1].env
          PROVE  BP!Cardinality({k \in DOMAIN rotations :
                                    /\ rotations[k].pre = history[i - 1].mac
                                    /\ rotations[k].to = history[i].env}) = 1
      <4> DEFINE W == {k \in DOMAIN rotations :
                          /\ rotations[k].pre = history[i - 1].mac
                          /\ rotations[k].to = history[i].env}
      <4>1. PICK k \in 1..Len(rotations) : rotations[k].pre = history[i - 1].mac /\ rotations[k].to = history[i].env
        BY <3>2 DEF Chain, Turned
      <4>2. W = {k}
        BY <4>1, <2>3 DEF Chain, Witnessed
      <4> HIDE DEF W
      <4>3. Cardinality(W) = 1
        BY <4>2, FS_Singleton
      <4>4. BP!Cardinality(W) = 1
        BY <4>3 DEF BP!Cardinality, Cardinality
      <4> QED BY <4>4 DEF W
    <3> QED BY <3>1, <3>2 DEF BP!TransitionsWitnessed, Chain, Turned
  <2> QED BY <2>1, <2>2, <2>4, <2>5
<1> QED BY <1>1, BootInitial, BootStays, PTL DEF Spec

-----------------------------------------------------------------------------
(* The protective orders.                                                  *)

Attaching == {"sl", "tp", "attached", "fallback", "saved"}

\* What stands in for a row's protection at every step, while none of the known gaps has opened: the
\* column says which of the two watches, and both orders rest where it says the exchange does. A refused
\* unwind is the one gap a boot closes, so what the orders say does not wait for it.
GuardedInv ==
    /\ row \in PR!States \ {"closing"} /\ typ \in {"local", "exchange"} /\ exec \in Attaching \cup {"idle", "filled", "unwind"}
    /\ exec # "idle" => engine = "up"
    /\ exec \in (Attaching \ {"saved"}) \cup {"unwind"} => typ = "local"
    /\ gaps \subseteq {"unwound"} =>
          /\ exec = "tp" /\ live => "sl" \in resting
          /\ (exec = "attached" \/ typ = "exchange") /\ live => PR!Covered
    /\ gaps = {} /\ engine = "up" /\ typ = "local" /\ exec # "unwind" =>
          (row \in {"pending_open", "open", "closing"} \/ (exec \in Attaching /\ row \in PR!Alive) => armed)
    /\ typ = "exchange" => row # "none"

LEMMA GuardedInitially == PR!Init => GuardedInv
BY DEF PR!Init, GuardedInv, Attaching, PR!States, PR!Alive

LEMMA GuardedStep == GuardedInv /\ PR!Next => GuardedInv'
<1> SUFFICES ASSUME GuardedInv, PR!Next PROVE GuardedInv'
  OBVIOUS
<1> USE DEF GuardedInv, Attaching, PR!States, PR!Alive, PR!Covered, PR!Both
<1>1. CASE PR!Executor
  <2>1. CASE PR!CreatePositionFromFill
    BY <2>1 DEF PR!CreatePositionFromFill
  <2>6. CASE PR!EmitSyntheticClose
    BY <2>6 DEF PR!EmitSyntheticClose
  <2>2. CASE PR!SubmitProtective("sl", "tp")
    BY <2>2 DEF PR!SubmitProtective
  <2>3. CASE PR!SubmitProtective("tp", "attached")
    BY <2>3 DEF PR!SubmitProtective
  <2>4. CASE PR!ApplyProtectiveAttachResult
    BY <2>4 DEF PR!ApplyProtectiveAttachResult
  <2>5. CASE PR!OpenRow
    BY <2>5 DEF PR!OpenRow
  <2> QED BY <1>1, <2>1, <2>2, <2>3, <2>4, <2>5, <2>6 DEF PR!Executor
<1>2. CASE PR!Pass
  <2>1. CASE PR!FetchExchangePositions \/ PR!FetchOpenOrders \/ PR!LoadNonClosedPositions
    BY <2>1 DEF PR!FetchExchangePositions, PR!FetchOpenOrders, PR!LoadNonClosedPositions, PR!PassStep
  <2>2. CASE PR!HandleExchangeNotInDb \/ PR!FlattenAdopted
    BY <2>2 DEF PR!HandleExchangeNotInDb, PR!FlattenAdopted, PR!PassStep
  <2>3. CASE PR!HandleDbOpenNotOnExchange
    BY <2>3 DEF PR!HandleDbOpenNotOnExchange, PR!PassStep
  <2>4. CASE PR!HandleProtectiveOrderDrift
    BY <2>4 DEF PR!HandleProtectiveOrderDrift, PR!PassStep
  <2>5. CASE PR!HandleUnknownIntentOutcome
    BY <2>5 DEF PR!HandleUnknownIntentOutcome, PR!PassStep, PR!Survivor
  <2> QED BY <1>2, <2>1, <2>2, <2>3, <2>4, <2>5 DEF PR!Pass
<1>3. CASE PR!Recover
  <2>1. CASE PR!Boot
    BY <2>1 DEF PR!Boot
  <2>2. CASE PR!Phase4cRearmLocalMonitor
    <3>1. exec = "idle" /\ UNCHANGED <<row, typ, live, resting, exec>> /\ engine' = "up" /\ gaps' = gaps \ {"unwound"}
      BY <2>2 DEF PR!Phase4cRearmLocalMonitor
    <3>2. armed' = PR!ShouldRearm
      BY <2>2 DEF PR!Phase4cRearmLocalMonitor
    <3>3. (typ = "local" /\ row \in {"pending_open", "open", "closing"}) => armed'
      BY <3>2 DEF PR!ShouldRearm
    <3> QED BY <3>1, <3>3
  <2> QED BY <1>3, <2>1, <2>2 DEF PR!Recover
<1>4. CASE PR!Environment
  <2>1. CASE PR!EntryFills \/ PR!ForeignPosition
    BY <2>1 DEF PR!EntryFills, PR!ForeignPosition
  <2>2. CASE PR!IntentUnknown \/ PR!LocalStop \/ PR!SweepOrphanedPendingOpen
    BY <2>2 DEF PR!IntentUnknown, PR!LocalStop, PR!SweepOrphanedPendingOpen
  <2>3. CASE PR!ExchangeStop \/ PR!ExecutorFlattens
    BY <2>3 DEF PR!ExchangeStop, PR!ExecutorFlattens
  <2>4. CASE PR!ExchangeDropsOrder
    BY <2>4 DEF PR!ExchangeDropsOrder
  <2>5. CASE PR!Halt \/ PR!Resume \/ PR!Crash
    BY <2>5 DEF PR!Halt, PR!Resume, PR!Crash
  <2> QED BY <1>4, <2>1, <2>2, <2>3, <2>4, <2>5 DEF PR!Environment
<1> QED BY <1>1, <1>2, <1>3, <1>4 DEF PR!Next

LEMMA GuardedQuiet == GuardedInv /\ UNCHANGED PR!vars => GuardedInv'
BY DEF GuardedInv, PR!vars, PR!Covered, PR!Both

-----------------------------------------------------------------------------
(* The exit watchers.                                                      *)

\* While the exchange holds anything: one close at a time, and it holds the slot.
OneCloses ==
    /\ stage \in [XW!Watchers -> XW!Stages] /\ reason \in [XW!Watchers -> XW!Reasons]
    /\ \A w \in XW!Watchers : stage[w] = "idle" => reason[w] = "none"
    /\ held > 0 =>
          /\ \A w \in XW!Watchers : stage[w] # "idle" => slot
          /\ \A v, w \in XW!Watchers : (stage[v] # "idle" /\ stage[w] # "idle") => v = w
          /\ (slot /\ \A w \in XW!Watchers : stage[w] = "idle") => escalated \/ swallowed

\* What is booked, about to be booked and held makes up the position, but for the known holes.
Booking ==
    /\ held \in 0..Qty /\ pend \in 0..Qty /\ booked \in 0..Qty /\ qty \in 0..Qty
    /\ booked + pend + held <= Qty /\ (holes = {} => booked + pend + held = Qty)

Unbooked == {"filled", "saved"}

\* The row never has less than the exchange holds, also when the fill under way has been taken from it.
Owning ==
    /\ held <= qty /\ (state = "closed" => held = 0)
    /\ held > 0 =>
          /\ (\E w \in XW!Watchers : stage[w] = "filled") => held + pend <= qty
          /\ (\A w \in XW!Watchers : stage[w] \notin Unbooked) => pend = 0

\* The target counts once a price short of it was seen.
Earning == side \in XW!Sides /\ (eligible => \E p \in marks : ~XW!IsTakeProfitBreached(p))

WatchersInv == OneCloses /\ Booking /\ Owning /\ Earning

LEMMA WatchersInitially == XW!Init => WatchersInv
<1> SUFFICES ASSUME XW!Init PROVE WatchersInv
  OBVIOUS
<1>1. OneCloses
  BY DEF XW!Init, OneCloses, XW!Idle, XW!Unnamed, XW!Watchers, XW!Stages, XW!Reasons
<1>2. qty = Qty /\ held = Qty /\ pend = 0 /\ booked = 0 /\ holes = {} /\ state = "open"
  BY DEF XW!Init
<1>3. Qty \in Nat
  BY ExitAssumption DEF XW!ConstantsOK
<1>4. Booking
  BY <1>2, <1>3 DEF Booking
<1>5. Owning
  <2>1. stage \in [XW!Watchers -> {"idle"}]
    BY DEF XW!Init, XW!Idle
  <2> QED BY <1>2, <1>3, <2>1 DEF Owning
<1>6. Earning
  BY DEF XW!Init, Earning
<1> QED BY <1>1, <1>4, <1>5, <1>6 DEF WatchersInv

LEMMA OthersIdle ==
    ASSUME OneCloses, NEW w \in XW!Watchers, stage[w] # "idle", slot' => escalated' \/ swallowed',
           held' > 0 => held > 0, XW!Ends(w)
    PROVE  OneCloses'
<1>1. stage' = [stage EXCEPT ![w] = "idle"] /\ reason' = [reason EXCEPT ![w] = "none"]
  BY DEF XW!Ends
<1>2. held' > 0 => \A v \in XW!Watchers : stage'[v] = "idle"
  BY <1>1 DEF OneCloses
<1>3. stage' \in [XW!Watchers -> XW!Stages] /\ reason' \in [XW!Watchers -> XW!Reasons]
  BY <1>1 DEF OneCloses, XW!Stages, XW!Reasons
<1>4. \A v \in XW!Watchers : stage'[v] = "idle" => reason'[v] = "none"
  BY <1>1 DEF OneCloses
<1> QED BY <1>2, <1>3, <1>4 DEF OneCloses

LEMMA GoesOn ==
    ASSUME OneCloses, NEW w \in XW!Watchers, NEW s \in XW!Stages \ {"idle"}, stage[w] # "idle",
           stage' = [stage EXCEPT ![w] = s], UNCHANGED <<slot, reason>>, held' > 0 => held > 0
    PROVE  OneCloses'
BY DEF OneCloses

LEMMA TakesSlot ==
    ASSUME OneCloses, NEW w \in XW!Watchers, NEW why \in XW!Reasons, XW!CanTake(w), XW!Acquire(w, why), UNCHANGED held
    PROVE  OneCloses'
BY DEF OneCloses, XW!Acquire, XW!CanTake, XW!Stages

LEMMA Books ==
    ASSUME Booking, NEW id, XW!Book(id, pend), pend' = 0, UNCHANGED <<held, qty>>
    PROVE  Booking'
<1>1. /\ holes' = holes \cup (IF id \in used THEN {"reused"} ELSE {})
      /\ booked' = IF id \in used THEN booked ELSE booked + pend
  BY DEF XW!Book
<1>2. Qty \in Nat
  BY ExitAssumption DEF XW!ConstantsOK
<1>3. CASE id \in used
  <2>1. booked' = booked
    BY <1>1, <1>3
  <2>2. holes' # {}
    BY <1>1, <1>3
  <2> QED BY <1>2, <2>1, <2>2 DEF Booking
<1>4. CASE id \notin used
  <2>1. booked' = booked + pend
    BY <1>1, <1>4
  <2>2. holes' = holes
    BY <1>1, <1>4
  <2> QED BY <1>2, <2>1, <2>2 DEF Booking
<1> QED BY <1>3, <1>4

LEMMA Forgetting ==
    ASSUME Booking, NEW n \in 0..held, XW!Forgets(n), UNCHANGED qty
    PROVE  Booking' /\ pend' = 0 /\ (Owning /\ (state' = "closed" => state = "closed") => Owning')
<1>1. /\ held' = held - n /\ pend' = 0 /\ booked' = booked
      /\ holes' = IF pend + n > 0 THEN holes \cup {"torn"} ELSE holes
  BY DEF XW!Forgets
<1>2. Qty \in Nat
  BY ExitAssumption DEF XW!ConstantsOK
<1>3. n \in Int /\ pend \in Int /\ held \in Int /\ qty \in Int /\ n >= 0 /\ pend >= 0 /\ held >= n
  BY <1>2 DEF Booking
<1>4. ASSUME Owning, state' = "closed" => state = "closed" PROVE Owning'
  <2>1. qty' = qty /\ held <= qty /\ (state = "closed" => held = 0)
    BY <1>4 DEF Owning
  <2>2. held - n <= qty /\ (held - n) + 0 <= qty /\ (held = 0 => held - n = 0)
    BY <2>1, <1>3
  <2>4. held' = held - n /\ pend' = 0 /\ qty' = qty
    BY <2>1, <1>1
  <2>5. held' <= qty' /\ held' + pend' <= qty'
    BY ONLY <2>2, <2>4
  <2>3. held = 0 => held' = 0
    BY ONLY <2>2, <1>1, Zenon
  <2> QED BY <2>1, <2>2, <2>3, <2>5, <1>1, <1>4 DEF Owning
<1>5. ASSUME pend + n > 0 PROVE Booking'
  <2>1. holes' # {}
    BY <1>1, <1>5
  <2> QED BY <1>1, <1>2, <1>3, <2>1 DEF Booking
<1>6. ASSUME ~(pend + n > 0) PROVE Booking'
  <2>1. pend = 0 /\ n = 0 /\ holes' = holes
    BY <1>1, <1>3, <1>6
  <2> QED BY <1>1, <1>2, <1>3, <2>1 DEF Booking
<1> QED BY <1>1, <1>5, <1>6, <1>4

\* A close that moves from or to no fill leaves what the row owns alone.
LEMMA OwnsAlike ==
    ASSUME Owning, OneCloses, NEW w \in XW!Watchers, NEW s \in XW!Stages \ Unbooked, stage[w] \notin Unbooked,
           stage' = [stage EXCEPT ![w] = s], UNCHANGED <<qty, held, pend>>, state' = "closed" => held = 0
    PROVE  Owning'
<1>1. \A v \in XW!Watchers : stage'[v] = (IF v = w THEN s ELSE stage[v])
  BY DEF OneCloses
<1>2. \A v \in XW!Watchers : stage'[v] \in Unbooked <=> stage[v] \in Unbooked
  BY <1>1
<1>3. (\E v \in XW!Watchers : stage'[v] = "filled") => \E v \in XW!Watchers : stage[v] = "filled"
  BY <1>1 DEF Unbooked
<1> QED BY <1>2, <1>3 DEF Owning

LEMMA WatchersQuiet ==
    /\ OneCloses /\ UNCHANGED <<stage, reason, slot, held, escalated, swallowed>> => OneCloses'
    /\ Booking /\ UNCHANGED <<qty, held, pend, booked, holes>> => Booking'
    /\ Owning /\ UNCHANGED <<stage, state, qty, held, pend>> => Owning'
    /\ Earning /\ UNCHANGED <<side, eligible, marks>> => Earning'
    /\ Earning /\ UNCHANGED side /\ ~eligible' => Earning'
<1>1. OneCloses /\ UNCHANGED <<stage, reason, slot, held, escalated, swallowed>> => OneCloses'
  BY DEF OneCloses
<1>2. Booking /\ UNCHANGED <<qty, held, pend, booked, holes>> => Booking'
  BY DEF Booking
<1>3. Owning /\ UNCHANGED <<stage, state, qty, held, pend>> => Owning'
  BY DEF Owning
<1>4. Earning /\ UNCHANGED <<side, eligible, marks>> => Earning'
  BY DEF Earning, XW!IsTakeProfitBreached, XW!TakeProfit
<1>5. Earning /\ UNCHANGED side /\ ~eligible' => Earning'
  BY DEF Earning
<1> QED BY <1>1, <1>2, <1>3, <1>4, <1>5

\* Every step keeps the invariant, and takes a profit only when it is earned.
LEMMA WatchersStep ==
    ASSUME WatchersInv, XW!Next
    PROVE  WatchersInv' /\ XW!TakesEarned
<1> USE DEF WatchersInv, XW!row, XW!exchange, XW!ledger, XW!counts, XW!watch
<1>a. /\ "monitor" \in XW!Watchers /\ "timestop" \in XW!Watchers
      /\ {"read", "gate", "idle", "booked"} \subseteq XW!Stages \ Unbooked /\ {"filled", "saved"} \subseteq XW!Stages
      /\ "stop_loss" \in XW!Reasons /\ "take_profit" \in XW!Reasons /\ "time_stop" \in XW!Reasons
  BY DEF XW!Watchers, XW!Reasons, XW!Stages, Unbooked
<1>n. Qty \in Nat
  BY ExitAssumption DEF XW!ConstantsOK
<1>b. (stage["monitor"] = "idle" => reason["monitor"] = "none")
  BY <1>a DEF OneCloses
<1>c. ASSUME UNCHANGED reason PROVE XW!TakesEarned
  BY <1>b, <1>c DEF XW!TakesEarned
<1>d. ASSUME NEW w \in XW!Watchers, reason' = [reason EXCEPT ![w] = "none"] PROVE XW!TakesEarned
  BY <1>a, <1>b, <1>d DEF XW!TakesEarned, OneCloses
\* With a close at a stage, the others are idle while the exchange holds anything.
<1>o. ASSUME NEW w \in XW!Watchers, stage[w] # "idle", held > 0
      PROVE  \A v \in XW!Watchers \ {w} : stage[v] = "idle"
  BY <1>o DEF OneCloses
<1>1. CASE XW!Index
  BY <1>1, <1>c, WatchersQuiet DEF XW!Index
<1>2. CASE XW!Sweep
  <2>1. OneCloses' /\ Owning'
    BY <1>2, <1>a, TakesSlot, OwnsAlike DEF XW!Sweep, XW!Acquire, XW!CanTake, Owning, Unbooked
  <2>2. reason' = [reason EXCEPT !["timestop"] = "time_stop"]
    BY <1>2 DEF XW!Sweep, XW!Acquire
  <2>3. XW!TakesEarned
    BY <2>2, <1>a, <1>b DEF XW!TakesEarned, OneCloses
  <2> QED BY <1>2, <2>1, <2>3, WatchersQuiet DEF XW!Sweep
<1>3. CASE XW!Reconcile
  <2>1. CASE XW!ReconcileMissing
    <3>1. held = 0 /\ UNCHANGED <<held, qty, stage, reason, side>> /\ ~eligible'
      BY <2>1 DEF XW!ReconcileMissing, XW!StandDown
    <3>2. Booking'
      <4>1. (booked' = Qty /\ pend' = 0 /\ holes' = {}) \/ UNCHANGED <<booked, pend, holes>>
        BY <2>1 DEF XW!ReconcileMissing
      <4> QED BY <3>1, <4>1, <1>n DEF Booking
    <3>3. OneCloses' /\ Owning'
      BY <3>1 DEF OneCloses, Owning
    <3> QED BY <3>1, <3>2, <3>3, <1>c, WatchersQuiet
  <2>2. CASE XW!HandleMatchedPair
    <3>1. /\ qty' = held /\ UNCHANGED <<held, pend, booked, holes, state, stage, reason, slot, escalated, swallowed, side, eligible, marks>>
          /\ ~\E w \in XW!Watchers : stage[w] = "filled"
      BY <2>2 DEF XW!HandleMatchedPair, XW!Between
    <3>2. Booking' /\ Owning'
      BY <3>1 DEF Booking, Owning
    <3> QED BY <3>1, <3>2, <1>c, WatchersQuiet
  <2>3. CASE XW!Reopen
    <3>1. state' # "closed" /\ UNCHANGED <<qty, held, pend, booked, holes, stage, reason, slot, escalated, swallowed, side, eligible, marks>>
      BY <2>3 DEF XW!Reopen
    <3>2. Owning'
      BY <3>1 DEF Owning
    <3> QED BY <3>1, <3>2, <1>c, WatchersQuiet
  <2> QED BY <1>3, <2>1, <2>2, <2>3 DEF XW!Reconcile
<1>4. CASE XW!Rearm
  BY <1>4, <1>c, WatchersQuiet DEF XW!Rearm
<1>5. CASE XW!Crash
  <2>1. OneCloses'
    BY <1>5 DEF XW!Crash, OneCloses, XW!Idle, XW!Unnamed, XW!Stages, XW!Reasons
  <2>2. reason'["monitor"] = "none" /\ ~eligible' /\ UNCHANGED <<side, qty, state>>
    BY <1>5, <1>a DEF XW!Crash, XW!Unnamed
  <2>3. XW!TakesEarned
    BY <2>2 DEF XW!TakesEarned
  <2>4. PICK n \in 0..held : XW!Forgets(n)
    BY <1>5 DEF XW!Crash
  <2>5. Booking' /\ Owning'
    BY <2>2, <2>4, Forgetting
  <2> QED BY <2>1, <2>2, <2>3, <2>5, WatchersQuiet
<1>6. CASE XW!Tick
  BY <1>6, <1>c, WatchersQuiet DEF XW!Tick
<1>7. ASSUME NEW p \in XW!Prices, XW!PriceUpdate(p) PROVE WatchersInv' /\ XW!TakesEarned
  <2>1. Booking'
    BY <1>7, WatchersQuiet DEF XW!PriceUpdate
  <2>2. UNCHANGED <<side, armed, escalated, swallowed, held, pend, qty, state>> /\ eligible' = (armed /\ XW!EligibleAfter(p))
    BY <1>7 DEF XW!PriceUpdate
  <2>3. marks' = IF armed THEN marks \cup {p} ELSE marks
    BY <1>7 DEF XW!PriceUpdate
  <2>4. \A q : XW!IsTakeProfitBreached(q)' <=> XW!IsTakeProfitBreached(q)
    BY <2>2 DEF XW!IsTakeProfitBreached, XW!TakeProfit
  <2>5. Earning'
    BY <2>2, <2>3, <2>4 DEF Earning, XW!EligibleAfter
  <2>6. CASE XW!TimeStopTick
    <3>1. XW!CanTake("timestop") /\ XW!Acquire("timestop", "time_stop")
      BY <1>7, <2>6 DEF XW!PriceUpdate, XW!TimeStopTick
    <3>2. OneCloses' /\ Owning'
      BY <3>1, <2>2, <1>a, TakesSlot, OwnsAlike DEF XW!Acquire, XW!CanTake, Owning, Unbooked
    <3>3. XW!TakesEarned
      BY <3>1, <1>a, <1>b DEF XW!TakesEarned, OneCloses, XW!Acquire
    <3> QED BY <2>1, <2>5, <3>2, <3>3
  <2>7. CASE ~XW!TimeStopTick /\ armed /\ XW!Breach(p) # "none" /\ XW!CanTake("monitor")
    <3>1. XW!Acquire("monitor", XW!Breach(p))
      BY <1>7, <2>7 DEF XW!PriceUpdate
    <3>2. XW!Breach(p) \in XW!Reasons
      BY <1>a, <2>7 DEF XW!Breach
    <3>3. OneCloses' /\ Owning'
      BY <3>1, <3>2, <2>2, <2>7, <1>a, TakesSlot, OwnsAlike DEF XW!Acquire, XW!CanTake, Owning, Unbooked
    <3>4. XW!TakesEarned
      <4> SUFFICES ASSUME reason'["monitor"] = "take_profit" PROVE \E q \in marks' : ~XW!IsTakeProfitBreached(q)
        BY DEF XW!TakesEarned
      <4>1. XW!Breach(p) = "take_profit"
        BY <3>1, <1>a DEF XW!Acquire, OneCloses
      <4>2. XW!EligibleAfter(p) /\ XW!IsTakeProfitBreached(p)
        BY <4>1 DEF XW!Breach
      <4>3. eligible
        BY <4>2 DEF XW!EligibleAfter
      <4> QED BY <4>3, <2>3, <2>7 DEF Earning
    <3> QED BY <2>1, <2>5, <3>3, <3>4
  <2>8. CASE ~XW!TimeStopTick /\ ~(armed /\ XW!Breach(p) # "none" /\ XW!CanTake("monitor"))
    <3>1. UNCHANGED <<slot, stage, reason>>
      BY <1>7, <2>8 DEF XW!PriceUpdate, XW!NoAcquire
    <3> QED BY <3>1, <2>1, <2>2, <2>5, <1>c, WatchersQuiet
  <2> QED BY <2>6, <2>7, <2>8
<1>8. ASSUME NEW w \in XW!Watchers, XW!ReadRow(w) PROVE WatchersInv' /\ XW!TakesEarned
  <2>1. Booking' /\ Earning'
    BY <1>8, WatchersQuiet DEF XW!ReadRow
  <2>2. stage[w] = "read" /\ UNCHANGED <<held, pend, qty, state, escalated, swallowed>>
    BY <1>8 DEF XW!ReadRow
  <2>3. CASE w = "monitor" \/ XW!Candidate
    <3>1. stage' = [stage EXCEPT ![w] = "gate"] /\ UNCHANGED <<slot, reason>>
      BY <1>8, <2>3 DEF XW!ReadRow
    <3>2. OneCloses'
      BY <3>1, <2>2, <1>a, GoesOn
    <3>3. Owning'
      BY <3>1, <2>2, <1>a, OwnsAlike DEF Owning, Unbooked
    <3> QED BY <3>1, <3>2, <3>3, <2>1, <1>c
  <2>4. CASE ~(w = "monitor" \/ XW!Candidate)
    <3>1. XW!Release(w)
      BY <1>8, <2>4 DEF XW!ReadRow
    <3>2. OneCloses'
      BY <3>1, <2>2, OthersIdle DEF XW!Release
    <3>3. Owning'
      BY <3>1, <2>2, <1>a, OwnsAlike DEF XW!Release, XW!Ends, Owning, Unbooked
    <3> QED BY <3>1, <3>2, <3>3, <2>1, <1>d DEF XW!Release, XW!Ends
  <2> QED BY <2>3, <2>4
<1>9. ASSUME NEW w \in XW!Watchers, XW!Approve(w) PROVE WatchersInv' /\ XW!TakesEarned
  <2>1. Booking' /\ Earning'
    BY <1>9, WatchersQuiet DEF XW!Approve
  <2>2. /\ stage[w] = "gate" /\ stage' = [stage EXCEPT ![w] = "executor"]
        /\ UNCHANGED <<slot, reason, held, pend, qty, state>>
    BY <1>9 DEF XW!Approve
  <2>3. OneCloses'
    BY <2>2, GoesOn DEF XW!Stages
  <2>4. Owning'
    BY <2>2, OwnsAlike DEF Owning, Unbooked, XW!Stages
  <2> QED BY <2>1, <2>2, <2>3, <2>4, <1>c
<1>10. ASSUME NEW w \in XW!Watchers, XW!DryRun(w) PROVE WatchersInv' /\ XW!TakesEarned
  <2>1. Booking' /\ Earning'
    BY <1>10, WatchersQuiet DEF XW!DryRun
  <2>2. slot' = FALSE
    BY <1>10 DEF XW!DryRun, XW!Intent, XW!BreachIntent, XW!TimeStopIntent, XW!BreachFrees, XW!TimeStopFrees
  <2>3. stage[w] = "executor" /\ XW!Ends(w) /\ UNCHANGED <<held, pend, qty, state, escalated, swallowed>>
    BY <1>10 DEF XW!DryRun
  <2>4. OneCloses'
    BY <2>2, <2>3, OthersIdle
  <2>5. Owning'
    BY <2>3, <1>a, OwnsAlike DEF XW!Ends, Owning, Unbooked
  <2> QED BY <2>1, <2>3, <2>4, <2>5, <1>d DEF XW!Ends
<1>11. ASSUME NEW w \in XW!Watchers, XW!Fills(w) PROVE WatchersInv' /\ XW!TakesEarned
  <2>1. PICK n \in 1..held : XW!Sent(w, n) /\ held' = held - n /\ pend' = pend + n
    BY <1>11 DEF XW!Fills
  <2>2. /\ stage[w] = "executor" /\ stage' = [stage EXCEPT ![w] = "filled"]
        /\ UNCHANGED <<qty, state, slot, reason, booked, holes, side, eligible, marks, escalated, swallowed>>
    BY <1>11, <2>1 DEF XW!Fills, XW!Sent
  <2>3. n \in Int /\ held \in Int /\ pend \in Int /\ qty \in Int /\ booked \in Int /\ n > 0 /\ n <= held /\ held > 0
    BY <1>n, <2>1 DEF Booking
  <2>4. pend = 0
    BY <2>2, <2>3, <1>o DEF Owning, Unbooked
  <2>5. Booking'
    BY <2>1, <2>2, <2>3, <2>4, <1>n DEF Booking
  <2>6. OneCloses'
    <3>1. held' > 0 => held > 0
      BY <2>3
    <3> QED BY <3>1, <2>2, <1>a, GoesOn
  <2>7. Owning'
    <3>1. held' <= qty' /\ held' + pend' <= qty' /\ state' # "closed"
      BY <2>1, <2>2, <2>3, <2>4 DEF Owning
    <3>2. stage'[w] = "filled"
      BY <2>2 DEF OneCloses
    <3> QED BY <3>1, <3>2 DEF Owning, Unbooked
  <2> QED BY <2>2, <2>5, <2>6, <2>7, <1>c, WatchersQuiet
<1>12. ASSUME NEW w \in XW!Watchers, XW!TakeFill(w) PROVE WatchersInv' /\ XW!TakesEarned
  <2>1. /\ stage[w] = "filled" /\ stage' = [stage EXCEPT ![w] = "saved"]
        /\ UNCHANGED <<state, held, pend, slot, reason, booked, holes, side, marks, escalated, swallowed>>
    BY <1>12 DEF XW!TakeFill
  <2>2. ~eligible' \/ UNCHANGED eligible
    BY <1>12 DEF XW!TakeFill
  <2>3. qty' = IF qty <= pend THEN 0 ELSE qty - pend
    BY <1>12 DEF XW!TakeFill, XW!Closes
  <2>4. qty \in 0..Qty /\ pend \in 0..Qty /\ held \in 0..Qty
    BY DEF Booking
  <2>5. held <= qty' /\ qty' \in 0..Qty
    <3>1. held > 0 => held + pend <= qty
      BY <2>1 DEF Owning
    <3> QED BY <2>3, <2>4, <3>1, <1>n DEF Owning
  <2>6. Booking'
    BY <2>1, <2>5 DEF Booking
  <2>7. OneCloses'
    BY <2>1, <1>a, GoesOn
  <2>8. Owning'
    <3>1. \A v \in XW!Watchers : stage'[v] = IF v = w THEN "saved" ELSE stage[v]
      BY <2>1 DEF OneCloses
    <3>2. held > 0 => ~\E v \in XW!Watchers : stage'[v] = "filled"
      BY <3>1, <2>1, <1>o
    <3>3. stage'[w] \in Unbooked
      BY <3>1 DEF Unbooked
    <3> QED BY <3>2, <3>3, <2>1, <2>5 DEF Owning
  <2> QED BY <2>1, <2>2, <2>6, <2>7, <2>8, <1>c, WatchersQuiet
<1>13. ASSUME NEW w \in XW!Watchers, XW!BookFill(w) PROVE WatchersInv' /\ XW!TakesEarned
  <2>1. /\ stage[w] = "saved" /\ pend' = 0
        /\ UNCHANGED <<state, qty, held, slot, side, eligible, marks, escalated>>
    BY <1>13 DEF XW!BookFill
  <2>2. Owning'
    BY <2>1, <1>n DEF Owning, Booking
  <2>3. Earning'
    BY <2>1, WatchersQuiet
  <2>4. CASE pend > 0 /\ XW!Book(XW!Intent(w).reason, pend) /\ stage' = [stage EXCEPT ![w] = "booked"] /\ UNCHANGED <<reason, swallowed>>
    <3>1. Booking'
      BY <2>1, <2>4, Books
    <3>2. OneCloses'
      BY <2>1, <2>4, <1>a, GoesOn
    <3> QED BY <2>2, <2>3, <2>4, <3>1, <3>2, <1>c
  <2>5. CASE pend = 0 /\ XW!Ends(w) /\ swallowed' = TRUE /\ UNCHANGED <<used, booked, holes>>
    <3>1. Booking'
      BY <2>1, <2>5 DEF Booking
    <3>2. OneCloses'
      BY <2>1, <2>5, OthersIdle
    <3> QED BY <2>2, <2>3, <2>5, <3>1, <3>2, <1>d DEF XW!Ends
  <2> QED BY <1>13, <2>4, <2>5 DEF XW!BookFill
<1>14. ASSUME NEW w \in XW!Watchers, XW!Finish(w) \/ XW!Leaves(w) PROVE WatchersInv' /\ XW!TakesEarned
  <2>1. /\ stage[w] # "idle" /\ XW!Ends(w) /\ (~eligible' \/ UNCHANGED eligible)
        /\ UNCHANGED <<qty, held, pend, booked, holes, side, marks, escalated, swallowed>>
    BY <1>14 DEF XW!Finish, XW!Leaves, XW!StandDown
  <2>2. held = 0
    BY <1>14, <1>n DEF XW!Finish, XW!Leaves, Owning, Booking
  <2>3. Booking' /\ Earning'
    BY <2>1, WatchersQuiet
  <2>4. Owning'
    BY <2>1, <2>2 DEF Owning
  <2>5. OneCloses'
    <3>1. stage' \in [XW!Watchers -> XW!Stages] /\ reason' \in [XW!Watchers -> XW!Reasons]
      BY <2>1 DEF OneCloses, XW!Ends, XW!Stages, XW!Reasons
    <3>2. \A v \in XW!Watchers : stage'[v] = "idle" => reason'[v] = "none"
      BY <2>1 DEF OneCloses, XW!Ends
    <3> QED BY <2>1, <2>2, <3>1, <3>2 DEF OneCloses
  <2> QED BY <2>1, <2>3, <2>4, <2>5, <1>d DEF XW!Ends
<1>15. ASSUME NEW w \in XW!Watchers, XW!Escalates(w) PROVE WatchersInv' /\ XW!TakesEarned
  <2>1. /\ stage[w] \in {"executor", "booked"} /\ XW!Ends(w) /\ escalated' = TRUE /\ state' # "closed"
        /\ UNCHANGED <<qty, held, pend, booked, holes, side, eligible, marks>>
    BY <1>15 DEF XW!Escalates
  <2>2. OneCloses'
    BY <2>1, OthersIdle
  <2>3. Owning'
    BY <2>1, <1>a, OwnsAlike DEF XW!Ends, Unbooked
  <2> QED BY <2>1, <2>2, <2>3, <1>d, WatchersQuiet DEF XW!Ends
<1>16. ASSUME NEW w \in XW!Watchers, XW!Abort(w) PROVE WatchersInv' /\ XW!TakesEarned
  <2>1. Booking' /\ Earning'
    BY <1>16, WatchersQuiet DEF XW!Abort
  <2>2. /\ slot' = FALSE /\ XW!Ends(w) /\ stage[w] \in {"read", "gate"}
        /\ UNCHANGED <<qty, held, pend, state>>
    BY <1>16 DEF XW!Abort, XW!Freed, XW!Release
  <2>3. OneCloses'
    BY <2>2, OthersIdle
  <2>4. Owning'
    BY <2>2, <1>a, OwnsAlike DEF XW!Ends, Owning, Unbooked
  <2> QED BY <2>1, <2>2, <2>3, <2>4, <1>d DEF XW!Ends
<1>17. ASSUME NEW w \in XW!Watchers, XW!Throws(w) PROVE WatchersInv' /\ XW!TakesEarned
  <2>1. /\ stage[w] # "idle" /\ XW!Ends(w) /\ swallowed' = TRUE /\ UNCHANGED <<qty, side, marks>>
        /\ (state' = "closed" => state = "closed") /\ (~eligible' \/ UNCHANGED eligible)
    BY <1>17 DEF XW!Throws
  <2>2. PICK n \in 0..held : XW!Forgets(n)
    BY <1>17 DEF XW!Throws
  <2>3. Booking' /\ Owning'
    BY <2>1, <2>2, Forgetting
  <2>4. OneCloses'
    <3>1. held' = held - n
      BY <2>2 DEF XW!Forgets
    <3>2. held' > 0 => held > 0
      BY <3>1, <1>n DEF Booking
    <3> QED BY <2>1, <3>2, OthersIdle
  <2> QED BY <2>1, <2>3, <2>4, <1>d, WatchersQuiet DEF XW!Ends
<1> QED BY <1>1, <1>2, <1>3, <1>4, <1>5, <1>6, <1>7, <1>8, <1>9, <1>10, <1>11, <1>12, <1>13, <1>14, <1>15, <1>16, <1>17
        DEF XW!Next, XW!Closing, XW!Executes

ExitsPart == (part = "protection" => GuardedInv) /\ (part = "exits" => WatchersInv)

LEMMA ExitsInitial == Init => ExitsPart
BY GuardedInitially, WatchersInitially DEF Init, ExitsPart

LEMMA ExitsStay == ExitsPart /\ [Next]_vars => ExitsPart'
<1> SUFFICES ASSUME ExitsPart, [Next]_vars PROVE ExitsPart'
  OBVIOUS
<1>1. CASE Next
  <2>1. part' = part /\ (part = "protection" => PR!Next) /\ (part = "exits" => XW!Next)
    BY <1>1 DEF Next
  <2> QED BY <2>1, GuardedStep, WatchersStep DEF ExitsPart
<1>2. CASE UNCHANGED vars
  <2>1. part' = part /\ UNCHANGED PR!vars /\ UNCHANGED XW!vars
    BY <1>2 DEF vars
  <2>2. UNCHANGED <<stage, reason, slot, escalated, swallowed, state, qty, held, pend, booked, holes, side, eligible, marks>>
    BY <2>1 DEF XW!vars, XW!watch, XW!row, XW!exchange, XW!ledger
  <2> QED BY <2>1, <2>2, GuardedQuiet, WatchersQuiet DEF ExitsPart, WatchersInv
<1> QED BY <1>1, <1>2

\* Whatever the exchange refuses, drops or fails to answer, whatever throws between a fill and the
\* transition of its row, and wherever the process dies: a pending or open row of a live position is
\* watched by the monitor, by both exchange orders or by the unwind under way, unless one of the four
\* gaps opened; the close slot of a position the exchange holds is taken with nothing in flight only
\* after an escalation or a swallowed throw; no fill is booked twice and the transactions account for
\* what the exchange took, unless an id was used again or a ledger row was lost and not yet backfilled;
\* and a closed row is gone at the exchange (ExecutionService, ReconciliationService,
\* LocalProtectiveMonitor, PositionTimeStopEnforcer, FillAcceptanceUnwindService).
THEOREM ExitsAreSound == Spec => []ExitsSound
<1>1. ASSUME ExitsPart PROVE ExitsSound
  <2>1. GuardedInv => PR!ProtectedButForGaps
    BY DEF GuardedInv, PR!ProtectedButForGaps
  <2>2. WatchersInv => XW!SlotLeaksAreKnown /\ XW!FillsBookedOnce /\ XW!ClosedIsGone
    BY DEF WatchersInv, OneCloses, Booking, Owning, XW!SlotLeaksAreKnown, XW!InFlight, XW!FillsBookedOnce, XW!ClosedIsGone
  <2> QED BY <1>1, <2>1, <2>2 DEF ExitsPart, ExitsSound
<1> QED BY <1>1, ExitsInitial, ExitsStay, PTL DEF Spec

-----------------------------------------------------------------------------
(* The exchange client.                                                    *)

OrderCap == Capacity["orders"]
OrderRate == Capacity["orders"] \div Window

LEMMA CallConstants ==
    /\ Window \in Nat /\ Window > 0 /\ OrderCap \in Nat /\ OrderCap > 0
    /\ OrderRate \in Nat /\ OrderRate > 0 /\ OrderRate * Window = OrderCap
    /\ DefaultFreeze \in 1..FreezeCap /\ FreezeCap \in Nat
    /\ RetryAfters \subseteq Nat /\ UsedCounts \subseteq Nat
<1>1. "orders" \in EC!Classes
  BY DEF EC!Classes
<1>2. Window \in Nat /\ Window > 0 /\ OrderCap \in Nat /\ OrderCap > 0 /\ OrderCap % Window = 0
  BY <1>1, CallAssumption DEF EC!ConstantsOK, OrderCap
<1>3. OrderRate = OrderCap \div Window
  BY DEF OrderRate, OrderCap
<1>4. OrderRate \in Nat /\ OrderRate * Window = OrderCap
  BY <1>2, <1>3
<1>5. OrderRate > 0
  BY <1>2, <1>4
<1>6. DefaultFreeze \in 1..FreezeCap /\ FreezeCap \in Nat /\ RetryAfters \subseteq Nat /\ UsedCounts \subseteq Nat
  BY CallAssumption DEF EC!ConstantsOK
<1> QED BY <1>2, <1>4, <1>5, <1>6

LEMMA LessOf ==
    ASSUME NEW a \in Int, NEW b \in Int
    PROVE  /\ EC!Min({a, b}) = IF a < b THEN a ELSE b
           /\ EC!Max({a, b}) = IF a < b THEN b ELSE a
BY DEF EC!Min, EC!Max

\* Never below nothing.
LEMMA Room ==
    ASSUME NEW a \in Int, NEW h \in Int, NEW k \in Nat, h > a - k
    PROVE  (IF 0 < a - h THEN a - h ELSE 0) \in 0..k
OBVIOUS

LEMMA SeqAppend ==
    ASSUME NEW h, NEW x, ASeq(h)
    PROVE  /\ ASeq(Append(h, x)) /\ Len(Append(h, x)) = Len(h) + 1 /\ Len(h) \in Nat
           /\ \A i \in 1..Len(h) : Append(h, x)[i] = h[i]
           /\ Append(h, x)[Len(h) + 1] = x
<1> DEFINE S == {h[i] : i \in DOMAIN h} \cup {x}
<1>1. h \in Seq(S) /\ x \in S
  BY DEF ASeq
<1> HIDE DEF S
<1>2. Append(h, x) \in Seq(S)
  BY <1>1
<1>3. ASeq(Append(h, x))
  BY <1>2, SeqOf
<1> QED BY <1>1, <1>3

\* The order bucket, and what it would hold if it were refilled now.
Kept == bucket["orders"]
Level == IF Kept.tokens + (now - Kept.last) * OrderRate < OrderCap
         THEN Kept.tokens + (now - Kept.last) * OrderRate ELSE OrderCap

\* The orders let through from t to u.
Through(t, u) == {i \in 1..Len(sent) : sent[i].at \in t..u}

KeptTyped == DOMAIN Kept = {"tokens", "last"} /\ Kept.tokens \in Nat /\ Kept.last \in 0..now

CallsTyped ==
    /\ now \in Nat /\ bans \in Nat /\ currentFreeze \in 0..FreezeCap
    /\ frozenUntil # None => frozenUntil \in Int /\ frozenUntil <= now + currentFreeze
    /\ header \in UsedCounts \cup {None}
    /\ DOMAIN bucket = EC!Classes /\ KeptTyped
    /\ ASeq(sent) /\ \A i \in 1..Len(sent) : sent[i].at \in 0..now

\* Every order was paid for: from any moment on, the orders let through and the tokens still there are
\* no more than a full bucket and what has been refilled since.
Paid ==
    /\ \A t \in 0..now : Cardinality(Through(t, now)) + Level <= OrderCap + (now - t) * OrderRate
    /\ \A u \in 0..now : \A t \in 0..u : Cardinality(Through(t, u)) <= OrderCap + (u - t) * OrderRate

CallsInv == CallsTyped /\ Paid

LEMMA ThroughFinite ==
    ASSUME NEW t, NEW u, Len(sent) \in Nat
    PROVE  IsFiniteSet(Through(t, u)) /\ Cardinality(Through(t, u)) \in Nat
<1>1. IsFiniteSet(1..Len(sent))
  BY FS_Interval
<1>2. Through(t, u) \subseteq 1..Len(sent)
  BY DEF Through
<1> QED BY <1>1, <1>2, FS_Subset, FS_CardinalityType

LEMMA LevelIs ==
    ASSUME now \in Nat, KeptTyped
    PROVE  Level \in 0..OrderCap
<1>1. (now - Kept.last) * OrderRate \in Nat
  BY CallConstants DEF KeptTyped
<1> QED BY <1>1, CallConstants DEF Level, KeptTyped

LEMMA LevelIsNext ==
    ASSUME now' \in Nat, KeptTyped'
    PROVE  Level' \in 0..OrderCap
<1>1. (now' - Kept'.last) * OrderRate \in Nat
  BY CallConstants DEF KeptTyped
<1> QED BY <1>1, CallConstants DEF Level, KeptTyped

LEMMA OneMore == ASSUME NEW a \in Int, NEW r \in Int PROVE (a + 1) * r = a * r + r /\ a * r \in Int
OBVIOUS

LEMMA CallsInitially == EC!Init => CallsInv
<1> SUFFICES ASSUME EC!Init PROVE CallsInv
  OBVIOUS
<1>1. Kept = [tokens |-> OrderCap, last |-> 0] /\ DOMAIN bucket = EC!Classes
  BY DEF EC!Init, Kept, EC!Classes, OrderCap
<1>2. now = 0 /\ bans = 0 /\ currentFreeze = 0 /\ frozenUntil = None /\ header = None /\ sent = <<>>
  BY DEF EC!Init
<1>3. KeptTyped
  BY <1>1, <1>2, CallConstants DEF KeptTyped
<1>4. ASeq(sent) /\ Len(sent) = 0
  BY <1>2 DEF ASeq
<1>5. CallsTyped
  BY <1>1, <1>2, <1>3, <1>4, CallConstants DEF CallsTyped
<1>6. \A t, u : Cardinality(Through(t, u)) = 0
  <2>1. \A t, u : Through(t, u) = {}
    BY <1>4 DEF Through
  <2> QED BY <2>1, FS_EmptySet
<1>7. Level \in 0..OrderCap
  BY <1>2, <1>3, LevelIs
<1>8. \A t \in 0..now : t = 0
  BY <1>2
<1>9. Paid
  <2>1. (0 - 0) * OrderRate = 0
    BY CallConstants
  <2> QED BY <1>2, <1>6, <1>7, <1>8, <2>1, CallConstants DEF Paid
<1> QED BY <1>5, <1>9 DEF CallsInv

\* A step that sends nothing and leaves no more in the bucket.
LEMMA PaidKeeps ==
    ASSUME CallsInv, UNCHANGED <<now, sent>>, KeptTyped', Level' <= Level
    PROVE  Paid'
<1>1. \A t, u : Through(t, u)' = Through(t, u)
  BY DEF Through
<1>2. Level \in Int /\ Level' \in Int
  <2>1. now \in Nat /\ now' \in Nat /\ KeptTyped
    BY DEF CallsInv, CallsTyped
  <2> QED BY <2>1, LevelIs, LevelIsNext
<1>3. Len(sent) \in Nat
  BY DEF CallsInv, CallsTyped, ASeq
<1>4. ASSUME NEW t \in 0..now PROVE Cardinality(Through(t, now))' + Level' <= OrderCap + (now - t) * OrderRate
  <2>1. Cardinality(Through(t, now)) + Level <= OrderCap + (now - t) * OrderRate
    BY DEF CallsInv, Paid
  <2>2. Cardinality(Through(t, now)) \in Nat
    BY <1>3, ThroughFinite
  <2>3. Cardinality(Through(t, now))' = Cardinality(Through(t, now))
    BY <1>1
  <2>4. (now - t) * OrderRate \in Int /\ OrderCap \in Int
    BY CallConstants DEF CallsInv, CallsTyped
  <2> QED BY <1>2, <2>1, <2>2, <2>3, <2>4
<1>5. ASSUME NEW u \in 0..now, NEW t \in 0..u PROVE Cardinality(Through(t, u))' <= OrderCap + (u - t) * OrderRate
  BY <1>1 DEF CallsInv, Paid
<1> QED BY <1>4, <1>5 DEF Paid

\* An order takes a token.
LEMMA PaidSends ==
    ASSUME CallsInv, UNCHANGED now, NEW r, r.at = now, sent' = Append(sent, r), KeptTyped', Level' = Level - 1
    PROVE  Paid' /\ ASeq(sent') /\ \A i \in 1..Len(sent') : sent'[i].at \in 0..now
<1>0. now \in Nat /\ KeptTyped /\ ASeq(sent) /\ \A i \in 1..Len(sent) : sent[i].at \in 0..now
  BY DEF CallsInv, CallsTyped
<1>1. /\ ASeq(sent') /\ Len(sent') = Len(sent) + 1 /\ Len(sent) \in Nat
      /\ (\A i \in 1..Len(sent) : sent'[i] = sent[i]) /\ sent'[Len(sent) + 1] = r
  BY <1>0, SeqAppend
<1>2. \A i \in 1..Len(sent') : sent'[i].at \in 0..now
  BY <1>0, <1>1
<1>3. ASSUME NEW u \in 0..now, NEW t \in 0..u
      PROVE  Cardinality(Through(t, u))' <= Cardinality(Through(t, u)) + (IF u = now THEN 1 ELSE 0)
  <2>1. u # now => Through(t, u)' = Through(t, u)
    BY <1>0, <1>1 DEF Through
  <2>2. u = now => Through(t, u)' = Through(t, u) \cup {Len(sent) + 1}
    BY <1>0, <1>1 DEF Through
  <2>3. Len(sent) + 1 \notin Through(t, u)
    BY <1>1 DEF Through
  <2>4. IsFiniteSet(Through(t, u)) /\ Cardinality(Through(t, u)) \in Nat
    BY <1>1, ThroughFinite
  <2>5. Cardinality(Through(t, u) \cup {Len(sent) + 1}) = Cardinality(Through(t, u)) + 1
    BY <2>3, <2>4, FS_AddElement
  <2>6. CASE u = now
    <3>1. Cardinality(Through(t, u))' = Cardinality(Through(t, u) \cup {Len(sent) + 1})
      BY <2>2, <2>6
    <3> QED BY <2>4, <2>5, <2>6, <3>1
  <2>7. CASE u # now
    <3>1. Cardinality(Through(t, u))' = Cardinality(Through(t, u))
      BY <2>1, <2>7
    <3> QED BY <2>4, <2>7, <3>1
  <2> QED BY <2>6, <2>7
<1>4. \A t, u : Cardinality(Through(t, u)) \in Nat /\ Cardinality(Through(t, u))' \in Nat
  <2>1. \A t, u : Cardinality(Through(t, u)) \in Nat
    BY <1>1, ThroughFinite
  <2>2. Len(sent') \in Nat
    BY <1>1
  <2>3. ASSUME NEW t, NEW u PROVE Cardinality(Through(t, u))' \in Nat
    <3>1. IsFiniteSet(1..Len(sent'))
      BY <2>2, FS_Interval
    <3>2. Through(t, u)' \subseteq 1..Len(sent')
      BY DEF Through
    <3> QED BY <3>1, <3>2, FS_Subset, FS_CardinalityType
  <2> QED BY <2>1, <2>3
<1>5. Level \in 0..OrderCap
  BY <1>0, LevelIs
<1>6. ASSUME NEW t \in 0..now
      PROVE  /\ Cardinality(Through(t, now))' + Level' <= OrderCap + (now - t) * OrderRate
             /\ Cardinality(Through(t, now))' <= OrderCap + (now - t) * OrderRate
  <2> DEFINE k == Cardinality(Through(t, now))
             m == Cardinality(Through(t, now))'
             x == (now - t) * OrderRate
  <2>1. m <= k + 1
    BY <1>0, <1>3
  <2>2. k + Level <= OrderCap + x
    BY DEF CallsInv, Paid
  <2>3. k \in Nat /\ m \in Nat
    BY <1>4
  <2>4. x \in Nat
    BY <1>0, CallConstants
  <2> HIDE DEF k, m, x
  <2>5. m + Level' <= OrderCap + x /\ Level' >= -1 /\ Level' \in Int
    BY <1>5, <2>1, <2>2, <2>3, <2>4, CallConstants
  <2>6. Level' \in 0..OrderCap
    <3>1. now' \in Nat
      BY <1>0
    <3> QED BY <3>1, LevelIsNext
  <2>7. m <= OrderCap + x
    BY <2>3, <2>4, <2>5, <2>6, CallConstants
  <2> QED BY <2>5, <2>7 DEF m, x
<1>7. ASSUME NEW u \in 0..now, NEW t \in 0..u PROVE Cardinality(Through(t, u))' <= OrderCap + (u - t) * OrderRate
  <2>1. CASE u = now
    BY <2>1, <1>6
  <2>2. CASE u # now
    <3>1. Cardinality(Through(t, u))' <= Cardinality(Through(t, u)) + 0
      BY <1>3, <2>2
    <3>2. Cardinality(Through(t, u)) <= OrderCap + (u - t) * OrderRate
      BY DEF CallsInv, Paid
    <3>3. (u - t) * OrderRate \in Int
      BY <1>0, CallConstants
    <3> QED BY <1>4, <3>1, <3>2, <3>3, CallConstants
  <2> QED BY <2>1, <2>2
<1>8. Paid'
  BY <1>6, <1>7 DEF Paid
<1> QED BY <1>1, <1>2, <1>8

\* A second passes and refills.
LEMMA PaidTicks ==
    ASSUME CallsInv, now' = now + 1, UNCHANGED <<bucket, sent>>
    PROVE  Paid' /\ KeptTyped'
<1>0. now \in Nat /\ now' \in Nat /\ KeptTyped /\ Len(sent) \in Nat /\ \A i \in 1..Len(sent) : sent[i].at \in 0..now
  BY DEF CallsInv, CallsTyped, ASeq
<1>1. Kept' = Kept
  BY DEF Kept
<1>2. KeptTyped'
  BY <1>0, <1>1 DEF KeptTyped
<1>3. Level' <= Level + OrderRate /\ Level' \in 0..OrderCap /\ Level \in 0..OrderCap
  <2> DEFINE x == (now - Kept.last) * OrderRate
  <2>1. (now' - Kept.last) * OrderRate = x + OrderRate
    BY <1>0, CallConstants DEF KeptTyped
  <2>2. x \in Nat /\ Kept.tokens \in Nat
    BY <1>0, CallConstants DEF KeptTyped
  <2>3. Level = IF Kept.tokens + x < OrderCap THEN Kept.tokens + x ELSE OrderCap
    BY DEF Level
  <2>4. Level' = IF Kept.tokens + (now' - Kept.last) * OrderRate < OrderCap
                 THEN Kept.tokens + (now' - Kept.last) * OrderRate ELSE OrderCap
    BY <1>1 DEF Level
  <2> HIDE DEF x
  <2>5. Level' = IF Kept.tokens + (x + OrderRate) < OrderCap THEN Kept.tokens + (x + OrderRate) ELSE OrderCap
    BY <2>1, <2>4
  <2> QED BY <2>2, <2>3, <2>5, CallConstants
<1>4. \A t, u : Cardinality(Through(t, u)) \in Nat /\ Through(t, u)' = Through(t, u)
  BY <1>0, ThroughFinite DEF Through
<1>5. ASSUME NEW t \in 0..now' PROVE Cardinality(Through(t, now')) + Level' <= OrderCap + (now' - t) * OrderRate
  <2>1. CASE t = now'
    <3>1. Through(t, now') = {}
      BY <1>0, <2>1 DEF Through
    <3>2. Cardinality(Through(t, now')) = 0
      BY <3>1, FS_EmptySet
    <3>3. (now' - t) * OrderRate = 0
      BY <1>0, <2>1, CallConstants
    <3> QED BY <1>3, <3>2, <3>3, CallConstants
  <2>2. CASE t # now'
    <3>1. t \in 0..now
      BY <1>0, <2>2
    <3>2. Through(t, now') = Through(t, now)
      BY <1>0, <3>1 DEF Through
    <3>3. Cardinality(Through(t, now)) + Level <= OrderCap + (now - t) * OrderRate
      BY <3>1 DEF CallsInv, Paid
    <3>4. (now' - t) * OrderRate = (now - t) * OrderRate + OrderRate /\ (now - t) * OrderRate \in Int
      <4>1. now' - t = (now - t) + 1 /\ now - t \in Int
        BY <1>0, <3>1
      <4> QED BY <4>1, OneMore, CallConstants
    <3>5. Cardinality(Through(t, now)) \in Nat
      BY <1>4
    <3> QED BY <1>3, <3>2, <3>3, <3>4, <3>5, CallConstants
  <2> QED BY <2>1, <2>2
<1>6. ASSUME NEW u \in 0..now', NEW t \in 0..u PROVE Cardinality(Through(t, u)) <= OrderCap + (u - t) * OrderRate
  <2>1. CASE u = now'
    <3>1. Cardinality(Through(t, now')) + Level' <= OrderCap + (now' - t) * OrderRate
      BY <1>5, <2>1
    <3>2. (now' - t) * OrderRate \in Int /\ Cardinality(Through(t, now')) \in Nat
      BY <1>0, <1>4, CallConstants
    <3> QED BY <2>1, <3>1, <3>2, <1>3, CallConstants
  <2>2. CASE u # now'
    <3>1. u \in 0..now
      BY <1>0, <2>2
    <3> QED BY <3>1 DEF CallsInv, Paid
  <2> QED BY <2>1, <2>2
<1> QED BY <1>2, <1>4, <1>5, <1>6 DEF Paid

-----------------------------------------------------------------------------

\* A refill keeps the level; so does a step that leaves the order class alone.
LEMMA RefilledIs ==
    ASSUME CallsTyped
    PROVE  LET k == EC!Refilled["orders"] IN
           k.tokens = Level /\ k.last = now /\ DOMAIN k = {"tokens", "last"} /\ DOMAIN EC!Refilled = EC!Classes
<1>1. "orders" \in EC!Classes
  BY DEF EC!Classes
<1>2. EC!Refilled["orders"] = EC!Refill(Kept, OrderCap)
  BY <1>1 DEF EC!Refilled, Kept, OrderCap
<1>3. OrderCap \in Int /\ Kept.tokens + (now - Kept.last) * OrderRate \in Int
  BY CallConstants DEF CallsTyped, KeptTyped
<1>4. EC!Min({OrderCap, Kept.tokens + (now - Kept.last) * OrderRate}) = Level
  BY <1>3, LessOf DEF Level
<1>5. EC!Refill(Kept, OrderCap) = [tokens |-> Level, last |-> now]
  BY <1>4 DEF EC!Refill, OrderRate, OrderCap
<1>6. DOMAIN EC!Refilled = EC!Classes
  BY DEF EC!Refilled
<1> QED BY <1>2, <1>5, <1>6

LEMMA LevelNow ==
    ASSUME now \in Nat, NEW k \in 0..OrderCap, DOMAIN Kept' = {"tokens", "last"},
           Kept'.tokens = k, Kept'.last = now, UNCHANGED now
    PROVE  KeptTyped' /\ Level' = k
<1>1. KeptTyped'
  BY DEF KeptTyped
<1>2. (now' - Kept'.last) * OrderRate = 0
  BY CallConstants
<1>3. Level' = IF k + 0 < OrderCap THEN k + 0 ELSE OrderCap
  BY <1>2 DEF Level
<1> QED BY <1>1, <1>3, CallConstants

LEMMA CallAcquires ==
    ASSUME CallsInv, NEW c, NEW op, NEW s, NEW id, NEW deadline,
           EC!Acquire(c, op, s, id, deadline), UNCHANGED <<now, header, EC!frozenVars>>
    PROVE  CallsInv'
<1>0. /\ CallsTyped /\ now \in Nat /\ KeptTyped /\ ASeq(sent) /\ \A i \in 1..Len(sent) : sent[i].at \in 0..now
      /\ UNCHANGED <<now, header, bans, currentFreeze, frozenUntil>>
  BY DEF CallsInv, CallsTyped, EC!frozenVars
<1>1. "orders" \in EC!Classes
  BY DEF EC!Classes
<1>2. Level \in 0..OrderCap
  BY <1>0, LevelIs
<1> DEFINE after == EC!Refilled
<1>3. after["orders"].tokens = Level /\ after["orders"].last = now /\ DOMAIN after["orders"] = {"tokens", "last"} /\ DOMAIN after = EC!Classes
  BY <1>0, RefilledIs
<1> HIDE DEF after
<1>4. ASSUME KeptTyped', DOMAIN bucket' = EC!Classes, Paid', ASeq(sent'), \A i \in 1..Len(sent') : sent'[i].at \in 0..now
      PROVE  CallsInv'
  BY <1>0, <1>4 DEF CallsInv, CallsTyped
<1>5. CASE UNCHANGED <<bucket, sent>>
  <2>1. Kept' = Kept
    BY <1>5 DEF Kept
  <2>2. KeptTyped' /\ Level' = Level
    BY <1>0, <2>1 DEF KeptTyped, Level
  <2>3. Level' <= Level
    BY <1>2, <2>2
  <2>4. Paid'
    BY <1>0, <1>5, <2>2, <2>3, PaidKeeps
  <2> QED BY <1>0, <1>4, <1>5, <2>2, <2>4 DEF CallsTyped
<1>6. CASE ~EC!FindInsufficient(op, EC!KeyOf(op, s, id), after) /\ bucket' = EC!DebitAll(op, after) /\ EC!IsOrderOp(op) /\ sent' = Append(sent, [at |-> now, symbol |-> s])
  <2>1. "orders" \in DOMAIN EC!Costs(op) /\ EC!Costs(op)["orders"] = 1
    BY <1>6 DEF EC!Costs, EC!WeightBucket
  <2>2. Level >= 1
    <3>1. ~(after["orders"].tokens < 1)
      BY <1>6, <2>1 DEF EC!FindInsufficient
    <3> QED BY <3>1, <1>2, <1>3, CallConstants
  <2>3. Kept' = [after["orders"] EXCEPT !.tokens = @ - 1]
    BY <1>1, <1>6, <2>1 DEF EC!DebitAll, Kept
  <2>4. DOMAIN Kept' = {"tokens", "last"} /\ Kept'.tokens = Level - 1 /\ Kept'.last = now
    BY <1>3, <2>3
  <2>5. Level - 1 \in 0..OrderCap
    BY <1>2, <2>2, CallConstants
  <2>6. KeptTyped' /\ Level' = Level - 1
    BY <1>0, <2>4, <2>5, LevelNow
  <2>7. [at |-> now, symbol |-> s].at = now
    OBVIOUS
  <2>8. Paid' /\ ASeq(sent') /\ \A i \in 1..Len(sent') : sent'[i].at \in 0..now
    BY <1>0, <1>6, <2>6, <2>7, PaidSends
  <2>9. DOMAIN bucket' = EC!Classes
    BY <1>6 DEF EC!DebitAll
  <2> QED BY <1>4, <2>6, <2>8, <2>9
<1>7. CASE UNCHANGED sent /\ (bucket' = after \/ (bucket' = EC!DebitAll(op, after) /\ ~EC!IsOrderOp(op)))
  <2>1. bucket'["orders"] = after["orders"] /\ DOMAIN bucket' = EC!Classes
    <3>1. ~EC!IsOrderOp(op) => "orders" \notin DOMAIN EC!Costs(op)
      BY DEF EC!Costs, EC!WeightBucket
    <3> QED BY <3>1, <1>1, <1>3, <1>7 DEF EC!DebitAll
  <2>2. KeptTyped' /\ Level' = Level
    BY <1>0, <1>2, <1>3, <2>1, LevelNow DEF Kept
  <2>3. Level' <= Level
    BY <1>2, <2>2
  <2>4. Paid'
    BY <1>0, <1>7, <2>2, <2>3, PaidKeeps
  <2> QED BY <1>0, <1>4, <1>7, <2>1, <2>2, <2>4 DEF CallsTyped
<1> QED BY <1>5, <1>6, <1>7 DEF EC!Acquire, after

LEMMA FreezeIs ==
    ASSUME CallsTyped, NEW retry \in RetryAfters
    PROVE  LET d == EC!ComputeFreezeDuration(EC!ResolveFreezeDuration(retry)) IN
           d \in 0..FreezeCap /\ (EC!Frozen => d >= currentFreeze)
<1>1. retry \in Nat /\ FreezeCap \in Nat /\ DefaultFreeze \in 1..FreezeCap /\ currentFreeze \in 0..FreezeCap
  BY CallConstants DEF CallsTyped
<1>2. EC!ResolveFreezeDuration(retry) \in 0..FreezeCap
  <2>1. EC!Min({retry, FreezeCap}) \in 0..FreezeCap
    BY <1>1, LessOf
  <2> QED BY <1>1, <2>1 DEF EC!ResolveFreezeDuration
<1>3. EC!Min({2 * currentFreeze, FreezeCap}) \in currentFreeze..FreezeCap
  BY <1>1, LessOf
<1>4. EC!Min({2 * currentFreeze, FreezeCap}) \in 0..FreezeCap /\ EC!Min({2 * currentFreeze, FreezeCap}) >= currentFreeze
  BY <1>1, <1>3
<1> DEFINE a == EC!Min({2 * currentFreeze, FreezeCap})
           b == EC!ResolveFreezeDuration(retry)
           d == EC!ComputeFreezeDuration(b)
<1>5. d = a \/ (d = b /\ ~EC!Frozen)
  BY DEF EC!ComputeFreezeDuration
<1>6. a \in 0..FreezeCap /\ a >= currentFreeze /\ b \in 0..FreezeCap
  BY <1>2, <1>4
<1> HIDE DEF a, b
<1>7. d \in 0..FreezeCap /\ (EC!Frozen => d >= currentFreeze)
  <2> HIDE DEF d
  <2> QED BY <1>5, <1>6
<1> QED BY <1>7 DEF b

LEMMA CallsStep ==
    ASSUME CallsInv, EC!Next
    PROVE  CallsInv' /\ EC!FreezeHolds
<1>0. /\ CallsTyped /\ now \in Nat /\ bans \in Nat /\ KeptTyped /\ ASeq(sent)
      /\ \A i \in 1..Len(sent) : sent[i].at \in 0..now
  BY DEF CallsInv, CallsTyped
<1>a. Level \in 0..OrderCap /\ "orders" \in EC!Classes
  BY <1>0, LevelIs DEF EC!Classes
<1>b. ASSUME bans' = bans PROVE EC!FreezeHolds
  BY <1>0, <1>b DEF EC!FreezeHolds
\* The bucket changes only downwards.
<1>c. ASSUME UNCHANGED <<now, sent>>, DOMAIN bucket' = EC!Classes, DOMAIN Kept' = {"tokens", "last"},
             Kept'.last = Kept.last, Kept'.tokens \in 0..Kept.tokens
      PROVE  Paid' /\ KeptTyped'
  <2>1. KeptTyped'
    BY <1>0, <1>c DEF KeptTyped
  <2>2. Level' <= Level
    <3> DEFINE x == (now - Kept.last) * OrderRate
    <3>1. x \in Nat /\ Kept.tokens \in Nat
      BY <1>0, CallConstants DEF KeptTyped
    <3>2. Level = IF Kept.tokens + x < OrderCap THEN Kept.tokens + x ELSE OrderCap
      BY DEF Level
    <3>3. Level' = IF Kept'.tokens + x < OrderCap THEN Kept'.tokens + x ELSE OrderCap
      BY <1>c DEF Level
    <3> HIDE DEF x
    <3> QED BY <1>c, <3>1, <3>2, <3>3, CallConstants
  <2> QED BY <1>c, <2>1, <2>2, PaidKeeps
<1>1. ASSUME NEW c \in Callers, NEW op, NEW s, EC!CallExchange(c, op, s) PROVE CallsInv' /\ EC!FreezeHolds
  <2>1. bans' = bans /\ EC!Acquire(c, op, s, calls, now + MaxWait) /\ UNCHANGED <<now, header, EC!frozenVars>>
    BY <1>1 DEF EC!CallExchange, EC!frozenVars
  <2> QED BY <2>1, <1>b, CallAcquires
<1>2. ASSUME NEW c \in Callers, EC!Wake(c) PROVE CallsInv' /\ EC!FreezeHolds
  <2>1. /\ bans' = bans /\ EC!Acquire(c, caller[c].op, caller[c].symbol, 0, caller[c].deadline)
        /\ UNCHANGED <<now, header, EC!frozenVars>>
    BY <1>2 DEF EC!Wake, EC!frozenVars
  <2> QED BY <2>1, <1>b, CallAcquires
<1>3. ASSUME NEW c \in Callers, NEW n \in UsedCounts, EC!Answered(c, n) PROVE CallsInv' /\ EC!FreezeHolds
  <2>1. UNCHANGED <<now, sent, bans, currentFreeze, frozenUntil>> /\ header' \in UsedCounts \cup {None}
    BY <1>3, <1>0 DEF EC!Answered, EC!frozenVars, CallsTyped
  <2>2. bucket' = IF header' = None THEN bucket
                  ELSE [bucket EXCEPT !["fapi"] = EC!ReconcileClass("fapi", header'),
                                      !["orders"] = EC!ReconcileClass("orders", header')]
    BY <1>3 DEF EC!Answered
  <2>3. DOMAIN bucket' = EC!Classes /\ (Kept' = Kept \/ (header' # None /\ Kept' = EC!ReconcileClass("orders", header')))
    BY <1>0, <1>a, <2>2 DEF CallsTyped, Kept
  <2>4. DOMAIN Kept' = {"tokens", "last"} /\ Kept'.last = Kept.last /\ Kept'.tokens \in 0..Kept.tokens
    <3>1. CASE Kept' = Kept
      BY <1>0, <3>1 DEF KeptTyped
    <3>2. CASE header' # None /\ Kept' = EC!ReconcileClass("orders", header')
      <4>1. header' \in Nat
        BY <2>1, <3>2, CallConstants
      <4>2. EC!ReconcileClass("orders", header') =
               IF header' > OrderCap - Kept.tokens
               THEN [Kept EXCEPT !.tokens = EC!Max({0, OrderCap - header'})] ELSE Kept
        BY DEF EC!ReconcileClass, Kept, OrderCap
      <4>3. CASE header' > OrderCap - Kept.tokens
        <5>1. EC!Max({0, OrderCap - header'}) \in 0..Kept.tokens
          <6>1. 0 \in Int /\ OrderCap - header' \in Int
            BY <4>1, CallConstants
          <6>2. EC!Max({0, OrderCap - header'}) = IF 0 < OrderCap - header' THEN OrderCap - header' ELSE 0
            BY <6>1, LessOf
          <6>3. Kept.tokens \in Nat
            BY <1>0 DEF KeptTyped
          <6>4. OrderCap \in Int
            BY CallConstants
          <6>5. PICK h \in Nat : h = header'
            BY <4>1, Zenon
          <6>6. h > OrderCap - Kept.tokens /\ EC!Max({0, OrderCap - h}) = IF 0 < OrderCap - h THEN OrderCap - h ELSE 0
            BY <4>3, <6>2, <6>5, Zenon
          <6>7. EC!Max({0, OrderCap - h}) \in 0..Kept.tokens
            BY <6>3, <6>4, <6>6, Room
          <6> QED BY <6>5, <6>7, Zenon
        <5>2. Kept' = [Kept EXCEPT !.tokens = EC!Max({0, OrderCap - header'})]
          BY <3>2, <4>2, <4>3
        <5> QED BY <1>0, <5>1, <5>2 DEF KeptTyped
      <4>4. CASE ~(header' > OrderCap - Kept.tokens)
        BY <1>0, <3>2, <4>2, <4>4 DEF KeptTyped
      <4> QED BY <4>3, <4>4
    <3> QED BY <2>3, <3>1, <3>2
  <2>5. Paid' /\ KeptTyped'
    BY <1>c, <2>1, <2>3, <2>4
  <2>6. CallsTyped'
    BY <1>0, <2>1, <2>3, <2>5 DEF CallsTyped
  <2> QED BY <1>b, <2>1, <2>5, <2>6 DEF CallsInv
<1>4. ASSUME NEW c \in Callers, NEW retry \in RetryAfters, EC!Banned(c, retry) PROVE CallsInv' /\ EC!FreezeHolds
  <2> DEFINE d == EC!ComputeFreezeDuration(EC!ResolveFreezeDuration(retry))
  <2>1. /\ UNCHANGED <<now, sent, header>> /\ bans' = bans + 1 /\ currentFreeze' = d /\ frozenUntil' = now + d
        /\ bucket' = [b \in EC!Classes |-> [bucket[b] EXCEPT !.tokens = 0]]
    BY <1>4 DEF EC!Banned
  <2>2. d \in 0..FreezeCap /\ (EC!Frozen => d >= currentFreeze)
    BY <1>0, FreezeIs
  <2> HIDE DEF d
  <2>3. DOMAIN bucket' = EC!Classes /\ Kept' = [Kept EXCEPT !.tokens = 0]
    BY <2>1, <1>a DEF Kept
  <2>4. Paid' /\ KeptTyped'
    BY <1>0, <1>c, <2>1, <2>3 DEF KeptTyped
  <2>5. CallsTyped'
    <3>1. frozenUntil' \in Int /\ frozenUntil' <= now' + currentFreeze' /\ now' \in Nat /\ bans' \in Nat
      BY <1>0, <2>1, <2>2, CallConstants
    <3> QED BY <1>0, <2>1, <2>2, <2>3, <2>4, <3>1 DEF CallsTyped
  <2>6. EC!FreezeHolds
    <3> SUFFICES ASSUME EC!Frozen PROVE frozenUntil' >= frozenUntil /\ currentFreeze' >= currentFreeze
      BY DEF EC!FreezeHolds
    <3>1. frozenUntil \in Int /\ frozenUntil <= now + currentFreeze /\ currentFreeze \in Int
      BY <1>0, CallConstants DEF CallsTyped, EC!Frozen
    <3> QED BY <1>0, <2>1, <2>2, <3>1, CallConstants
  <2> QED BY <2>4, <2>5, <2>6 DEF CallsInv
<1>5. CASE EC!RunAutoClear
  <2>1. UNCHANGED <<now, sent, header, bans, bucket, currentFreeze>> /\ frozenUntil' \in {None, frozenUntil}
    BY <1>5 DEF EC!RunAutoClear
  <2>2. Kept' = Kept
    BY <2>1 DEF Kept
  <2>3. Paid' /\ KeptTyped'
    BY <1>0, <1>c, <2>1, <2>2 DEF KeptTyped, CallsTyped
  <2>4. CallsTyped'
    BY <1>0, <2>1, <2>3 DEF CallsTyped
  <2> QED BY <1>b, <2>1, <2>3, <2>4 DEF CallsInv
<1>6. CASE EC!Tick
  <2>1. now' = now + 1 /\ UNCHANGED <<bucket, sent, header, bans, currentFreeze, frozenUntil>>
    BY <1>6 DEF EC!Tick, EC!frozenVars
  <2>2. Paid' /\ KeptTyped'
    BY <2>1, PaidTicks
  <2>3. now' \in Nat /\ (\A i \in 1..Len(sent) : sent[i].at \in 0..now')
    BY <1>0, <2>1
  <2>4. frozenUntil' # None => frozenUntil' \in Int /\ frozenUntil' <= now' + currentFreeze'
    BY <1>0, <2>1, CallConstants DEF CallsTyped
  <2>5. CallsTyped'
    BY <1>0, <2>1, <2>2, <2>3, <2>4 DEF CallsTyped
  <2> QED BY <1>b, <2>1, <2>2, <2>5 DEF CallsInv
<1> QED BY <1>1, <1>2, <1>3, <1>4, <1>5, <1>6 DEF EC!Next

LEMMA CallsQuiet == CallsInv /\ UNCHANGED EC!vars => CallsInv'
<1> SUFFICES ASSUME CallsInv, UNCHANGED EC!vars PROVE CallsInv'
  OBVIOUS
<1>1. UNCHANGED <<now, bans, currentFreeze, frozenUntil, header, bucket, sent>>
  BY DEF EC!vars
<1>2. Kept' = Kept /\ Level' = Level /\ \A t, u : Through(t, u)' = Through(t, u)
  BY <1>1 DEF Kept, Level, Through
<1> QED BY <1>1, <1>2 DEF CallsInv, CallsTyped, KeptTyped, Paid

\* The orders of a window are fewer than a full bucket and a window's refill.
LEMMA CallsSound == CallsInv => EC!OrdersPerWindow
<1> SUFFICES ASSUME CallsInv, NEW t \in 0..now
             PROVE  EC!Cardinality(EC!SentIn(t, LAMBDA x : TRUE)) < 2 * OrderCap
  BY DEF EC!OrdersPerWindow, OrderCap
<1>0. now \in Nat /\ ASeq(sent) /\ Len(sent) \in Nat /\ \A i \in 1..Len(sent) : sent[i].at \in 0..now
  BY DEF CallsInv, CallsTyped, ASeq
<1>1. DOMAIN sent = 1..Len(sent)
  BY <1>0 DEF ASeq
<1> DEFINE e == t + Window - 1
           u == IF e <= now THEN e ELSE now
<1>2. u \in 0..now /\ t \in 0..u /\ u - t <= Window - 1
  BY <1>0, CallConstants
<1>3. EC!SentIn(t, LAMBDA x : TRUE) = Through(t, u)
  BY <1>0, <1>1, CallConstants DEF EC!SentIn, Through
<1> HIDE DEF u, e
<1>4. Cardinality(Through(t, u)) <= OrderCap + (u - t) * OrderRate
  BY <1>2 DEF CallsInv, Paid
<1>5. (u - t) * OrderRate <= (Window - 1) * OrderRate
  BY <1>0, <1>2, CallConstants
<1>6. (Window - 1) * OrderRate = OrderCap - OrderRate
  BY CallConstants
<1>7. Cardinality(Through(t, u)) \in Nat
  BY <1>0, ThroughFinite
<1>8. (u - t) * OrderRate \in Int
  BY <1>0, <1>2, CallConstants
<1>9. Cardinality(Through(t, u)) < 2 * OrderCap
  BY <1>4, <1>5, <1>6, <1>7, <1>8, CallConstants
<1> QED BY <1>3, <1>9 DEF EC!Cardinality, Cardinality

-----------------------------------------------------------------------------
(* The paper fills and the probe.                                          *)

\* What an order can be answered with: a drop, or its simulation at one of the ticks.
FillsOf(o) == {PF!Missed} \cup {PF!Simulated(o, q) : q \in Quotes}

\* What callers were answered is what the ledger recorded, and a call on its way knows its order and,
\* once it rolled, its fill.
Filling ==
    /\ DOMAIN ledger = Orders /\ DOMAIN answers = Orders /\ DOMAIN call = Callers
    /\ \A o \in Orders : answers[o] \subseteq {ledger[o]} /\ (ledger[o] = None => answers[o] = {})
    /\ \A o \in Orders : ledger[o] # None => ledger[o] \in FillsOf(o)
    /\ \A c \in Callers :
          /\ call[c].pc \in {"idle", "found none", "rolled"}
          /\ call[c].pc # "idle" => call[c].order \in Orders /\ calls > 0
          /\ call[c].pc = "rolled" => call[c].fill \in FillsOf(call[c].order)
    /\ calls \in 0..MaxOrders /\ \A o \in Orders : answers[o] # {} => calls > 0

Ticking == tick \in Quotes \cup {None} /\ stale \in BOOLEAN

Polled ==
    /\ outages \in 0..MaxOutages
    /\ failures \in 0..(Threshold + 1) /\ backoff \in 0..Cap /\ wait \in 0..backoff
    /\ up \in BOOLEAN /\ leaked \in BOOLEAN /\ probing \in BOOLEAN /\ latched \in BOOLEAN /\ halted \in BOOLEAN

FillsInv == Filling /\ Ticking /\ Polled

LEMMA FillConstants ==
    /\ Threshold \in Nat /\ Cap \in Nat /\ Cap > 0 /\ MaxOrders \in Nat /\ MaxOutages \in Nat
    /\ None \notin [filled : BOOLEAN, price : Int]
    /\ Quotes \subseteq PF!Ticks /\ Orders \subseteq PF!SubmitInputs
BY FillAssumption DEF PF!ConstantsOK

\* The best field of a tick: what it is when the field in front is quoted, and that it is found.
LEMMA FieldFound ==
    ASSUME NEW c, c \in [1..4 -> Nat]
    PROVE  /\ PF!FirstUsable(c) \in Nat
           /\ c[1] > 0 => PF!FirstUsable(c) = c[1]
           /\ (\E k \in 1..4 : c[k] > 0) => PF!FirstUsable(c) > 0
           /\ (\A k \in 1..4 : c[k] = 0) => PF!FirstUsable(c) = 0
<1> DEFINE Is(k) == k \in 1..4 /\ c[k] > 0 /\ \A j \in 1..(k - 1) : c[j] = 0
<1>1. CASE \A k \in 1..4 : c[k] = 0
  BY <1>1 DEF PF!FirstUsable
<1>2. CASE ~\A k \in 1..4 : c[k] = 0
  <2>1. c[1] \in Nat /\ c[2] \in Nat /\ c[3] \in Nat /\ c[4] \in Nat
    OBVIOUS
  <2>2. c[1] > 0 \/ c[2] > 0 \/ c[3] > 0 \/ c[4] > 0
    BY <1>2, <2>1
  <2>3. Is(1) \/ Is(2) \/ Is(3) \/ Is(4)
    <3>1. c[1] > 0 => Is(1)
      OBVIOUS
    <3>2. c[1] = 0 /\ c[2] > 0 => Is(2)
      OBVIOUS
    <3>3. c[1] = 0 /\ c[2] = 0 /\ c[3] > 0 => Is(3)
      OBVIOUS
    <3>4. c[1] = 0 /\ c[2] = 0 /\ c[3] = 0 /\ c[4] > 0 => Is(4)
      OBVIOUS
    <3> QED BY <2>1, <2>2, <3>1, <3>2, <3>3, <3>4
  <2> DEFINE m == CHOOSE k \in 1..4 : c[k] > 0 /\ \A j \in 1..(k - 1) : c[j] = 0
  <2>4. m \in 1..4 /\ c[m] > 0 /\ \A j \in 1..(m - 1) : c[j] = 0
    BY <2>3
  <2>5. PF!FirstUsable(c) = c[m]
    BY <1>2 DEF PF!FirstUsable
  <2> HIDE DEF m
  <2>6. c[1] > 0 => m = 1
    BY <2>4
  <2> QED BY <1>2, <2>1, <2>4, <2>5, <2>6
<1> QED BY <1>1, <1>2

\* The price of a tick for a taker's side.
LEMMA TakerPrice ==
    ASSUME NEW q \in PF!Ticks
    PROVE  /\ PF!AskFirst(q) \in Nat /\ PF!BidFirst(q) \in Nat
           /\ q.ask > 0 => PF!AskFirst(q) = q.ask
           /\ q.bid > 0 => PF!BidFirst(q) = q.bid
           /\ (\E p \in {q.ask, q.bid, q.mark, q.last} : p > 0) => PF!AskFirst(q) > 0 /\ PF!BidFirst(q) > 0
           /\ ~(\E p \in {q.ask, q.bid, q.mark, q.last} : p > 0) => PF!AskFirst(q) = 0 /\ PF!BidFirst(q) = 0
<1>1. q.ask \in Nat /\ q.bid \in Nat /\ q.mark \in Nat /\ q.last \in Nat
  BY DEF PF!Ticks
<1> DEFINE a == <<q.ask, q.mark, q.last, q.bid>>
           b == <<q.bid, q.mark, q.last, q.ask>>
<1>2. a \in [1..4 -> Nat] /\ b \in [1..4 -> Nat]
  BY <1>1
<1>3. a[1] = q.ask /\ a[2] = q.mark /\ a[3] = q.last /\ a[4] = q.bid
  OBVIOUS
<1>4. b[1] = q.bid /\ b[2] = q.mark /\ b[3] = q.last /\ b[4] = q.ask
  OBVIOUS
<1>5. PF!AskFirst(q) = PF!FirstUsable(a) /\ PF!BidFirst(q) = PF!FirstUsable(b)
  BY DEF PF!AskFirst, PF!BidFirst
<1> HIDE DEF a, b
<1>6. (\E p \in {q.ask, q.bid, q.mark, q.last} : p > 0) <=> q.ask > 0 \/ q.bid > 0 \/ q.mark > 0 \/ q.last > 0
  OBVIOUS
<1>7. (q.ask > 0 \/ q.bid > 0 \/ q.mark > 0 \/ q.last > 0)
      => (\E k \in 1..4 : a[k] > 0) /\ (\E k \in 1..4 : b[k] > 0)
  BY <1>3, <1>4
<1>8. ~(q.ask > 0 \/ q.bid > 0 \/ q.mark > 0 \/ q.last > 0)
      => (\A k \in 1..4 : a[k] = 0) /\ (\A k \in 1..4 : b[k] = 0)
  BY <1>1, <1>3, <1>4
<1> QED BY <1>2, <1>3, <1>4, <1>5, <1>6, <1>7, <1>8, FieldFound

\* What the fill core is asked for an order of the executor: the same side, and the price of the side
\* that is taken.
LEMMA OrderTranslated ==
    ASSUME NEW way \in PF!Sides, NEW reduceOnly \in BOOLEAN, NEW q \in PF!Ticks
    PROVE  LET f == PF!ToFillIntent(PF!SharedIntent(PF!CreateOrderRequest([side |-> way, reduceOnly |-> reduceOnly])), q)
           IN  /\ f.side = way /\ f.action = (IF reduceOnly THEN "close" ELSE "open")
               /\ f.policy = (IF reduceOnly THEN "REDUCE_MARKET" ELSE "MARKETABLE_LIMIT_IOC")
               /\ f.limit = (IF (way = "long") # reduceOnly THEN PF!AskFirst(q) ELSE PF!BidFirst(q))
               /\ ~reduceOnly => PF!ExecutablePrice(way, q) = f.limit
<1> DEFINE r == PF!CreateOrderRequest([side |-> way, reduceOnly |-> reduceOnly])
           i == PF!SharedIntent(r)
<1>1. r.reduceOnly = reduceOnly /\ r.side = (IF (way = "long") = reduceOnly THEN "sell" ELSE "buy")
  BY DEF PF!CreateOrderRequest
<1> HIDE DEF r
<1>2. i.side = way /\ i.action = (IF reduceOnly THEN "close" ELSE "open")
  BY <1>1 DEF PF!SharedIntent, PF!TradeSide, PF!Sides
<1> HIDE DEF i
<1> DEFINE f == PF!ToFillIntent(i, q)
<1>3. /\ f.side = i.side /\ f.action = i.action
      /\ f.policy = (IF i.action = "open" THEN "MARKETABLE_LIMIT_IOC" ELSE "REDUCE_MARKET")
      /\ f.limit = PF!DeriveReferencePrice(q, i.side, i.action # "open")
  BY DEF PF!ToFillIntent
<1> HIDE DEF f
<1>4. f.limit = (IF (way = "long") # reduceOnly THEN PF!AskFirst(q) ELSE PF!BidFirst(q))
  BY <1>2, <1>3 DEF PF!DeriveReferencePrice
<1>5. ~reduceOnly => PF!ExecutablePrice(way, q) = f.limit
  BY <1>4 DEF PF!ExecutablePrice
<1>6. f.policy = (IF reduceOnly THEN "REDUCE_MARKET" ELSE "MARKETABLE_LIMIT_IOC")
  BY <1>2, <1>3
<1> QED BY <1>2, <1>3, <1>4, <1>5, <1>6 DEF f, i, r

\* An order is simulated in its own sense.
LEMMA OrderMeant ==
    ASSUME NEW way \in PF!Sides, NEW reduceOnly \in BOOLEAN, NEW q \in PF!Ticks
    PROVE  LET f == PF!Simulated([side |-> way, reduceOnly |-> reduceOnly], q)
               buys == (way = "long") # reduceOnly
               usable == \E p \in {q.ask, q.bid, q.mark, q.last} : p > 0
           IN  /\ f \in [filled : BOOLEAN, price : Int]
               /\ buys /\ q.ask > 0 => f.filled /\ f.price > PF!Unit * q.ask
               /\ ~buys /\ q.bid > 0 => f.filled /\ f.price < PF!Unit * q.bid
               /\ usable => f.filled /\ f.price > 0
               /\ ~usable /\ ~reduceOnly => ~f.filled
               /\ PF!MapCcxtStatus(PF!SnapshotStatus(f)) = IF f.filled THEN "FILLED" ELSE "CANCELLED"
<1> DEFINE o == [side |-> way, reduceOnly |-> reduceOnly]
           g == PF!ToFillIntent(PF!SharedIntent(PF!CreateOrderRequest(o)), q)
           ts == PF!IntraBarTicks(g, q)
           f == PF!Simulated(o, q)
           buys == (way = "long") # reduceOnly
           usable == \E p \in {q.ask, q.bid, q.mark, q.last} : p > 0
<1>1. /\ g.side = way /\ g.action = (IF reduceOnly THEN "close" ELSE "open")
      /\ g.policy = (IF reduceOnly THEN "REDUCE_MARKET" ELSE "MARKETABLE_LIMIT_IOC")
      /\ g.limit = (IF buys THEN PF!AskFirst(q) ELSE PF!BidFirst(q))
      /\ ~reduceOnly => PF!ExecutablePrice(way, q) = g.limit
  BY OrderTranslated
<1>2. f = PF!ApplyFill(g, ts)
  BY DEF PF!Simulated
<1>3. /\ g.limit \in Nat
      /\ buys /\ q.ask > 0 => g.limit = q.ask
      /\ ~buys /\ q.bid > 0 => g.limit = q.bid
      /\ usable => g.limit > 0
      /\ ~usable => g.limit = 0
  BY <1>1, TakerPrice
<1>a. q.ask \in Nat /\ q.bid \in Nat
  BY DEF PF!Ticks
<1> HIDE DEF o, g, f, usable, buys
<1>4. PF!IsMissedFill(g, ts) <=> ~reduceOnly /\ g.limit = 0
  <2>1. CASE reduceOnly
    BY <1>1, <2>1 DEF PF!IsMissedFill
  <2>2. CASE ~reduceOnly
    <3>1. ts = {t \in {[high |-> p, low |-> p, at |-> 0] : p \in {g.limit}} : t.high > 0}
      BY <1>1, <2>2 DEF PF!IntraBarTicks
    <3>2. g.limit > 0 => ts = {[high |-> g.limit, low |-> g.limit, at |-> 0]}
      BY <1>3, <3>1
    <3>3. g.limit = 0 => ts = {}
      BY <1>3, <3>1
    <3> HIDE DEF ts
    <3>4. ASSUME g.limit > 0 PROVE ~PF!IsMissedFill(g, ts)
      <4> DEFINE t == [high |-> g.limit, low |-> g.limit, at |-> 0]
      <4>1. t \in ts /\ t.at = 0 /\ t.low = g.limit /\ t.high = g.limit
        BY <3>2, <3>4
      <4> HIDE DEF t
      <4>2. t.at >= 0 /\ t.at <= PF!OrderTimeout
        BY <4>1 DEF PF!OrderTimeout
      <4>3. IF g.side = "long" THEN t.low <= g.limit ELSE t.high >= g.limit
        BY <1>3, <4>1
      <4> QED BY <4>1, <4>2, <4>3 DEF PF!IsMissedFill
    <3>5. g.limit = 0 => PF!IsMissedFill(g, ts)
      BY <1>1, <2>2, <3>3 DEF PF!IsMissedFill
    <3> QED BY <1>3, <2>2, <3>4, <3>5
  <2> QED BY <2>1, <2>2
<1> HIDE DEF ts
<1>5. PF!AdverseIsHigher(g.side, g.action) <=> buys
  BY <1>1 DEF PF!AdverseIsHigher, PF!Sides, buys
<1>6. PF!TierFillPrice(g) = (IF buys THEN g.limit * 10015 ELSE g.limit * 9985)
  BY <1>3, <1>5 DEF PF!TierFillPrice, PF!Unit, PF!TierFloor
<1>7. CASE PF!IsMissedFill(g, ts)
  <2>1. f.filled = FALSE /\ f \in [filled : BOOLEAN, price : Int]
    BY <1>2, <1>7 DEF PF!ApplyFill, PF!Missed
  <2>2. ~usable
    BY <1>3, <1>4, <1>7
  <2>3. ~(buys /\ q.ask > 0) /\ ~(~buys /\ q.bid > 0)
    BY <2>2 DEF usable
  <2>4. PF!MapCcxtStatus(PF!SnapshotStatus(f)) = "CANCELLED"
    BY <2>1 DEF PF!MapCcxtStatus, PF!SnapshotStatus
  <2> QED BY <2>1, <2>2, <2>3, <2>4 DEF f, o, buys, usable
<1>8. CASE ~PF!IsMissedFill(g, ts)
  <2>1. f = [filled |-> TRUE, price |-> PF!TierFillPrice(g)]
    BY <1>2, <1>8 DEF PF!ApplyFill
  <2>2. PF!TierFillPrice(g) \in Int /\ (g.limit > 0 => PF!TierFillPrice(g) > 0)
    BY <1>3, <1>6
  <2>3. buys /\ q.ask > 0 => PF!TierFillPrice(g) > PF!Unit * q.ask
    BY <1>a, <1>3, <1>6 DEF PF!Unit
  <2>4. ~buys /\ q.bid > 0 => PF!TierFillPrice(g) < PF!Unit * q.bid
    BY <1>a, <1>3, <1>6 DEF PF!Unit
  <2>5. ~usable => reduceOnly
    BY <1>3, <1>4, <1>8
  <2>6. f.filled = TRUE /\ f.price = PF!TierFillPrice(g) /\ f \in [filled : BOOLEAN, price : Int]
    BY <2>1, <2>2
  <2>7. PF!MapCcxtStatus(PF!SnapshotStatus(f)) = "FILLED"
    BY <2>6 DEF PF!MapCcxtStatus, PF!SnapshotStatus
  <2> QED BY <1>3, <2>2, <2>3, <2>4, <2>5, <2>6, <2>7 DEF f, o, buys, usable
<1> QED BY <1>7, <1>8

\* null is never taken for a fill.
LEMMA FillsAreFills ==
    ASSUME NEW o \in Orders
    PROVE  None \notin FillsOf(o)
<1>1. ASSUME NEW q \in Quotes PROVE PF!Simulated(o, q) \in [filled : BOOLEAN, price : Int]
  <2>1. o.side \in PF!Sides /\ o.reduceOnly \in BOOLEAN /\ q \in PF!Ticks
    BY FillConstants DEF PF!SubmitInputs
  <2>2. PF!Simulated(o, q) = PF!Simulated([side |-> o.side, reduceOnly |-> o.reduceOnly], q)
    BY DEF PF!Simulated, PF!CreateOrderRequest
  <2> QED BY <2>1, <2>2, OrderMeant
<1>2. PF!Missed \in [filled : BOOLEAN, price : Int]
  BY DEF PF!Missed
<1> QED BY <1>1, <1>2, FillConstants DEF FillsOf

LEMMA FillsInitially == PF!Init => FillsInv
<1> SUFFICES ASSUME PF!Init PROVE FillsInv
  OBVIOUS
<1>1. Filling
  <2>1. calls = 0 /\ calls \in 0..MaxOrders
    BY FillConstants DEF PF!Init
  <2>2. DOMAIN ledger = Orders /\ DOMAIN answers = Orders /\ DOMAIN call = Callers
    BY DEF PF!Init
  <2>3. (\A o \in Orders : answers[o] = {} /\ ledger[o] = None) /\ \A c \in Callers : call[c].pc = "idle"
    BY DEF PF!Init, PF!Idle
  <2> QED BY <2>1, <2>2, <2>3 DEF Filling
<1>2. Ticking
  BY DEF PF!Init, Ticking
<1>3. outages = 0 /\ failures = 0 /\ backoff = 0 /\ wait = 0
  BY DEF PF!Init
<1>4. outages \in 0..MaxOutages /\ failures \in 0..(Threshold + 1) /\ backoff \in 0..Cap /\ wait \in 0..backoff
  BY <1>3, FillConstants
<1>5. up \in BOOLEAN /\ leaked \in BOOLEAN /\ probing \in BOOLEAN /\ latched \in BOOLEAN /\ halted \in BOOLEAN
  BY DEF PF!Init
<1>6. Polled
  BY <1>4, <1>5 DEF Polled
<1> QED BY <1>1, <1>2, <1>6 DEF FillsInv

LEMMA FillsQuiet ==
    /\ Filling /\ UNCHANGED <<ledger, answers, call, calls>> => Filling'
    /\ Ticking /\ UNCHANGED <<tick, stale>> => Ticking'
    /\ Polled /\ UNCHANGED <<outages, failures, backoff, wait, up, leaked, probing, latched, halted>> => Polled'
<1>1. Filling /\ UNCHANGED <<ledger, answers, call, calls>> => Filling'
  BY DEF Filling
<1>2. Ticking /\ UNCHANGED <<tick, stale>> => Ticking'
  BY DEF Ticking
<1>3. Polled /\ UNCHANGED <<outages, failures, backoff, wait, up, leaked, probing, latched, halted>> => Polled'
  BY DEF Polled
<1> QED BY <1>1, <1>2, <1>3

LEMMA BackoffIs ==
    ASSUME backoff \in Nat
    PROVE  PF!NextBackoff \in 0..Cap
<1>1. PF!Max({backoff, 1}) \in Nat
  BY DEF PF!Max
<1> DEFINE a == PF!Max({backoff, 1}) * 2
<1>2. a \in Nat
  BY <1>1
<1> HIDE DEF a
<1>3. PF!Min({a, Cap}) \in 0..Cap
  BY <1>2, FillConstants DEF PF!Min
<1> QED BY <1>3 DEF PF!NextBackoff, a

LEMMA FillsStep == FillsInv /\ PF!Next => FillsInv'
<1> SUFFICES ASSUME FillsInv, PF!Next PROVE FillsInv'
  OBVIOUS
<1> USE DEF FillsInv, PF!fills, PF!account, PF!probe
<1>1. ASSUME NEW q \in Quotes, PF!Tick(q) PROVE FillsInv'
  <2>1. Ticking'
    BY <1>1 DEF PF!Tick, Ticking
  <2> QED BY <1>1, <2>1, FillsQuiet DEF PF!Tick
<1>2. CASE PF!TickAges
  <2>1. Ticking'
    BY <1>2 DEF PF!TickAges, Ticking
  <2> QED BY <1>2, <2>1, FillsQuiet DEF PF!TickAges
<1>3. ASSUME NEW c \in Callers, NEW o \in Orders, PF!Replay(c, o) PROVE FillsInv'
  <2>1. Ticking' /\ Polled'
    BY <1>3, FillsQuiet DEF PF!Replay
  <2>2. calls' \in 0..MaxOrders /\ calls' > 0
    <3>1. calls < MaxOrders /\ calls' = calls + 1 /\ calls \in 0..MaxOrders
      BY <1>3 DEF PF!Replay, Filling
    <3> QED BY <3>1, FillConstants
  <2>3. UNCHANGED <<ledger, call>> /\ ledger[o] # None /\ answers' = [answers EXCEPT ![o] = @ \cup {ledger[o]}]
    BY <1>3 DEF PF!Replay, PF!Answer
  <2>4. Filling'
    BY <2>2, <2>3 DEF Filling
  <2> QED BY <2>1, <2>4
<1>4. ASSUME NEW c \in Callers, NEW o \in Orders, PF!CreateOrder(c, o) PROVE FillsInv'
  <2>1. Ticking' /\ Polled'
    BY <1>4, FillsQuiet DEF PF!CreateOrder
  <2>2. calls' \in 0..MaxOrders /\ calls' > 0
    <3>1. calls < MaxOrders /\ calls' = calls + 1 /\ calls \in 0..MaxOrders
      BY <1>4 DEF PF!CreateOrder, Filling
    <3> QED BY <3>1, FillConstants
  <2>3. UNCHANGED <<ledger, answers>> /\ call' = [call EXCEPT ![c] = [pc |-> "found none", order |-> o]]
    BY <1>4 DEF PF!CreateOrder
  <2>4. Filling'
    BY <2>2, <2>3 DEF Filling
  <2> QED BY <2>1, <2>4
<1>5. ASSUME NEW c \in Callers, PF!Roll(c) PROVE FillsInv'
  <2>1. Polled' /\ UNCHANGED <<ledger, answers, calls>> /\ call[c].pc = "found none"
    BY <1>5, FillsQuiet DEF PF!Roll
  <2>2. PICK r \in Quotes \cup {None} :
            /\ IF r # None THEN tick' = r /\ stale' = FALSE ELSE UNCHANGED <<tick, stale>>
            /\ call' = [call EXCEPT ![c] =
                    [pc |-> "rolled", order |-> call[c].order,
                     fill |-> IF r # None \/ (tick # None /\ ~stale)
                              THEN PF!Simulated(call[c].order, IF r # None THEN r ELSE tick) ELSE PF!Missed]]
    BY <1>5 DEF PF!Roll
  <2>3. Ticking'
    BY <2>2 DEF Ticking
  <2> DEFINE f == IF r # None \/ (tick # None /\ ~stale)
                  THEN PF!Simulated(call[c].order, IF r # None THEN r ELSE tick) ELSE PF!Missed
  <2>4. f \in FillsOf(call[c].order)
    BY DEF Ticking, FillsOf
  <2>5. call' = [call EXCEPT ![c] = [pc |-> "rolled", order |-> call[c].order, fill |-> f]]
    BY <2>2
  <2> HIDE DEF f
  <2>6. Filling'
    BY <2>1, <2>4, <2>5 DEF Filling
  <2> QED BY <2>1, <2>3, <2>6
<1>6. ASSUME NEW c \in Callers, PF!InsertNew(c) PROVE FillsInv'
  <2>1. Ticking' /\ Polled' /\ UNCHANGED calls
    BY <1>6, FillsQuiet DEF PF!InsertNew
  <2>2. call[c].pc = "rolled" /\ call' = [call EXCEPT ![c] = PF!Idle]
    BY <1>6 DEF PF!InsertNew
  <2> DEFINE o == call[c].order
  <2>3. o \in Orders /\ call[c].fill \in FillsOf(o) /\ calls > 0
    BY <2>2 DEF Filling
  <2>4. IF ledger[o] # None THEN UNCHANGED <<ledger, answers>>
        ELSE /\ ledger' = [ledger EXCEPT ![o] = call[c].fill]
             /\ answers' = [answers EXCEPT ![o] = @ \cup {call[c].fill}]
    BY <1>6 DEF PF!InsertNew, PF!Taken, PF!Answer
  <2> HIDE DEF o
  <2>5. \A d \in Callers :
          /\ call'[d].pc \in {"idle", "found none", "rolled"}
          /\ call'[d].pc # "idle" => call'[d].order \in Orders /\ calls' > 0
          /\ call'[d].pc = "rolled" => call'[d].fill \in FillsOf(call'[d].order)
    BY <2>1, <2>2 DEF Filling, PF!Idle
  <2>6. CASE ledger[o] # None
    BY <2>1, <2>2, <2>4, <2>5, <2>6 DEF Filling
  <2>7. CASE ledger[o] = None
    <3>1. call[c].fill # None
      BY <2>3, FillsAreFills
    <3>2. answers[o] = {}
      BY <2>3, <2>7 DEF Filling
    <3>3. \A q \in Orders : answers'[q] \subseteq {ledger'[q]} /\ (ledger'[q] = None => answers'[q] = {})
      BY <2>3, <2>4, <2>7, <3>1, <3>2 DEF Filling
    <3>4. DOMAIN ledger' = Orders /\ DOMAIN answers' = Orders /\ DOMAIN call' = Callers
      BY <2>2, <2>4, <2>7 DEF Filling
    <3>6. \A q \in Orders : ledger'[q] # None => ledger'[q] \in FillsOf(q)
      BY <2>3, <2>4, <2>7 DEF Filling
    <3>5. Filling'
      BY <2>1, <2>3, <2>5, <3>3, <3>4, <3>6 DEF Filling
    <3> QED BY <2>1, <3>5
  <2> QED BY <2>6, <2>7
<1>7. CASE PF!Restart
  <2>1. Ticking' /\ Polled'
    BY <1>7, FillsQuiet DEF PF!Restart, Ticking
  <2>2. Filling'
    BY <1>7 DEF PF!Restart, Filling, PF!Idle
  <2> QED BY <2>1, <2>2
<1>8. ASSUME Filling', Ticking', UNCHANGED outages, UNCHANGED up, UNCHANGED leaked,
             failures' \in 0..(Threshold + 1), backoff' \in 0..Cap, wait' \in 0..backoff',
             probing' \in BOOLEAN, latched' \in BOOLEAN, halted' \in BOOLEAN
      PROVE  FillsInv'
  BY <1>8 DEF Polled
<1>9. CASE PF!WindowTick
  <2>1. wait' \in 0..backoff'
    BY <1>9, FillConstants DEF PF!WindowTick, Polled
  <2> QED BY <1>9, <2>1, <1>8, FillsQuiet DEF PF!WindowTick, Polled
<1>10. CASE PF!ScheduledTick
  BY <1>10, <1>8, FillsQuiet DEF PF!ScheduledTick, Polled
<1>11. CASE PF!ProbeSucceeds
  <2>1. failures' \in 0..(Threshold + 1) /\ backoff' \in 0..Cap /\ wait' \in 0..backoff'
    BY <1>11, FillConstants DEF PF!ProbeSucceeds
  <2>2. latched' \in BOOLEAN /\ halted' \in BOOLEAN /\ probing' \in BOOLEAN
    BY <1>11 DEF PF!ProbeSucceeds, PF!Abort, Polled
  <2> QED BY <1>11, <2>1, <2>2, <1>8, FillsQuiet DEF PF!ProbeSucceeds
<1>12. CASE PF!ProbeRefused
  <2>1. latched' \in BOOLEAN /\ halted' \in BOOLEAN /\ probing' \in BOOLEAN
    BY <1>12 DEF PF!ProbeRefused, PF!Abort, Polled
  <2> QED BY <1>12, <2>1, <1>8, FillsQuiet DEF PF!ProbeRefused, Polled
<1>13. CASE PF!ProbeUnanswered
  <2>1. failures' = PF!Min({failures + 1, Threshold + 1}) /\ failures \in Nat
    BY <1>13, FillConstants DEF PF!ProbeUnanswered, Polled
  <2>2. failures' \in 0..(Threshold + 1)
    BY <2>1, FillConstants DEF PF!Min
  <2>3. backoff' \in 0..Cap /\ wait' \in 0..backoff'
    <3>1. PF!NextBackoff \in 0..Cap
      BY BackoffIs, FillConstants DEF Polled
    <3>2. CASE backoff' = PF!NextBackoff /\ wait' = backoff'
      BY <3>1, <3>2, FillConstants
    <3>3. CASE UNCHANGED <<backoff, wait>>
      BY <3>3 DEF Polled
    <3> QED BY <1>13, <3>2, <3>3 DEF PF!ProbeUnanswered
  <2>4. probing' \in BOOLEAN /\ UNCHANGED <<latched, halted, up, leaked, outages>>
    BY <1>13 DEF PF!ProbeUnanswered
  <2> QED BY <1>13, <2>2, <2>3, <2>4, <1>8, FillsQuiet DEF PF!ProbeUnanswered, Polled
<1>14. CASE PF!ExchangeChanges
  <2>1. Filling' /\ Ticking' /\ UNCHANGED <<leaked, probing, failures, backoff, wait, latched, halted>>
    BY <1>14, FillsQuiet DEF PF!ExchangeChanges
  <2>2. outages' \in 0..MaxOutages
    BY <1>14, FillConstants DEF PF!ExchangeChanges, Polled
  <2>3. up' \in BOOLEAN
    BY <1>14 DEF PF!ExchangeChanges
  <2> QED BY <2>1, <2>2, <2>3 DEF Polled
<1>15. CASE PF!AccountLeaks
  <2>1. Filling' /\ Ticking' /\ UNCHANGED <<up, outages, probing, failures, backoff, wait, latched, halted>> /\ leaked' = TRUE
    BY <1>15, FillsQuiet DEF PF!AccountLeaks
  <2> QED BY <2>1 DEF Polled
<1>16. CASE PF!Resume
  BY <1>16, <1>8, FillsQuiet DEF PF!Resume, Polled
<1> QED
  BY <1>1, <1>2, <1>3, <1>4, <1>5, <1>6, <1>7, <1>9, <1>10, <1>11, <1>12, <1>13, <1>14, <1>15, <1>16 DEF PF!Next

LEMMA FillsSound == FillsInv => PF!TypeOK /\ PF!OneFillPerOrder /\ PF!OrderKeepsItsMeaning
<1> SUFFICES ASSUME FillsInv PROVE PF!TypeOK /\ PF!OneFillPerOrder /\ PF!OrderKeepsItsMeaning
  OBVIOUS
<1>1. ASSUME NEW o \in Orders
      PROVE  PF!Cardinality(answers[o]) <= 1 /\ PF!Cardinality(answers[o]) <= MaxOrders
  <2>1. answers[o] \subseteq {ledger[o]} /\ (answers[o] # {} => calls > 0) /\ calls \in 0..MaxOrders
    BY DEF FillsInv, Filling
  <2>2. PF!Cardinality(answers[o]) = Cardinality(answers[o])
    BY DEF PF!Cardinality, Cardinality
  <2>3. CASE answers[o] = {}
    BY <2>2, <2>3, FS_EmptySet, FillConstants
  <2>4. CASE answers[o] # {}
    <3>1. answers[o] = {ledger[o]}
      BY <2>1, <2>4
    <3>2. Cardinality(answers[o]) = 1
      BY <3>1, FS_Singleton
    <3> QED BY <2>1, <2>2, <2>4, <3>2, FillConstants
  <2> QED BY <2>3, <2>4
<1>2. PF!OneFillPerOrder
  BY <1>1 DEF PF!OneFillPerOrder
<1>3. \A b \in {up, leaked, probing, latched, halted} : b \in BOOLEAN
  BY DEF FillsInv, Polled
<1>4. PF!OrderKeepsItsMeaning
  <2>1. ASSUME NEW o \in Orders, NEW f \in answers[o]
        PROVE  f = PF!Missed \/ \E q \in Quotes : f = PF!Simulated(o, q)
    BY DEF FillsInv, Filling, FillsOf
  <2> QED BY <2>1, OrderMeant, FillConstants DEF PF!OrderKeepsItsMeaning
<1> QED BY <1>1, <1>2, <1>3, <1>4 DEF PF!TypeOK, FillsInv, Filling, Ticking, Polled

-----------------------------------------------------------------------------
(* The candle feed.                                                        *)

Candle == [at : Nat, vol : Nat]
Bucket(ts) == CF!BucketOpenTime(ts)

LEMMA CandleConstants ==
    /\ BarLen \in Nat /\ BarLen > 0 /\ DayLen \in Nat /\ DayLen > 0
    /\ None \notin Nat /\ None \notin Candle
BY CandleAssumption DEF CF!ConstantsOK, Candle

LEMMA BucketsGrow ==
    /\ \A t \in Nat : Bucket(t) \in Nat
    /\ \A t, u \in Nat : t <= u => Bucket(t) <= Bucket(u)
    /\ \A b \in Nat : CF!DayIndex(b) \in Nat
    /\ \A b, c \in Nat : b <= c => CF!DayIndex(b) <= CF!DayIndex(c)
<1>1. \A t \in Nat : t \div BarLen \in Nat /\ t \div DayLen \in Nat
  BY CandleConstants
<1>2. ASSUME NEW t \in Nat, NEW u \in Nat, NEW w \in Nat, w > 0, t <= u PROVE t \div w <= u \div w
  BY <1>2
<1>3. \A t \in Nat : Bucket(t) \in Nat
  BY <1>1 DEF Bucket, CF!BucketOpenTime
<1>4. \A t, u \in Nat : t <= u => Bucket(t) <= Bucket(u)
  BY <1>2, CandleConstants DEF Bucket, CF!BucketOpenTime
<1>5. \A b \in Nat : CF!DayIndex(b) \in Nat
  BY <1>1 DEF CF!DayIndex
<1>6. ASSUME NEW b \in Nat, NEW c \in Nat, b <= c PROVE CF!DayIndex(b) <= CF!DayIndex(c)
  <2>1. b + 1 \in Nat /\ c + 1 \in Nat /\ b + 1 <= c + 1
    BY <1>6
  <2> QED BY <1>2, <2>1, CandleConstants DEF CF!DayIndex
<1> QED BY <1>3, <1>4, <1>5, <1>6

\* Ticks carry times that have come.
Ticked ==
    /\ now \in Nat /\ ticks \in Seq(Nat) /\ dropped \subseteq 1..Len(ticks)
    /\ \A i \in 1..Len(ticks) : ticks[i] <= now

\* Closed bars are in order and over; the watermark and the session's day are those of the last one.
ClosedBars ==
    /\ closed \in Seq(Candle) /\ watermark = IF Len(closed) = 0 THEN None ELSE closed[Len(closed)].at
    /\ \A i, j \in 1..Len(closed) : i < j => closed[i].at < closed[j].at
    /\ \A i \in 1..Len(closed) : closed[i].at < Bucket(now)
    /\ sessionDay = IF Len(closed) = 0 THEN None ELSE CF!DayIndex(closed[Len(closed)].at)
    /\ session \subseteq Nat /\ (Len(closed) = 0 => session = {})
    /\ \A b \in session : CF!DayIndex(b) = sessionDay

\* The forming bar comes after them, and not after the last tick.
FormingBar ==
    forming # None =>
        /\ forming \in Candle /\ (Len(closed) > 0 => closed[Len(closed)].at < forming.at)
        /\ Len(ticks) > 0 /\ forming.at <= Bucket(ticks[Len(ticks)])

Accepted(b) == {i \in 1..Len(ticks) : i \notin dropped /\ Bucket(ticks[i]) = b}
Barred(b) == (\E k \in 1..Len(closed) : closed[k].at = b) \/ (forming # None /\ forming.at = b)

\* Every tick is in its bar, or came late.
CountedTicks ==
    /\ \A k \in 1..Len(closed) : closed[k].vol = Cardinality(Accepted(closed[k].at))
    /\ forming # None => forming.vol = Cardinality(Accepted(forming.at))
    /\ \A i \in 1..Len(ticks) :
          IF i \in dropped THEN watermark # None /\ Bucket(ticks[i]) <= watermark ELSE Barred(Bucket(ticks[i]))

CandlesInv == Ticked /\ ClosedBars /\ FormingBar /\ CountedTicks

LEMMA CandlesInitially == CF!Init => CandlesInv
<1> SUFFICES ASSUME CF!Init PROVE CandlesInv
  OBVIOUS
<1>1. now = 0 /\ ticks = <<>> /\ forming = None /\ watermark = None /\ closed = <<>> /\ session = {} /\ sessionDay = None /\ dropped = {}
  BY DEF CF!Init
<1>2. Len(<<>>) = 0 /\ <<>> \in Seq(Nat) /\ <<>> \in Seq(Candle)
  OBVIOUS
<1> QED BY <1>1, <1>2 DEF CandlesInv, Ticked, ClosedBars, FormingBar, CountedTicks

LEMMA AcceptedFinite ==
    ASSUME NEW b, Ticked
    PROVE  IsFiniteSet(Accepted(b)) /\ Cardinality(Accepted(b)) \in Nat
<1>1. IsFiniteSet(1..Len(ticks))
  BY FS_Interval DEF Ticked
<1>2. Accepted(b) \subseteq 1..Len(ticks)
  BY DEF Accepted
<1> QED BY <1>1, <1>2, FS_Subset, FS_CardinalityType

\* A bar that is over is closed, after the others.
LEMMA CandleGraduates ==
    ASSUME Ticked, ClosedBars, FormingBar, forming # None, CF!Graduate(forming), UNCHANGED now,
           forming.at < Bucket(now)
    PROVE  /\ ClosedBars' /\ Len(closed') = Len(closed) + 1 /\ closed'[Len(closed) + 1] = forming
           /\ \A k \in 1..Len(closed) : closed'[k] = closed[k]
           /\ watermark' = forming.at
<1>1. closed' = Append(closed, forming) /\ watermark' = forming.at /\ session' = CF!SessionWith(forming.at) /\ sessionDay' = CF!DayIndex(forming.at)
  BY DEF CF!Graduate
<1>2. forming \in Candle /\ forming.at \in Nat /\ closed \in Seq(Candle) /\ Len(closed) \in Nat
      /\ (Len(closed) > 0 => closed[Len(closed)].at < forming.at)
  BY DEF FormingBar, ClosedBars, Candle
<1>3. /\ closed' \in Seq(Candle) /\ Len(closed') = Len(closed) + 1 /\ closed'[Len(closed) + 1] = forming
      /\ \A k \in 1..Len(closed) : closed'[k] = closed[k]
  BY <1>1, <1>2
<1>4. \A k \in 1..Len(closed) : closed[k].at \in Nat /\ closed[k].at < forming.at
  <2> SUFFICES ASSUME NEW k \in 1..Len(closed) PROVE closed[k].at \in Nat /\ closed[k].at < forming.at
    OBVIOUS
  <2>1. closed[k].at \in Nat /\ closed[Len(closed)].at \in Nat
    <3>1. Len(closed) \in 1..Len(closed)
      BY <1>2
    <3>2. closed[k] \in Candle /\ closed[Len(closed)] \in Candle
      BY <1>2, <3>1
    <3> QED BY <3>2 DEF Candle
  <2>2. k = Len(closed) \/ closed[k].at < closed[Len(closed)].at
    BY <1>2 DEF ClosedBars
  <2> QED BY <1>2, <2>1, <2>2
<1>5. \A i, j \in 1..Len(closed') : i < j => closed'[i].at < closed'[j].at
  <2> SUFFICES ASSUME NEW i \in 1..Len(closed'), NEW j \in 1..Len(closed'), i < j PROVE closed'[i].at < closed'[j].at
    OBVIOUS
  <2>1. i \in 1..Len(closed)
    BY <1>2, <1>3
  <2>2. CASE j = Len(closed) + 1
    BY <1>3, <1>4, <2>1, <2>2
  <2>3. CASE j # Len(closed) + 1
    <3>1. j \in 1..Len(closed)
      BY <1>2, <1>3, <2>3
    <3> QED BY <1>3, <2>1, <3>1 DEF ClosedBars
  <2> QED BY <2>2, <2>3
<1>6. \A i \in 1..Len(closed') : closed'[i].at < Bucket(now)
  <2> SUFFICES ASSUME NEW i \in 1..Len(closed') PROVE closed'[i].at < Bucket(now)
    OBVIOUS
  <2>1. i = Len(closed) + 1 \/ i \in 1..Len(closed)
    BY <1>2, <1>3
  <2> QED BY <1>3, <2>1 DEF ClosedBars
<1>7. session' \subseteq Nat /\ \A b \in session' : CF!DayIndex(b) = sessionDay'
  <2>1. CASE Len(closed) = 0
    BY <1>1, <1>2, <2>1 DEF ClosedBars, CF!SessionWith
  <2>2. CASE Len(closed) # 0
    <3>1. Len(closed) \in 1..Len(closed) /\ sessionDay = CF!DayIndex(closed[Len(closed)].at)
      BY <1>2, <2>2 DEF ClosedBars
    <3>2. closed[Len(closed)].at \in Nat /\ closed[Len(closed)].at <= forming.at
      BY <1>2, <1>4, <3>1
    <3>3. sessionDay \in Nat /\ CF!DayIndex(forming.at) \in Nat /\ sessionDay <= CF!DayIndex(forming.at)
      BY <1>2, <3>1, <3>2, BucketsGrow
    <3>4. CASE CF!DayIndex(forming.at) > sessionDay
      <4>1. session' = {forming.at}
        BY <1>1, <3>3, <3>4, CandleConstants DEF CF!SessionWith
      <4> QED BY <1>1, <1>2, <4>1
    <3>5. CASE ~(CF!DayIndex(forming.at) > sessionDay)
      <4>1. session' = session \cup {forming.at}
        BY <1>1, <3>5 DEF CF!SessionWith
      <4>2. CF!DayIndex(forming.at) = sessionDay
        BY <3>3, <3>5
      <4> QED BY <1>1, <1>2, <4>1, <4>2 DEF ClosedBars
    <3> QED BY <3>4, <3>5
  <2> QED BY <2>1, <2>2
<1>8. Len(closed') # 0
  BY <1>2, <1>3
<1>9. ClosedBars'
  <2>1. Bucket(now)' = Bucket(now)
    BY DEF Bucket, CF!BucketOpenTime
  <2>2. closed'[Len(closed')] = forming
    BY <1>3
  <2>3. CF!DayIndex(closed[Len(closed)].at)' = CF!DayIndex(forming.at)
    BY <2>2 DEF CF!DayIndex
  <2>4. \A b : CF!DayIndex(b)' = CF!DayIndex(b)
    BY DEF CF!DayIndex
  <2> QED BY <1>1, <1>3, <1>5, <1>6, <1>7, <1>8, <2>1, <2>2, <2>3, <2>4 DEF ClosedBars
<1> QED BY <1>1, <1>3, <1>9

\* What a tick does to the ticks a bar has accepted.
LEMMA TickArrives ==
    ASSUME Ticked, NEW ts \in Nat, ts <= now, ticks' = Append(ticks, ts), UNCHANGED now,
           dropped' = dropped \/ dropped' = dropped \cup {Len(ticks')}
    PROVE  /\ Ticked' /\ Len(ticks') = Len(ticks) + 1 /\ ticks'[Len(ticks) + 1] = ts
           /\ \A i \in 1..Len(ticks) : ticks'[i] = ticks[i] /\ (i \in dropped' <=> i \in dropped)
           /\ (Len(ticks) + 1 \in dropped' <=> dropped' # dropped)
           /\ \A b : Cardinality(Accepted(b))' =
                 IF dropped' = dropped /\ b = Bucket(ts) THEN Cardinality(Accepted(b)) + 1 ELSE Cardinality(Accepted(b))
<1>1. /\ ticks' \in Seq(Nat) /\ Len(ticks') = Len(ticks) + 1 /\ ticks'[Len(ticks) + 1] = ts /\ Len(ticks) \in Nat
      /\ \A i \in 1..Len(ticks) : ticks'[i] = ticks[i]
  BY DEF Ticked
<1>2. Len(ticks) + 1 \notin dropped
  BY <1>1 DEF Ticked
<1>3. \A i \in 1..Len(ticks) : i \in dropped' <=> i \in dropped
  BY <1>1
<1>4. Len(ticks) + 1 \in dropped' <=> dropped' # dropped
  BY <1>1, <1>2
<1>5. Ticked'
  <2>1. dropped' \subseteq 1..Len(ticks')
    <3>1. 1..Len(ticks) \subseteq 1..Len(ticks') /\ Len(ticks') \in 1..Len(ticks')
      BY <1>1
    <3> QED BY <3>1 DEF Ticked
  <2>2. \A i \in 1..Len(ticks') : ticks'[i] <= now'
    <3> SUFFICES ASSUME NEW i \in 1..Len(ticks') PROVE ticks'[i] <= now
      OBVIOUS
    <3>1. i = Len(ticks) + 1 \/ i \in 1..Len(ticks)
      BY <1>1
    <3> QED BY <1>1, <3>1 DEF Ticked
  <2> QED BY <1>1, <2>1, <2>2 DEF Ticked
<1>6. ASSUME NEW b
      PROVE  Cardinality(Accepted(b))' =
                 IF dropped' = dropped /\ b = Bucket(ts) THEN Cardinality(Accepted(b)) + 1 ELSE Cardinality(Accepted(b))
  <2>0. Accepted(b)' = {i \in 1..Len(ticks') : i \notin dropped' /\ Bucket(ticks'[i]) = b}
    BY DEF Accepted, Bucket, CF!BucketOpenTime
  <2>a. \A i \in 1..Len(ticks') : i = Len(ticks) + 1 \/ i \in 1..Len(ticks)
    BY <1>1
  <2>b. Len(ticks) + 1 \in 1..Len(ticks') /\ \A i \in 1..Len(ticks) : i \in 1..Len(ticks')
    BY <1>1
  <2>1. CASE dropped' = dropped /\ b = Bucket(ts)
    <3>1. Accepted(b)' = Accepted(b) \cup {Len(ticks) + 1}
      BY <1>1, <1>2, <1>3, <2>0, <2>1, <2>a, <2>b DEF Accepted
    <3>2. Len(ticks) + 1 \notin Accepted(b)
      BY <1>1 DEF Accepted
    <3>3. Cardinality(Accepted(b) \cup {Len(ticks) + 1}) = Cardinality(Accepted(b)) + 1
      BY <3>2, AcceptedFinite, FS_AddElement
    <3>4. Cardinality(Accepted(b))' = Cardinality(Accepted(b) \cup {Len(ticks) + 1})
      BY <3>1
    <3> QED BY <2>1, <3>3, <3>4
  <2>2. CASE ~(dropped' = dropped /\ b = Bucket(ts))
    <3>1. Accepted(b)' = Accepted(b)
      BY <1>1, <1>3, <1>4, <2>0, <2>2, <2>a, <2>b DEF Accepted
    <3>2. Cardinality(Accepted(b))' = Cardinality(Accepted(b))
      BY <3>1
    <3> QED BY <2>2, <3>2
  <2> QED BY <2>1, <2>2
<1> QED BY <1>1, <1>3, <1>4, <1>5, <1>6

\* The bars do not change, or only the forming one.
LEMMA BarsStay ==
    ASSUME Ticked, ClosedBars, UNCHANGED now, UNCHANGED <<closed, watermark, session, sessionDay>>
    PROVE  ClosedBars'
<1>1. \A t : Bucket(t)' = Bucket(t)
  BY DEF Bucket, CF!BucketOpenTime
<1>2. Bucket(now)' = Bucket(now)
  BY DEF Bucket, CF!BucketOpenTime
<1>3. (\A b : CF!DayIndex(b)' = CF!DayIndex(b)) /\ CF!DayIndex(closed[Len(closed)].at)' = CF!DayIndex(closed[Len(closed)].at)
  BY DEF CF!DayIndex
<1> QED BY <1>2, <1>3 DEF ClosedBars

\* What the sweep and the ticks need of closed bars.
LEMMA ClosedAre ==
    ASSUME ClosedBars
    PROVE  /\ Len(closed) \in Nat
           /\ \A k \in 1..Len(closed) : closed[k] \in Candle /\ closed[k].at \in Nat
           /\ Len(closed) > 0 => watermark = closed[Len(closed)].at /\ watermark \in Nat /\ watermark # None
           /\ Len(closed) = 0 => watermark = None
           /\ \A k \in 1..Len(closed) : closed[k].at <= watermark
<1>1. Len(closed) \in Nat /\ \A k \in 1..Len(closed) : closed[k] \in Candle
  BY DEF ClosedBars
<1>2. \A k \in 1..Len(closed) : closed[k].at \in Nat
  BY <1>1 DEF Candle
<1>3. Len(closed) > 0 => watermark = closed[Len(closed)].at /\ watermark \in Nat /\ watermark # None
  <2> SUFFICES ASSUME Len(closed) > 0 PROVE watermark = closed[Len(closed)].at /\ watermark \in Nat /\ watermark # None
    OBVIOUS
  <2>1. Len(closed) \in 1..Len(closed) /\ Len(closed) # 0
    BY <1>1
  <2> QED BY <1>2, <2>1, CandleConstants DEF ClosedBars
<1>4. ASSUME NEW k \in 1..Len(closed) PROVE closed[k].at <= watermark
  <2>1. Len(closed) > 0 /\ Len(closed) \in 1..Len(closed) /\ (k = Len(closed) \/ k < Len(closed))
    BY <1>1
  <2>2. k = Len(closed) \/ closed[k].at < closed[Len(closed)].at
    BY <2>1 DEF ClosedBars
  <2> QED BY <1>2, <1>3, <2>1, <2>2
<1> QED BY <1>1, <1>2, <1>3, <1>4 DEF ClosedBars

LEMMA CandlesSweep ==
    ASSUME CandlesInv, CF!SweepBarCloses
    PROVE  CandlesInv'
<1>0. UNCHANGED <<now, ticks, dropped>> /\ Ticked /\ ClosedBars /\ FormingBar /\ CountedTicks
  BY DEF CF!SweepBarCloses, CandlesInv
<1>1. Ticked' /\ (\A b : Accepted(b)' = Accepted(b)) /\ (\A t : Bucket(t)' = Bucket(t)) /\ (\A i : Bucket(ticks[i])' = Bucket(ticks[i]))
  BY <1>0 DEF Ticked, Accepted, Bucket, CF!BucketOpenTime
<1>2. CASE forming # None /\ CF!Elapsed(forming)
  <2>1. CF!Graduate(forming) /\ forming' = None
    BY <1>2 DEF CF!SweepBarCloses
  <2>2. forming.at < Bucket(now)
    <3>1. forming.at \in Nat /\ Bucket(now) \in Nat
      BY <1>0, <1>2, BucketsGrow DEF FormingBar, Candle, Ticked
    <3> QED BY <1>2, <3>1 DEF CF!Elapsed, Bucket
  <2>3. /\ ClosedBars' /\ Len(closed') = Len(closed) + 1 /\ closed'[Len(closed) + 1] = forming
        /\ (\A k \in 1..Len(closed) : closed'[k] = closed[k]) /\ watermark' = forming.at
    BY <1>0, <1>2, <2>1, <2>2, CandleGraduates
  <2>4. Len(closed) \in Nat /\ (\A k \in 1..Len(closed) : closed[k].at \in Nat) /\ (Len(closed) > 0 => watermark \in Nat /\ watermark < forming.at)
        /\ (Len(closed) = 0 => watermark = None) /\ forming.at \in Nat
    BY <1>0, <1>2, ClosedAre DEF FormingBar, Candle
  <2>5. \A k \in 1..Len(closed') : closed'[k].vol = Cardinality(Accepted(closed'[k].at))
    <3> SUFFICES ASSUME NEW k \in 1..Len(closed') PROVE closed'[k].vol = Cardinality(Accepted(closed'[k].at))
      OBVIOUS
    <3>1. k = Len(closed) + 1 \/ k \in 1..Len(closed)
      BY <2>3, <2>4
    <3> QED BY <1>0, <1>2, <2>3, <3>1 DEF CountedTicks
  <2>6. \A i \in 1..Len(ticks) :
          IF i \in dropped THEN watermark' # None /\ Bucket(ticks[i]) <= watermark'
          ELSE \E k \in 1..Len(closed') : closed'[k].at = Bucket(ticks[i])
    <3> SUFFICES ASSUME NEW i \in 1..Len(ticks)
                 PROVE  IF i \in dropped THEN watermark' # None /\ Bucket(ticks[i]) <= watermark'
                        ELSE \E k \in 1..Len(closed') : closed'[k].at = Bucket(ticks[i])
      OBVIOUS
    <3>1. IF i \in dropped THEN watermark # None /\ Bucket(ticks[i]) <= watermark ELSE Barred(Bucket(ticks[i]))
      BY <1>0 DEF CountedTicks
    <3>2. CASE i \in dropped
      <4>1. ticks[i] \in Nat
        BY <1>0 DEF Ticked
      <4>2. Bucket(ticks[i]) \in Nat
        BY <4>1, BucketsGrow
      <4>3. Len(closed) > 0
        BY <2>4, <3>1, <3>2
      <4> QED BY <2>3, <2>4, <3>1, <3>2, <4>2, <4>3, CandleConstants
    <3>3. CASE i \notin dropped
      <4>1. Len(closed) + 1 \in 1..Len(closed') /\ \A k \in 1..Len(closed) : k \in 1..Len(closed')
        BY <2>3, <2>4
      <4> QED BY <2>3, <3>1, <3>3, <4>1 DEF Barred
    <3> QED BY <3>2, <3>3
  <2>7. CountedTicks'
    <3>1. \A k : Cardinality(Accepted(closed[k].at))' = Cardinality(Accepted(closed'[k].at))
      BY <1>0 DEF Accepted, Bucket, CF!BucketOpenTime
    <3>2. \A i : Barred(Bucket(ticks[i]))' <=> \E k \in 1..Len(closed') : closed'[k].at = Bucket(ticks[i])
      BY <1>0, <2>1 DEF Barred, Bucket, CF!BucketOpenTime
    <3> QED BY <1>0, <1>1, <2>1, <2>5, <2>6, <3>1, <3>2 DEF CountedTicks
  <2> QED BY <1>1, <2>1, <2>3, <2>7 DEF CandlesInv, FormingBar
<1>3. CASE ~(forming # None /\ CF!Elapsed(forming))
  <2>1. UNCHANGED <<forming, closed, watermark, session, sessionDay>>
    BY <1>3 DEF CF!SweepBarCloses, CF!NoBarCloses
  <2>2. ClosedBars'
    BY <1>0, <2>1, BarsStay
  <2>3. FormingBar'
    BY <1>0, <2>1 DEF FormingBar, Bucket, CF!BucketOpenTime
  <2>4. CountedTicks'
    BY <1>0, <2>1 DEF CountedTicks, Barred, Accepted, Bucket, CF!BucketOpenTime
  <2> QED BY <1>1, <2>2, <2>3, <2>4 DEF CandlesInv
<1> QED BY <1>2, <1>3

\* The ticks are those of before and one more: what is left to show is about the bars.
LEMMA TickCounts ==
    ASSUME CandlesInv, NEW ts \in Nat, ts <= now, ticks' = Append(ticks, ts), UNCHANGED now,
           dropped' = dropped \/ dropped' = dropped \cup {Len(ticks')},
           ClosedBars', FormingBar',
           \A k \in 1..Len(closed') :
               \/ closed'[k].at # Bucket(ts) /\ closed'[k].vol = Cardinality(Accepted(closed'[k].at))
               \/ dropped' # dropped /\ closed'[k].vol = Cardinality(Accepted(closed'[k].at)),
           forming' # None =>
               \/ dropped' # dropped /\ forming'.vol = Cardinality(Accepted(forming'.at))
               \/ dropped' = dropped /\ forming'.at = Bucket(ts) /\ forming'.vol = Cardinality(Accepted(Bucket(ts))) + 1,
           \A b : Barred(b) => Barred(b)',
           watermark # None => watermark' # None /\ \A n \in Nat : n <= watermark => n <= watermark',
           IF dropped' # dropped THEN watermark' # None /\ Bucket(ts) <= watermark' ELSE Barred(Bucket(ts))'
    PROVE  CandlesInv'
<1>0. Ticked /\ CountedTicks
  BY DEF CandlesInv
<1>1. /\ Ticked' /\ Len(ticks') = Len(ticks) + 1 /\ ticks'[Len(ticks) + 1] = ts
      /\ \A i \in 1..Len(ticks) : ticks'[i] = ticks[i] /\ (i \in dropped' <=> i \in dropped)
      /\ (Len(ticks) + 1 \in dropped' <=> dropped' # dropped)
  BY <1>0, TickArrives
<1>2. \A b : Cardinality(Accepted(b))' =
          IF dropped' = dropped /\ b = Bucket(ts) THEN Cardinality(Accepted(b)) + 1 ELSE Cardinality(Accepted(b))
  BY <1>0, TickArrives
<1>3. Len(ticks) \in Nat /\ \A i \in 1..Len(ticks) : ticks[i] \in Nat /\ Bucket(ticks[i]) \in Nat
  <2>1. Len(ticks) \in Nat /\ \A i \in 1..Len(ticks) : ticks[i] \in Nat
    BY <1>0 DEF Ticked
  <2> QED BY <2>1, BucketsGrow
<1> DEFINE N(b) == Cardinality({i \in 1..Len(ticks') : i \notin dropped' /\ Bucket(ticks'[i]) = b})
<1>4. \A b : N(b) = Cardinality(Accepted(b))'
  BY DEF Accepted, Bucket, CF!BucketOpenTime
<1>5. CountedTicks' <=>
        /\ \A k \in 1..Len(closed') : closed'[k].vol = N(closed'[k].at)
        /\ forming' # None => forming'.vol = N(forming'.at)
        /\ \A i \in 1..Len(ticks') :
              IF i \in dropped' THEN watermark' # None /\ Bucket(ticks'[i]) <= watermark'
              ELSE (\E k \in 1..Len(closed') : closed'[k].at = Bucket(ticks'[i])) \/ (forming' # None /\ forming'.at = Bucket(ticks'[i]))
  BY DEF CountedTicks, Accepted, Barred, Bucket, CF!BucketOpenTime
<1> HIDE DEF N
<1>6. \A b : N(b) = IF dropped' = dropped /\ b = Bucket(ts) THEN Cardinality(Accepted(b)) + 1 ELSE Cardinality(Accepted(b))
  BY <1>2, <1>4
<1>7. \A k \in 1..Len(closed') : closed'[k].vol = N(closed'[k].at)
  BY <1>6
<1>8. forming' # None => forming'.vol = N(forming'.at)
  BY <1>6
<1>9. \A b : Barred(b)' <=> (\E k \in 1..Len(closed') : closed'[k].at = b) \/ (forming' # None /\ forming'.at = b)
  BY DEF Barred
<1>10. ASSUME NEW i \in 1..Len(ticks')
       PROVE  IF i \in dropped' THEN watermark' # None /\ Bucket(ticks'[i]) <= watermark'
              ELSE (\E k \in 1..Len(closed') : closed'[k].at = Bucket(ticks'[i])) \/ (forming' # None /\ forming'.at = Bucket(ticks'[i]))
  <2>1. i = Len(ticks) + 1 \/ i \in 1..Len(ticks)
    BY <1>1, <1>3
  <2>2. CASE i = Len(ticks) + 1
    BY <1>1, <1>9, <2>2
  <2>3. CASE i \in 1..Len(ticks)
    <3>1. IF i \in dropped THEN watermark # None /\ Bucket(ticks[i]) <= watermark ELSE Barred(Bucket(ticks[i]))
      BY <1>0, <2>3 DEF CountedTicks
    <3>2. ticks'[i] = ticks[i] /\ (i \in dropped' <=> i \in dropped) /\ Bucket(ticks[i]) \in Nat
      BY <1>1, <1>3, <2>3
    <3>3. CASE i \in dropped
      BY <3>1, <3>2, <3>3
    <3>4. CASE i \notin dropped
      BY <1>9, <3>1, <3>2, <3>4
    <3> QED BY <3>3, <3>4
  <2> QED BY <2>1, <2>2, <2>3
<1>11. CountedTicks'
  BY <1>5, <1>7, <1>8, <1>10
<1> QED BY <1>1, <1>11 DEF CandlesInv

LEMMA CandlesTicker ==
    ASSUME CandlesInv, NEW ts \in CF!Times, CF!HandleTicker(ts)
    PROVE  CandlesInv'
<1> DEFINE b == Bucket(ts)
<1>0. Ticked /\ ClosedBars /\ FormingBar /\ CountedTicks /\ UNCHANGED now
  BY DEF CF!HandleTicker, CandlesInv
<1>1. ts \in Nat /\ ts <= now /\ ticks' = Append(ticks, ts) /\ Len(ticks) \in Nat /\ (ticks # <<>> => ts >= ticks[Len(ticks)])
  BY <1>0 DEF CF!HandleTicker, CF!Times, Ticked
<1>2. b \in Nat /\ Bucket(now) \in Nat /\ b <= Bucket(now)
  BY <1>0, <1>1, BucketsGrow DEF Ticked
<1>3. Len(ticks') = Len(ticks) + 1 /\ ticks'[Len(ticks')] = ts
  BY <1>0, <1>1 DEF Ticked
<1>4. CF!IngestCandle(b)
  BY DEF CF!HandleTicker, Bucket
<1>5. /\ Len(closed) \in Nat
      /\ \A k \in 1..Len(closed) : closed[k] \in Candle /\ closed[k].at \in Nat
      /\ Len(closed) > 0 => watermark = closed[Len(closed)].at /\ watermark \in Nat /\ watermark # None
      /\ Len(closed) = 0 => watermark = None
      /\ \A k \in 1..Len(closed) : closed[k].at <= watermark
  BY <1>0, ClosedAre
<1>6. forming # None =>
        /\ forming \in Candle /\ forming.at \in Nat /\ forming.vol \in Nat /\ forming.at <= b
        /\ \A k \in 1..Len(closed) : closed[k].at < forming.at
        /\ watermark # None => watermark \in Nat /\ watermark < forming.at
  <2> SUFFICES ASSUME forming # None
               PROVE  /\ forming \in Candle /\ forming.at \in Nat /\ forming.vol \in Nat /\ forming.at <= b
                      /\ \A k \in 1..Len(closed) : closed[k].at < forming.at
                      /\ watermark # None => watermark \in Nat /\ watermark < forming.at
    OBVIOUS
  <2>1. forming \in Candle /\ Len(ticks) > 0 /\ forming.at <= Bucket(ticks[Len(ticks)]) /\ (Len(closed) > 0 => closed[Len(closed)].at < forming.at)
    BY <1>0 DEF FormingBar
  <2>2. forming.at \in Nat /\ forming.vol \in Nat
    BY <2>1 DEF Candle
  <2>3. ticks # <<>> /\ ticks[Len(ticks)] \in Nat
    BY <1>0, <2>1 DEF Ticked
  <2>4. Bucket(ticks[Len(ticks)]) \in Nat /\ Bucket(ticks[Len(ticks)]) <= b
    BY <1>1, <2>3, BucketsGrow
  <2>5. forming.at <= b
    BY <1>2, <2>1, <2>2, <2>4
  <2>6. watermark # None => watermark \in Nat /\ watermark < forming.at
    BY <1>5, <2>1
  <2>7. \A k \in 1..Len(closed) : closed[k].at < forming.at
    <3> SUFFICES ASSUME NEW k \in 1..Len(closed) PROVE closed[k].at < forming.at
      OBVIOUS
    <3>1. Len(closed) > 0
      BY <1>5
    <3> QED BY <1>5, <2>2, <2>6, <3>1
  <2> QED BY <2>1, <2>2, <2>5, <2>6, <2>7
<1> HIDE DEF b
<1>a. \A t : Bucket(t)' = Bucket(t)
  BY DEF Bucket, CF!BucketOpenTime
<1>b. Bucket(ticks[Len(ticks)])' = b
  BY <1>3 DEF b, Bucket, CF!BucketOpenTime
\* A bar no tick was accepted for has none.
<1>c. ASSUME \A k \in 1..Len(closed) : closed[k].at # b, forming # None => forming.at # b
      PROVE  Cardinality(Accepted(b)) = 0
  <2>1. \A i \in 1..Len(ticks) : i \notin dropped => Bucket(ticks[i]) # b
    BY <1>0, <1>c DEF CountedTicks, Barred
  <2>2. Accepted(b) = {}
    BY <2>1 DEF Accepted
  <2> QED BY <2>2, FS_EmptySet
<1>7. CASE CF!Late(b)
  <2>1. dropped' = dropped \cup {Len(ticks')} /\ UNCHANGED <<forming, closed, watermark, session, sessionDay>>
    BY <1>4, <1>7 DEF CF!IngestCandle, CF!NoBarCloses
  <2>2. watermark # None /\ b <= watermark
    BY <1>7 DEF CF!Late
  <2>3. Len(ticks') \notin dropped
    BY <1>0, <1>1, <1>3 DEF Ticked
  <2>4. dropped' # dropped
    BY <2>1, <2>3
  <2>5. ClosedBars'
    BY <1>0, <2>1, BarsStay
  <2>6. FormingBar'
    <3>1. Len(ticks') > 0
      BY <1>1, <1>3
    <3> QED BY <1>0, <1>6, <1>b, <2>1, <3>1 DEF FormingBar
  <2>7. \A k \in 1..Len(closed') : closed'[k].vol = Cardinality(Accepted(closed'[k].at))
    BY <1>0, <2>1 DEF CountedTicks
  <2>8. forming' # None => forming'.vol = Cardinality(Accepted(forming'.at))
    BY <1>0, <2>1 DEF CountedTicks
  <2>9. \A c : Barred(c) => Barred(c)'
    BY <2>1 DEF Barred
  <2> QED BY <1>0, <1>1, <2>1, <2>2, <2>4, <2>5, <2>6, <2>7, <2>8, <2>9, TickCounts DEF b
<1>8. CASE ~CF!Late(b) /\ forming = None
  <2>0. ~CF!Crosses(b)
    BY <1>8 DEF CF!Crosses
  <2>1. dropped' = dropped /\ UNCHANGED <<closed, watermark, session, sessionDay>> /\ forming' = [at |-> b, vol |-> 1]
    BY <1>4, <1>8, <2>0 DEF CF!IngestCandle, CF!NoBarCloses
  <2>2. \A k \in 1..Len(closed) : closed[k].at < b
    <3> SUFFICES ASSUME NEW k \in 1..Len(closed) PROVE closed[k].at < b
      OBVIOUS
    <3>1. Len(closed) > 0
      BY <1>5
    <3>2. ~(b <= watermark) /\ watermark \in Nat
      BY <1>5, <1>8, <3>1 DEF CF!Late
    <3> QED BY <1>2, <1>5, <3>2
  <2>3. \A k \in 1..Len(closed) : closed[k].at # b
    BY <1>2, <1>5, <2>2
  <2>4. Cardinality(Accepted(b)) = 0
    BY <1>8, <1>c, <2>3
  <2>5. ClosedBars'
    BY <1>0, <2>1, BarsStay
  <2>6. forming' \in Candle /\ forming'.at = b /\ forming'.vol = 1 /\ forming' # None
    BY <1>2, <2>1, CandleConstants DEF Candle
  <2>7. FormingBar'
    <3>1. Len(ticks') > 0
      BY <1>1, <1>3
    <3>2. Len(closed) > 0 => closed[Len(closed)].at < b
      BY <1>5, <2>2
    <3>3. b <= b
      BY <1>2
    <3> QED BY <1>b, <2>1, <2>6, <3>1, <3>2, <3>3 DEF FormingBar
  <2>8. \A k \in 1..Len(closed') : closed'[k].at # b /\ closed'[k].vol = Cardinality(Accepted(closed'[k].at))
    BY <1>0, <2>1, <2>3 DEF CountedTicks
  <2>9. forming'.vol = Cardinality(Accepted(b)) + 1
    BY <2>4, <2>6
  <2>10. (\A c : Barred(c) => Barred(c)') /\ Barred(b)'
    BY <1>8, <2>1, <2>6 DEF Barred
  <2> QED BY <1>0, <1>1, <2>1, <2>5, <2>6, <2>7, <2>8, <2>9, <2>10, TickCounts DEF b
<1>9. CASE ~CF!Late(b) /\ forming # None /\ CF!Crosses(b)
  <2>1. dropped' = dropped /\ CF!Graduate(forming) /\ forming' = [at |-> b, vol |-> 1]
    BY <1>4, <1>9 DEF CF!IngestCandle
  <2>2. forming.at < b
    BY <1>2, <1>6, <1>9 DEF CF!Crosses
  <2>3. forming.at < Bucket(now)
    BY <1>2, <1>6, <1>9, <2>2
  <2>4. /\ ClosedBars' /\ Len(closed') = Len(closed) + 1 /\ closed'[Len(closed) + 1] = forming
        /\ (\A k \in 1..Len(closed) : closed'[k] = closed[k]) /\ watermark' = forming.at
    BY <1>0, <1>9, <2>1, <2>3, CandleGraduates
  <2>5. \A k \in 1..Len(closed') : k = Len(closed) + 1 \/ k \in 1..Len(closed)
    BY <1>5, <2>4
  <2>6. (\A k \in 1..Len(closed) : closed[k].at # b) /\ forming.at # b
    <3>1. forming.at # b
      BY <1>2, <1>6, <1>9, <2>2
    <3>2. ASSUME NEW k \in 1..Len(closed) PROVE closed[k].at # b
      BY <1>2, <1>5, <1>6, <1>9, <2>2
    <3> QED BY <3>1, <3>2
  <2>7. Cardinality(Accepted(b)) = 0
    BY <1>c, <2>6
  <2>8. forming' \in Candle /\ forming'.at = b /\ forming'.vol = 1 /\ forming' # None
    BY <1>2, <2>1, CandleConstants DEF Candle
  <2>9. FormingBar'
    <3>1. Len(ticks') > 0
      BY <1>1, <1>3
    <3>2. closed'[Len(closed')].at < b
      BY <2>2, <2>4
    <3>3. b <= b
      BY <1>2
    <3> QED BY <1>b, <2>8, <3>1, <3>2, <3>3 DEF FormingBar
  <2>10. \A k \in 1..Len(closed') : closed'[k].at # b /\ closed'[k].vol = Cardinality(Accepted(closed'[k].at))
    BY <1>0, <1>9, <2>4, <2>5, <2>6 DEF CountedTicks
  <2>11. forming'.vol = Cardinality(Accepted(b)) + 1
    BY <2>7, <2>8
  <2>12. Barred(b)' /\ \A c : Barred(c) => Barred(c)'
    <3>1. Len(closed) + 1 \in 1..Len(closed') /\ \A k \in 1..Len(closed) : k \in 1..Len(closed')
      BY <1>5, <2>4
    <3> QED BY <2>4, <2>8, <3>1 DEF Barred
  <2>13. watermark # None => watermark' # None /\ \A n \in Nat : n <= watermark => n <= watermark'
    <3>1. watermark' \in Nat
      BY <1>6, <1>9, <2>4
    <3> QED BY <1>6, <1>9, <2>4, <3>1, CandleConstants
  <2> QED BY <1>0, <1>1, <2>1, <2>4, <2>8, <2>9, <2>10, <2>11, <2>12, <2>13, TickCounts DEF b
<1>10. CASE ~CF!Late(b) /\ forming # None /\ ~CF!Crosses(b)
  <2>1. dropped' = dropped /\ UNCHANGED <<closed, watermark, session, sessionDay>> /\ forming' = [forming EXCEPT !.vol = @ + 1]
    BY <1>4, <1>10 DEF CF!IngestCandle, CF!NoBarCloses
  <2>2. forming.at = b
    BY <1>2, <1>6, <1>10 DEF CF!Crosses
  <2>3. forming' \in Candle /\ forming'.at = b /\ forming'.vol = forming.vol + 1
    BY <1>6, <1>10, <2>1, <2>2 DEF Candle
  <2>4. forming' # None
    BY <2>3, CandleConstants
  <2>5. ClosedBars'
    BY <1>0, <2>1, BarsStay
  <2>6. FormingBar'
    <3>1. Len(ticks') > 0
      BY <1>1, <1>3
    <3>2. Len(closed) > 0 => closed[Len(closed)].at < b
      BY <1>0, <1>10, <2>2 DEF FormingBar
    <3>3. b <= b
      BY <1>2
    <3> QED BY <1>b, <2>1, <2>3, <3>1, <3>2, <3>3 DEF FormingBar
  <2>7. \A k \in 1..Len(closed') : closed'[k].at # b /\ closed'[k].vol = Cardinality(Accepted(closed'[k].at))
    <3>1. \A k \in 1..Len(closed) : closed[k].at # b
      BY <1>2, <1>5, <1>6, <1>10, <2>2
    <3> QED BY <1>0, <2>1, <3>1 DEF CountedTicks
  <2>8. forming'.vol = Cardinality(Accepted(b)) + 1
    BY <1>0, <1>10, <2>2, <2>3 DEF CountedTicks
  <2>9. (\A c : Barred(c) => Barred(c)') /\ Barred(b)'
    BY <1>10, <2>1, <2>2, <2>3, <2>4 DEF Barred
  <2> QED BY <1>0, <1>1, <2>1, <2>3, <2>5, <2>6, <2>7, <2>8, <2>9, TickCounts DEF b
<1> QED BY <1>7, <1>8, <1>9, <1>10

LEMMA CandlesQuiet ==
    CandlesInv /\ UNCHANGED <<now, ticks, forming, watermark, closed, session, sessionDay, dropped>> => CandlesInv'
<1> SUFFICES ASSUME CandlesInv, UNCHANGED <<now, ticks, forming, watermark, closed, session, sessionDay, dropped>>
             PROVE  CandlesInv'
  OBVIOUS
<1>1. Ticked /\ ClosedBars /\ FormingBar /\ CountedTicks
  BY DEF CandlesInv
<1>2. Ticked'
  BY <1>1 DEF Ticked
<1>3. ClosedBars'
  BY <1>1, BarsStay
<1>4. FormingBar'
  BY <1>1 DEF FormingBar, Bucket, CF!BucketOpenTime
<1>5. CountedTicks'
  BY <1>1 DEF CountedTicks, Barred, Accepted, Bucket, CF!BucketOpenTime
<1> QED BY <1>2, <1>3, <1>4, <1>5 DEF CandlesInv

\* Time that passes ends no bar by itself.
LEMMA CandlesTick ==
    ASSUME CandlesInv, CF!Tick
    PROVE  CandlesInv'
<1>0. Ticked /\ ClosedBars /\ FormingBar /\ CountedTicks
  BY DEF CandlesInv
<1>1. now' = now + 1 /\ UNCHANGED <<ticks, forming, watermark, closed, session, sessionDay, dropped>>
  BY DEF CF!Tick
<1>2. PICK n : n = now'
  BY Zenon
<1>3. now \in Nat /\ n \in Nat /\ now <= n
  BY <1>0, <1>1, <1>2 DEF Ticked
<1>4. Bucket(now) \in Nat /\ Bucket(n) \in Nat /\ Bucket(now) <= Bucket(n) /\ Bucket(now)' = Bucket(n)
  <2>1. Bucket(now)' = Bucket(n)
    BY <1>2 DEF Bucket, CF!BucketOpenTime
  <2> QED BY <1>3, <2>1, BucketsGrow
<1>5. Ticked'
  <2>1. \A i \in 1..Len(ticks) : ticks[i] <= n
    <3> SUFFICES ASSUME NEW i \in 1..Len(ticks) PROVE ticks[i] <= n
      OBVIOUS
    <3>1. ticks[i] \in Nat /\ ticks[i] <= now
      BY <1>0 DEF Ticked
    <3> QED BY <1>3, <3>1
  <2> QED BY <1>0, <1>1, <1>2, <1>3, <2>1 DEF Ticked
<1>6. ClosedBars'
  <2>1. \A i \in 1..Len(closed) : closed[i].at < Bucket(n)
    <3> SUFFICES ASSUME NEW i \in 1..Len(closed) PROVE closed[i].at < Bucket(n)
      OBVIOUS
    <3>1. closed[i].at \in Nat /\ closed[i].at < Bucket(now)
      BY <1>0, ClosedAre DEF ClosedBars
    <3> QED BY <1>4, <3>1
  <2>2. (\A b : CF!DayIndex(b)' = CF!DayIndex(b)) /\ CF!DayIndex(closed[Len(closed)].at)' = CF!DayIndex(closed[Len(closed)].at)
    BY <1>1 DEF CF!DayIndex
  <2> QED BY <1>0, <1>1, <1>4, <2>1, <2>2 DEF ClosedBars
<1>7. FormingBar'
  BY <1>0, <1>1 DEF FormingBar, Bucket, CF!BucketOpenTime
<1>8. CountedTicks'
  BY <1>0, <1>1 DEF CountedTicks, Barred, Accepted, Bucket, CF!BucketOpenTime
<1> QED BY <1>5, <1>6, <1>7, <1>8 DEF CandlesInv

LEMMA CandlesStep == CandlesInv /\ CF!Next => CandlesInv'
<1> SUFFICES ASSUME CandlesInv, CF!Next PROVE CandlesInv'
  OBVIOUS
<1>1. CASE CF!Escalate \/ CF!Deescalate \/ CF!LoopTurns \/ CF!LoopFails
  <2>1. UNCHANGED CF!feed
    BY <1>1 DEF CF!Escalate, CF!Deescalate, CF!LoopTurns, CF!LoopFails
  <2> QED BY <2>1, CandlesQuiet DEF CF!feed
<1> QED BY <1>1, CandlesTicker, CandlesSweep, CandlesTick DEF CF!Next

\* What the invariant says of the bars, in the words of the properties.
LEMMA CandlesSound == CandlesInv => CF!BarsClosedOnce /\ CF!TicksInOwnBar /\ CF!NoForming /\ CF!SessionIsOneDay
<1> SUFFICES ASSUME CandlesInv PROVE CF!BarsClosedOnce /\ CF!TicksInOwnBar /\ CF!NoForming /\ CF!SessionIsOneDay
  OBVIOUS
<1>0. Ticked /\ ClosedBars /\ FormingBar /\ CountedTicks
  BY DEF CandlesInv
<1>1. Len(closed) \in Nat /\ closed \in Seq(Candle)
  BY <1>0 DEF ClosedBars
<1>2. CF!BarsClosedOnce
  <2> SUFFICES ASSUME NEW i \in 1..(Len(closed) - 1) PROVE closed[i].at < closed[i + 1].at
    BY DEF CF!BarsClosedOnce
  <2>1. i \in 1..Len(closed) /\ i + 1 \in 1..Len(closed) /\ i < i + 1
    BY <1>1
  <2> QED BY <1>0, <2>1 DEF ClosedBars
<1>3. CF!NoForming
  BY <1>0 DEF ClosedBars, CF!NoForming, Bucket
<1>4. CF!SessionIsOneDay
  BY <1>0 DEF ClosedBars, CF!SessionIsOneDay
<1>5. CF!TicksInOwnBar
  <2> DEFINE open == IF forming = None THEN <<>> ELSE <<forming>>
             bars == closed \o open
  <2>1. ASSUME NEW b PROVE CF!TicksIn(b) = Cardinality(Accepted(b))
    BY DEF CF!TicksIn, Accepted, Bucket, CF!Cardinality, Cardinality, CF!IsFiniteSet, IsFiniteSet
  <2>2. /\ Len(bars) \in Nat /\ Len(bars) >= Len(closed) /\ (\A k \in 1..Len(closed) : bars[k] = closed[k])
        /\ IF forming = None THEN Len(bars) = Len(closed) ELSE Len(bars) = Len(closed) + 1 /\ bars[Len(closed) + 1] = forming
    <3>1. CASE forming = None
      <4>1. bars = closed
        BY <1>1, <3>1, ConcatEmptySeq
      <4> QED BY <1>1, <3>1, <4>1
    <3>2. CASE forming # None
      <4>1. forming \in Candle
        BY <1>0, <3>2 DEF FormingBar
      <4>2. open = <<forming>> /\ open \in Seq(Candle) /\ Len(open) = 1 /\ open[1] = forming
        BY <3>2, <4>1
      <4> HIDE DEF open
      <4>3. Len(bars) = Len(closed) + 1 /\ (\A k \in 1..Len(closed) : bars[k] = closed[k]) /\ bars[Len(closed) + 1] = open[1]
        BY <1>1, <4>2
      <4> QED BY <1>1, <3>2, <4>2, <4>3
    <3> QED BY <3>1, <3>2
  <2>3. CF!TicksInOwnBar <=>
          /\ \A k \in 1..Len(bars) : bars[k].vol = CF!TicksIn(bars[k].at)
          /\ \A i \in 1..Len(ticks) :
                IF i \in dropped THEN watermark # None /\ Bucket(ticks[i]) <= watermark
                ELSE \E k \in 1..Len(bars) : bars[k].at = Bucket(ticks[i])
    BY DEF CF!TicksInOwnBar, Bucket
  <2> HIDE DEF bars
  <2>4. \A k \in 1..Len(bars) : bars[k].vol = Cardinality(Accepted(bars[k].at))
    <3> SUFFICES ASSUME NEW k \in 1..Len(bars) PROVE bars[k].vol = Cardinality(Accepted(bars[k].at))
      OBVIOUS
    <3>1. k \in 1..Len(closed) \/ (forming # None /\ k = Len(closed) + 1)
      BY <1>1, <2>2
    <3> QED BY <1>0, <2>2, <3>1 DEF CountedTicks
  <2>5. \A b : Barred(b) => \E k \in 1..Len(bars) : bars[k].at = b
    <3> SUFFICES ASSUME NEW b, Barred(b) PROVE \E k \in 1..Len(bars) : bars[k].at = b
      OBVIOUS
    <3>1. CASE \E k \in 1..Len(closed) : closed[k].at = b
      <4>1. PICK k \in 1..Len(closed) : closed[k].at = b
        BY <3>1
      <4>2. k \in 1..Len(bars) /\ bars[k] = closed[k]
        BY <1>1, <2>2
      <4> QED BY <4>1, <4>2
    <3>2. CASE forming # None /\ forming.at = b
      <4>1. Len(closed) + 1 \in 1..Len(bars) /\ bars[Len(closed) + 1] = forming
        BY <1>1, <2>2, <3>2
      <4> QED BY <3>2, <4>1
    <3> QED BY <3>1, <3>2 DEF Barred
  <2>6. \A i \in 1..Len(ticks) :
          IF i \in dropped THEN watermark # None /\ Bucket(ticks[i]) <= watermark
          ELSE \E k \in 1..Len(bars) : bars[k].at = Bucket(ticks[i])
    BY <1>0, <2>5 DEF CountedTicks
  <2> QED BY <2>1, <2>3, <2>4, <2>6
<1> QED BY <1>2, <1>3, <1>4, <1>5

-----------------------------------------------------------------------------
(* The theorems of the feeds, and of what no step may do.                  *)

FeedsPart ==
    /\ part = "calls" => CallsInv
    /\ part = "fills" => FillsInv
    /\ part = "candles" => CandlesInv

LEMMA FeedsInitial == Init => FeedsPart
BY CallsInitially, FillsInitially, CandlesInitially DEF Init, FeedsPart

LEMMA FeedsStay == FeedsPart /\ [Next]_vars => FeedsPart'
<1> SUFFICES ASSUME FeedsPart, [Next]_vars PROVE FeedsPart'
  OBVIOUS
<1>1. CASE Next
  <2>1. part' = part /\ (part = "calls" => EC!Next) /\ (part = "fills" => PF!Next) /\ (part = "candles" => CF!Next)
    BY <1>1 DEF Next
  <2> QED BY <2>1, CallsStep, FillsStep, CandlesStep DEF FeedsPart
<1>2. CASE UNCHANGED vars
  <2>1. part' = part /\ UNCHANGED EC!vars /\ UNCHANGED PF!vars /\ UNCHANGED CF!vars
    BY <1>2 DEF vars
  <2>2. FillsInv => FillsInv'
    BY <2>1, FillsQuiet DEF FillsInv, PF!vars, PF!fills, PF!account, PF!probe
  <2>3. CandlesInv => CandlesInv'
    BY <2>1, CandlesQuiet DEF CF!vars
  <2> QED BY <2>1, <2>2, <2>3, CallsQuiet DEF FeedsPart
<1> QED BY <1>1, <1>2

\* However callers, retries and bans interleave, fewer than twice the order capacity leave in any window,
\* which is what a bucket that starts full and refills can let through (RateLimitPolicyService); racing
\* createOrder calls of one id are answered with one fill (StreamingFillAdapter); and ticks and the
\* wall-clock sweep close each bar once and in order, each with exactly the ticks of its own interval that
\* did not come late, in a session of one day (SymbolMarketState).
THEOREM FeedsAreSound == Spec => []FeedsSound
<1>1. ASSUME FeedsPart PROVE FeedsSound
  BY <1>1, CallsSound, FillsSound, CandlesSound DEF FeedsPart, FeedsSound
<1> QED BY <1>1, FeedsInitial, FeedsStay, PTL DEF Spec

\* No step of any engine appends to a damaged chain (BootModeChainService), no further ban shortens a
\* freeze that is running (RateLimitPolicyService), and no take-profit starts before the price was seen
\* on the near side of its level since the monitor was armed (LocalProtectiveMonitor).
THEOREM NothingIsRisked == Spec => NothingRisked
<1> DEFINE Allowed ==
        /\ part = "boot" => BP!LeavesDamaged
        /\ part = "calls" => EC!FreezeHolds
        /\ part = "exits" => XW!TakesEarned
<1>1. ASSUME BootPart, ExitsPart, FeedsPart, [Next]_vars PROVE [Allowed]_vars
  <2> SUFFICES ASSUME Next PROVE Allowed
    BY <1>1
  <2>1. (part = "calls" => EC!Next) /\ (part = "exits" => XW!Next) /\ (part = "boot" => BP!Next)
    BY DEF Next
  <2>2. part = "calls" => EC!FreezeHolds
    BY <1>1, <2>1, CallsStep DEF FeedsPart
  <2>3. part = "exits" => XW!TakesEarned
    BY <1>1, <2>1, WatchersStep DEF ExitsPart
  <2>4. part = "boot" => BP!LeavesDamaged
    BY <1>1, <2>1, BootStepKeeps DEF BootPart
  <2> QED BY <2>2, <2>3, <2>4
<1>2. [][Allowed]_vars => NothingRisked
  BY DEF NothingRisked
<1> QED
  BY <1>1, <1>2, BootInitial, BootStays, ExitsInitial, ExitsStay, FeedsInitial, FeedsStay, PTL DEF Spec
=============================================================================
