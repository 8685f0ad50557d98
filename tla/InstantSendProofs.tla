------------------------- MODULE InstantSendProofs --------------------------
(***************************************************************************)
(* The tables of CInstantSendDb agree, the tracker of unlocked             *)
(* transactions is closed and the two maps of locks being created name the *)
(* same locks, for any transactions, blocks and interleaving of threads.   *)
(***************************************************************************)
EXTENDS InstantSend, TLAPS

-----------------------------------------------------------------------------
(* The invariant, and what the operators of InstantSend return.            *)

Thread == {"work", "sig"}
AnyBlock == Block \cup {NoBlock}

\* The SyncTransaction calls of validation.
Calls == [tx : Tx, pindex : AnyBlock, inBlock : BOOLEAN]

JobName == {"idle", "accept", "accepted", "walk", "disconnect", "connect", "abort", "last", "tip"}

Job == [job : JobName, tx : Tx \cup {NoTx}, old : AnyBlock, target : AnyBlock,
        evicted : Seq(Calls), connected : Seq(Calls), calls : Seq(Calls),
        sync : {"start", "process", "track"}, skip : BOOLEAN]

\* The holder of cs_main at block b.
MainOK(m, b) ==
  /\ m \in Job
  /\ m.job = "accept" => m.tx \in Tx
  /\ m.job \in {"walk", "disconnect", "connect"} => m.target \in Block
  /\ m.job = "disconnect" => b # Genesis

\* CInstantSendDb: only locks the quorum can have signed, and the tables agree.
DbOK(d) ==
  /\ d = [i |-> d.i, tx |-> d.tx, in |-> d.in, m |-> d.m]
  /\ d.i \subseteq Lockable /\ d.tx = d.i
  /\ d.in \in [Outpoint -> Tx \cup {NoTx}]
  /\ \A o \in Outpoint, t \in Tx : d.in[o] = t <=> t \in d.i /\ o \in Inputs[t]

Entry == [tx : BOOLEAN, children : SUBSET Tx, mined : AnyBlock]

\* nonLockedTxs n and nonLockedTxsByInputs b.
TrackOK(n, b) ==
  /\ \A x \in DOMAIN n :
       /\ n[x] \in Entry /\ (n[x].tx => x \in Tx)
       /\ n[x].tx \/ n[x].children # {}
       /\ \A c \in n[x].children : c \in DOMAIN n /\ n[c].tx /\ Spends(c, x)
  /\ \A e \in b : e[2] \in DOMAIN n /\ n[e[2]].tx /\ e[1] \in Inputs[e[2]]

\* creatingInstantSendLocks c and txToCreatingInstantSendLocks s.
CreatingOK(c, s) ==
  /\ \A id \in DOMAIN c : c[id] \in Lockable /\ LockId(c[id]) = id
  /\ s = {c[id] : id \in DOMAIN c}

\* Signatures on inputs are the quorum's.
RecOK(r) ==
  /\ r \in [Id -> Tx \cup {NoTx}]
  /\ \A o \in Outpoint : r[InputId(o)] \in {Winner[o], NoTx}

Section == {"idle", "lookup", "store", "mempool", "conflicts", "prune", "invalidate"}

Handler == [pc : Section, lock : Tx \cup {NoTx}, mined : AnyBlock, conflicts : SUBSET (Tx \X AnyBlock)]

\* Locks on their way into the database: pendingInstantSendLocks p, pendingRetryTxs r,
\* the worker's batches w and the handlers h.
LocksOK(p, r, w, h) ==
  /\ p \subseteq Lockable /\ r \subseteq Tx
  /\ w \in [locks : SUBSET Lockable, txs : SUBSET Tx]
  /\ h \in [Thread -> Handler]
  /\ \A th \in Thread : h[th].pc # "idle" => h[th].lock \in Lockable

\* Validation at tip b with mempool p, transaction index x and job m.
ChainOK(p, b, x, m) ==
  /\ p \subseteq Tx /\ b \in Block /\ x \in [Tx \cup Coin -> AnyBlock]
  /\ MainOK(m, b)

IInv ==
  /\ ChainOK(mempool, tip, txIndex, main) /\ LocksOK(pending, retry, work, proc)
  /\ RecOK(rec) /\ DbOK(db) /\ TrackOK(nonLocked, byInputs) /\ CreatingOK(creating, toCreating)

-----------------------------------------------------------------------------
(* The operators.                                                          *)

\* Facts about the constants.
LEMMA InputFacts ==
  /\ \A t \in Tx : Inputs[t] \subseteq Outpoint /\ Inputs[t] # {}
  /\ \A o \in Outpoint : Winner[o] \in Tx
  /\ Lockable \subseteq Tx /\ NoTx \notin Tx
<1>1. Inputs \in [Tx -> (SUBSET ((Tx \cup Coin) \X Nat)) \ {{}}]  BY InstantSendAssumption, Zenon
<1>2. \A t \in Tx : Inputs[t] \subseteq Outpoint /\ Inputs[t] # {}  BY <1>1, Zenon DEF Outpoint
<1> QED  BY <1>2, InstantSendAssumption, Zenon DEF Lockable

\* The quorum signs one lock per outpoint, so locks of the same request id, or with
\* a common input, are the same.
LEMMA OneLock ==
  ASSUME NEW t \in Lockable, NEW u \in Lockable
  PROVE  /\ \A o : o \in Inputs[t] /\ o \in Inputs[u] => t = u
         /\ LockId(t) = LockId(u) => t = u
<1>1. \A o : o \in Inputs[t] /\ o \in Inputs[u] => t = u  BY Zenon DEF Lockable
<1>2. LockId(t) = LockId(u) => Inputs[t] = Inputs[u]  BY Zenon DEF LockId
<1> QED  BY <1>1, <1>2, InputFacts, Zenon

\* A record of tables with three of them replaced.
LEMMA Tables ==
  ASSUME NEW d, d = [i |-> d.i, tx |-> d.tx, in |-> d.in, m |-> d.m], NEW a, NEW b, NEW c
  PROVE  [d EXCEPT !.i = a, !.tx = b, !.in = c] = [i |-> a, tx |-> b, in |-> c, m |-> d.m]
<1> DEFINE d1 == [d EXCEPT !.i = a]
           d2 == [d1 EXCEPT !.tx = b]
           d3 == [d2 EXCEPT !.in = c]
<1>1. d1 = [i |-> a, tx |-> d.tx, in |-> d.in, m |-> d.m]  OBVIOUS
<1>2. d3 = [d EXCEPT !.i = a, !.tx = b, !.in = c]  BY Zenon
<1> HIDE DEF d1
<1>3. d2 = [i |-> a, tx |-> b, in |-> d.in, m |-> d.m]  BY <1>1
<1> HIDE DEF d2
<1>4. d3 = [i |-> a, tx |-> b, in |-> c, m |-> d.m]  BY <1>3
<1> HIDE DEF d3
<1> QED  BY <1>2, <1>4, Zenon

\* Writing a lock keeps the tables in agreement.
LEMMA Written ==
  ASSUME NEW d, DbOK(d), NEW t \in Lockable
  PROVE  DbOK(WriteNewInstantSendLock(d, t))
<1> DEFINE w == WriteNewInstantSendLock(d, t)
<1>1. d = [i |-> d.i, tx |-> d.tx, in |-> d.in, m |-> d.m]  BY Zenon DEF DbOK
<1> DEFINE spent == [o \in Outpoint |-> IF o \in Inputs[t] THEN t ELSE d.in[o]]
<1>0. w = [i |-> d.i \cup {t}, tx |-> d.tx \cup {t}, in |-> spent, m |-> d.m]
  <2>1. w = [d EXCEPT !.i = d.i \cup {t}, !.tx = d.tx \cup {t}, !.in = spent]
    BY Zenon DEF WriteNewInstantSendLock
  <2> HIDE DEF spent, w
  <2> QED  BY <1>1, <2>1, Tables, Zenon
<1> HIDE DEF w
<1>2. /\ w.i = d.i \cup {t} /\ w.tx = d.tx \cup {t} /\ w.m = d.m
      /\ w.in = [o \in Outpoint |-> IF o \in Inputs[t] THEN t ELSE d.in[o]]
      /\ w = [i |-> w.i, tx |-> w.tx, in |-> w.in, m |-> w.m]
  BY <1>0, Zenon
<1> HIDE DEF w
<1>3. w.i \subseteq Lockable /\ w.tx = w.i  BY <1>2, Zenon DEF DbOK
<1>4. w.in \in [Outpoint -> Tx \cup {NoTx}]  BY <1>2, InputFacts DEF DbOK
<1>5. ASSUME NEW o \in Outpoint, NEW u \in Tx PROVE w.in[o] = u <=> u \in w.i /\ o \in Inputs[u]
  <2>1. d.in[o] = u <=> u \in d.i /\ o \in Inputs[u]  BY Zenon DEF DbOK
  <2>2. u \in w.i => u \in Lockable  BY <1>3, Zenon
  <2>3. CASE o \in Inputs[t]
    <3>1. w.in[o] = t  BY <1>2, <2>3, Zenon
    <3>2. u \in w.i /\ o \in Inputs[u] => u = t  BY <2>2, <2>3, OneLock, Zenon
    <3> QED  BY <1>2, <2>3, <3>1, <3>2, Zenon
  <2>4. CASE o \notin Inputs[t]
    <3>1. w.in[o] = d.in[o]  BY <1>2, <2>4, Zenon
    <3> QED  BY <1>2, <2>1, <2>4, <3>1, Zenon
  <2> QED  BY <2>3, <2>4, Zenon
<1> QED  BY <1>2, <1>3, <1>4, <1>5, Zenon DEF DbOK, w

\* So does removing any set of locks.
LEMMA Removed ==
  ASSUME NEW d, DbOK(d), NEW S
  PROVE  DbOK(RemoveInstantSendLocks(d, S))
<1> DEFINE w == RemoveInstantSendLocks(d, S)
           gone == UNION {Inputs[t] : t \in S \cap d.i}
<1>1. d = [i |-> d.i, tx |-> d.tx, in |-> d.in, m |-> d.m]  BY SMTT(30) DEF DbOK
<1> DEFINE left == [o \in Outpoint |-> IF o \in gone THEN NoTx ELSE d.in[o]]
<1>0. w = [i |-> d.i \ S, tx |-> d.tx \ (S \cap d.i), in |-> left, m |-> d.m]
  <2>1. w = [d EXCEPT !.i = d.i \ S, !.tx = d.tx \ (S \cap d.i), !.in = left]
    BY Zenon DEF RemoveInstantSendLocks
  <2> HIDE DEF left, w, gone
  <2> QED  BY <1>1, <2>1, Tables, Zenon
<1> HIDE DEF w
<1>2. /\ w.i = d.i \ S /\ w.tx = d.tx \ (S \cap d.i) /\ w.m = d.m
      /\ w.in = [o \in Outpoint |-> IF o \in gone THEN NoTx ELSE d.in[o]]
      /\ w = [i |-> w.i, tx |-> w.tx, in |-> w.in, m |-> w.m]
  BY <1>0, Zenon
<1>3. \A o : o \in gone <=> \E t \in d.i : t \in S /\ o \in Inputs[t]  BY Zenon
<1> HIDE DEF w, gone
<1>4. w.i \subseteq Lockable /\ w.tx = w.i  BY <1>2, Zenon DEF DbOK
<1>5. w.in \in [Outpoint -> Tx \cup {NoTx}]  BY <1>2 DEF DbOK
<1>6. ASSUME NEW o \in Outpoint, NEW u \in Tx PROVE w.in[o] = u <=> u \in w.i /\ o \in Inputs[u]
  <2>1. d.in[o] = u <=> u \in d.i /\ o \in Inputs[u]  BY Zenon DEF DbOK
  <2>2. d.i \subseteq Lockable  BY Zenon DEF DbOK
  <2>3. CASE o \in gone
    <3>1. w.in[o] = NoTx /\ u # NoTx  BY <1>2, <2>3, InputFacts, Zenon
    <3>2. PICK t \in d.i : t \in S /\ o \in Inputs[t]  BY <1>3, <2>3, Zenon
    <3>3. u \in d.i /\ o \in Inputs[u] => u = t  BY <2>2, <3>2, OneLock, Zenon
    <3> QED  BY <1>2, <3>1, <3>2, <3>3, Zenon
  <2>4. CASE o \notin gone
    <3>1. w.in[o] = d.in[o]  BY <1>2, <2>4, Zenon
    <3>2. u \in d.i /\ o \in Inputs[u] => u \notin S  BY <1>3, <2>4, Zenon
    <3> QED  BY <1>2, <2>1, <3>1, <3>2, Zenon
  <2> QED  BY <2>3, <2>4, Zenon
<1> QED  BY <1>2, <1>4, <1>5, <1>6, Zenon DEF DbOK, w

\* The table of mined locks does not matter to the others.
LEMMA MinedTable ==
  ASSUME NEW d, DbOK(d), NEW m
  PROVE  DbOK([d EXCEPT !.m = m])
<1> DEFINE w == [d EXCEPT !.m = m]
<1>1. d = [i |-> d.i, tx |-> d.tx, in |-> d.in, m |-> d.m]  BY Zenon DEF DbOK
<1>2. /\ w.i = d.i /\ w.tx = d.tx /\ w.in = d.in
      /\ w = [i |-> w.i, tx |-> w.tx, in |-> w.in, m |-> w.m]
  BY <1>1
<1> HIDE DEF w
<1> QED  BY <1>2, Zenon DEF DbOK, w

\* AddNonLockedTx keeps the tracker closed.
LEMMA Tracked ==
  ASSUME NEW T, TrackOK(T.nonLocked, T.byInputs), DOMAIN T = {"nonLocked", "byInputs", "retry"},
         NEW t \in Tx, NEW b \in AnyBlock
  PROVE  LET A == AddNonLockedTx(T, t, b)
         IN  TrackOK(A.nonLocked, A.byInputs) /\ A.retry = T.retry
<1> DEFINE A == AddNonLockedTx(T, t, b)
           N == T.nonLocked
           known == t \in DOMAIN N /\ N[t].tx
           touched == IF known THEN {t} ELSE {t} \cup Parents(t)
           Old(x) == IF x \in DOMAIN N THEN N[x] ELSE Placeholder
           n == [x \in DOMAIN N \cup touched |->
                   [tx |-> Old(x).tx \/ x = t,
                    children |-> IF x \in touched \ {t} THEN Old(x).children \cup {t}
                                                        ELSE Old(x).children,
                    mined |-> IF x = t THEN b ELSE Old(x).mined]]
           i == IF t \in DOMAIN N THEN T.byInputs ELSE T.byInputs \cup (Inputs[t] \X {t})
<1>1. A.nonLocked = n /\ A.byInputs = i /\ A.retry = T.retry
  <2>1. A = [T EXCEPT !.nonLocked = n, !.byInputs = i]  BY Zenon DEF AddNonLockedTx
  <2> HIDE DEF A, n, i
  <2> QED  BY <2>1, Zenon
<1>2. \A x : Old(x) \in Entry /\ (Old(x).tx => x \in DOMAIN N /\ x \in Tx)
             /\ \A c \in Old(x).children : c \in DOMAIN N /\ N[c].tx /\ Spends(c, x)
  BY Zenon DEF TrackOK, Placeholder, Entry, AnyBlock
<1>3. \A x \in DOMAIN N : Old(x) = N[x] /\ (N[x].tx \/ N[x].children # {})  BY Zenon DEF TrackOK
<1>4. DOMAIN n = DOMAIN N \cup touched /\ t \in touched  BY SMTT(30)
<1>5. \A x \in DOMAIN n : /\ n[x].tx = (Old(x).tx \/ x = t)
                          /\ n[x].children = IF x \in touched \ {t} THEN Old(x).children \cup {t}
                                                                   ELSE Old(x).children
                          /\ n[x].mined = IF x = t THEN b ELSE Old(x).mined
                          /\ n[x] = [tx |-> n[x].tx, children |-> n[x].children, mined |-> n[x].mined]
  BY Zenon
<1>6. \A x \in touched \ {t} : Spends(t, x)  BY Zenon DEF Parents, Spends
<1> HIDE DEF Old, n, touched
<1>12. \A y \in DOMAIN N : N[y].tx => y \in DOMAIN n /\ n[y].tx  BY <1>3, <1>4, <1>5, Zenon
<1>7. ASSUME NEW x \in DOMAIN n PROVE n[x] \in Entry /\ (n[x].tx => x \in Tx)
  <2>1. /\ Old(x).tx \in BOOLEAN /\ Old(x).children \in SUBSET Tx /\ Old(x).mined \in AnyBlock
        /\ Old(x).tx => x \in Tx
    BY <1>2, Zenon DEF Entry
  <2>2. n[x].tx \in BOOLEAN /\ (n[x].tx => x \in Tx)  BY <1>5, <2>1, Zenon
  <2>3. n[x].children \in SUBSET Tx
    <3>1. n[x].children \subseteq Old(x).children \cup {t}  BY <1>5, Zenon
    <3> QED  BY <2>1, <3>1, Zenon
  <2>5. n[x].mined \in AnyBlock  BY <1>5, <2>1, Zenon
  <2>4. n[x] = [tx |-> n[x].tx, children |-> n[x].children, mined |-> n[x].mined]  BY <1>5, Zenon
  <2> QED  BY <2>2, <2>3, <2>4, <2>5, Zenon DEF Entry
<1>8. ASSUME NEW x \in DOMAIN n PROVE n[x].tx \/ n[x].children # {}
  BY <1>3, <1>4, <1>5, Zenon
<1>9. ASSUME NEW x \in DOMAIN n, NEW c \in n[x].children
      PROVE  c \in DOMAIN n /\ n[c].tx /\ Spends(c, x)
  <2>1. CASE c = t /\ x \in touched \ {t}  BY <1>4, <1>5, <1>6, <2>1, Zenon
  <2>2. CASE c \in Old(x).children
    <3>1. c \in DOMAIN N /\ N[c].tx /\ Spends(c, x)  BY <1>2, <2>2, Zenon
    <3> QED  BY <1>12, <3>1, Zenon
  <2> QED  BY <1>5, <2>1, <2>2, Zenon
<1>10. ASSUME NEW e \in i PROVE e[2] \in DOMAIN n /\ n[e[2]].tx /\ e[1] \in Inputs[e[2]]
  <2>1. CASE e \in T.byInputs
    <3>1. e[2] \in DOMAIN N /\ N[e[2]].tx /\ e[1] \in Inputs[e[2]]  BY <2>1, Zenon DEF TrackOK
    <3> QED  BY <1>12, <3>1, Zenon
  <2>2. CASE e \in Inputs[t] \X {t}
    <3>1. e[2] = t /\ e[1] \in Inputs[t]  BY <2>2, Zenon
    <3> QED  BY <1>4, <1>5, <3>1, Zenon
  <2> QED  BY <2>1, <2>2, Zenon
<1> HIDE DEF i
<1>11. TrackOK(n, i)  BY <1>7, <1>8, <1>9, <1>10, Zenon DEF TrackOK
<1> QED  BY <1>1, <1>11, Zenon

\* RemoveNonLockedTx and RemoveConflictedTx, of any set, keep it closed.
LEMMA Untracked ==
  ASSUME NEW T, TrackOK(T.nonLocked, T.byInputs), NEW S, NEW R
  PROVE  LET A == RemoveNonLockedTxs(T, S, R)
         IN  TrackOK(A.nonLocked, A.byInputs) /\ A.retry = T.retry \cup R
<1> DEFINE A == RemoveNonLockedTxs(T, S, R)
           N == T.nonLocked
           removed == S \cap DOMAIN N
           full == {t \in removed : N[t].tx}
           empty == {x \in (UNION {Parents(t) : t \in full}) \cap DOMAIN N :
                       ~N[x].tx /\ N[x].children \subseteq full}
           spent == UNION {Inputs[t] : t \in full}
           n == [x \in DOMAIN N \ (removed \cup empty) |-> [N[x] EXCEPT !.children = @ \ full]]
           i == {e \in T.byInputs : e[1] \notin spent}
<1>1. A.nonLocked = n /\ A.byInputs = i /\ A.retry = T.retry \cup R
  BY Zenon DEF RemoveNonLockedTxs
<1>2. \A x \in DOMAIN n : x \in DOMAIN N /\ x \notin removed /\ x \notin empty  BY Zenon
<1>3. \A x : x \in DOMAIN N /\ x \notin removed /\ x \notin empty => x \in DOMAIN n  BY Zenon
<1>4. \A x \in DOMAIN n : n[x] = [N[x] EXCEPT !.children = N[x].children \ full]  BY Zenon
<1>5. \A x \in DOMAIN N : N[x].tx /\ x \notin full => x \notin removed /\ x \notin empty  BY Zenon
<1>6. \A x \in DOMAIN N, c \in full :
        ~N[x].tx /\ N[x].children \subseteq full /\ Spends(c, x) => x \in empty
  <2> SUFFICES ASSUME NEW x \in DOMAIN N, NEW c \in full, Spends(c, x),
                      ~N[x].tx, N[x].children \subseteq full
               PROVE  x \in empty
    BY Zenon
  <2>1. x \in Parents(c)  BY Zenon DEF Parents, Spends
  <2> HIDE DEF full
  <2>2. x \in UNION {Parents(t) : t \in full}  BY <2>1, Zenon
  <2> QED  BY <2>2, Zenon
<1>7. \A t \in full : \A o \in Inputs[t] : o \in spent  BY Zenon
<1> HIDE DEF n, full, empty, removed, spent
<1>8. ASSUME NEW x \in DOMAIN n
      PROVE  /\ n[x] \in Entry /\ n[x].tx = N[x].tx /\ n[x].children = N[x].children \ full
             /\ N[x].tx => x \in Tx
  <2>1. N[x] \in Entry /\ (N[x].tx => x \in Tx)  BY <1>2, Zenon DEF TrackOK
  <2> QED  BY <1>4, <2>1 DEF Entry
<1>9. ASSUME NEW x \in DOMAIN n PROVE n[x].tx \/ n[x].children # {}
  <2> SUFFICES ASSUME ~n[x].tx, n[x].children = {} PROVE FALSE
    BY Zenon
  <2>1. ~N[x].tx /\ N[x].children \subseteq full  BY <1>8, Zenon
  <2>2. PICK c \in N[x].children : Spends(c, x)  BY <1>2, <2>1, Zenon DEF TrackOK
  <2> QED  BY <1>2, <1>6, <2>1, <2>2, Zenon
<1>10. ASSUME NEW x \in DOMAIN n, NEW c \in n[x].children
       PROVE  c \in DOMAIN n /\ n[c].tx /\ Spends(c, x)
  <2>1. c \in N[x].children /\ c \notin full  BY <1>8, Zenon
  <2>2. c \in DOMAIN N /\ N[c].tx /\ Spends(c, x)  BY <1>2, <2>1, Zenon DEF TrackOK
  <2>3. c \in DOMAIN n  BY <1>3, <1>5, <2>1, <2>2, SMTT(30)
  <2> QED  BY <1>8, <2>2, <2>3, Zenon
<1>11. ASSUME NEW e \in i PROVE e[2] \in DOMAIN n /\ n[e[2]].tx /\ e[1] \in Inputs[e[2]]
  <2>1. e[2] \in DOMAIN N /\ N[e[2]].tx /\ e[1] \in Inputs[e[2]]  BY Zenon DEF TrackOK
  <2>2. e[2] \notin full  BY <1>7, <2>1, Zenon
  <2>3. e[2] \in DOMAIN n  BY <1>3, <1>5, <2>1, <2>2, SMTT(30)
  <2> QED  BY <1>8, <2>1, <2>3, SMTT(30)
<1> HIDE DEF i
<1>12. TrackOK(n, i)  BY <1>8, <1>9, <1>10, <1>11, SMTT(30) DEF TrackOK
<1> QED  BY <1>1, <1>12, Zenon

\* Children that are put up for a retry are transactions.
LEMMA ChildrenFacts ==
  ASSUME NEW T, TrackOK(T.nonLocked, T.byInputs), NEW S
  PROVE  Children(T, S) \subseteq Tx
<1>1. \A x \in DOMAIN T.nonLocked : T.nonLocked[x].children \subseteq Tx  BY SMTT(30) DEF TrackOK, Entry
<1> QED  BY <1>1, Zenon DEF Children

\* TrySignInstantSendLock enters both maps, and only for a lock the quorum signs.
LEMMA Tried ==
  ASSUME NEW L, DOMAIN L = {"vote", "creating", "toCreating", "inputIds"},
         CreatingOK(L.creating, L.toCreating), NEW r, RecOK(r), NEW t \in Tx
  PROVE  LET M == TrySignInstantSendLock(L, r, t) IN CreatingOK(M.creating, M.toCreating)
<1> DEFINE M == TrySignInstantSendLock(L, r, t)
           ok == /\ \A o \in Inputs[t] : r[InputId(o)] = t
                 /\ r[LockId(t)] = NoTx
                 /\ LockId(t) \notin DOMAIN L.creating
           c == [id \in DOMAIN L.creating \cup {LockId(t)} |->
                   IF id = LockId(t) THEN t ELSE L.creating[id]]
           K == [L EXCEPT !.creating = c, !.toCreating = L.toCreating \cup {t}]
<1>1. CASE ~ok
  <2>1. M = L  BY <1>1, Zenon DEF TrySignInstantSendLock
  <2> QED  BY <2>1, Zenon
<1>2. CASE ok
  <2>1. M = Vote(K, r, {LockId(t)}, t)  BY <1>2, Zenon DEF TrySignInstantSendLock
  <2>2. K.creating = c /\ K.toCreating = L.toCreating \cup {t} /\ DOMAIN K = DOMAIN L
    <3> HIDE DEF c
    <3> QED  BY Zenon
  <2>3. M.creating = c /\ M.toCreating = L.toCreating \cup {t}
    <3> HIDE DEF K, M
    <3> QED  BY <2>1, <2>2, Zenon DEF Vote
  <2>4. t \in Lockable
    <3>1. \A o \in Inputs[t] : o \in Outpoint /\ r[InputId(o)] \in {Winner[o], NoTx}
      BY InputFacts, Zenon DEF RecOK
    <3>2. \A o \in Inputs[t] : Winner[o] = t  BY <1>2, <3>1, InputFacts, Zenon
    <3> QED  BY <3>2, Zenon DEF Lockable
  <2>5. DOMAIN c = DOMAIN L.creating \cup {LockId(t)} /\ c[LockId(t)] = t
        /\ \A id \in DOMAIN L.creating : c[id] = L.creating[id]
    BY <1>2, Zenon
  <2> HIDE DEF c, M
  <2>6. \A id \in DOMAIN c : c[id] \in Lockable /\ LockId(c[id]) = id
    BY <2>4, <2>5, Zenon DEF CreatingOK
  <2>7. L.toCreating = {L.creating[id] : id \in DOMAIN L.creating}  BY Zenon DEF CreatingOK
  <2>8. L.toCreating \cup {t} = {c[id] : id \in DOMAIN c}  BY <2>5, <2>7
  <2>9. CreatingOK(M.creating, M.toCreating)  BY <2>3, <2>6, <2>8, SMTT(30) DEF CreatingOK
  <2> QED  BY <2>9, Zenon DEF M
<1> QED  BY <1>1, <1>2, Zenon

\* So does ProcessTx.
LEMMA Processed ==
  ASSUME IInv, NEW t \in Tx
  PROVE  CreatingOK(ProcessTx(t).creating, ProcessTx(t).toCreating)
<1> DEFINE ids == {InputId(o) : o \in Inputs[t]}
           L == [Locking EXCEPT !.inputIds = @ \cup Inputs[t]]
           K == Vote(L, rec, ids, t)
<1>1. ProcessTx(t) = Locking \/ ProcessTx(t) = TrySignInstantSendLock(K, rec, t)
  BY Zenon DEF ProcessTx
<1>2. /\ Locking.creating = creating /\ Locking.toCreating = toCreating
      /\ DOMAIN Locking = {"vote", "creating", "toCreating", "inputIds"}
  BY Zenon DEF Locking
<1>3. L.creating = creating /\ L.toCreating = toCreating /\ DOMAIN L = DOMAIN Locking
  BY <1>2, Zenon
<1> HIDE DEF L
<1>4. K.creating = creating /\ K.toCreating = toCreating /\ DOMAIN K = DOMAIN Locking
  BY <1>2, <1>3, Zenon DEF Vote
<1> HIDE DEF K
<1>5. CreatingOK(creating, toCreating) /\ RecOK(rec)  BY Zenon DEF IInv
<1>6. LET M == TrySignInstantSendLock(K, rec, t) IN CreatingOK(M.creating, M.toCreating)
  BY <1>2, <1>4, <1>5, Tried, SMTT(30)
<1> QED  BY <1>1, <1>2, <1>5, <1>6, Zenon

\* A lock that leaves creatingInstantSendLocks leaves txToCreatingInstantSendLocks.
LEMMA Erased ==
  ASSUME CreatingOK(creating, toCreating), NEW t \in Lockable
  PROVE  /\ CreatingOK(WithoutLock(LockId(t)), toCreating \ {t})
         /\ LockId(t) \in DOMAIN creating => creating[LockId(t)] = t
         /\ LockId(t) \notin DOMAIN creating => CreatingOK(WithoutLock(LockId(t)), toCreating)
<1> DEFINE l == LockId(t)
           c == WithoutLock(l)
<1>1. \A id \in DOMAIN creating : creating[id] \in Lockable /\ LockId(creating[id]) = id
  BY Zenon DEF CreatingOK
<1>2. toCreating = {creating[id] : id \in DOMAIN creating}  BY Zenon DEF CreatingOK
<1>3. DOMAIN c = DOMAIN creating \ {l} /\ \A id \in DOMAIN c : c[id] = creating[id]
  BY Zenon DEF WithoutLock
<1>4. \A id \in DOMAIN creating : creating[id] = t <=> id = l  BY <1>1, OneLock, Zenon
<1> HIDE DEF c
<1>5. \A id \in DOMAIN c : c[id] \in Lockable /\ LockId(c[id]) = id  BY <1>1, <1>3, Zenon
<1>6. toCreating \ {t} = {c[id] : id \in DOMAIN c}  BY <1>2, <1>3, <1>4
<1>7. l \notin DOMAIN creating => toCreating = toCreating \ {t}  BY <1>2, <1>4, Zenon
<1> QED  BY <1>4, <1>5, <1>6, <1>7, SMTT(30) DEF CreatingOK, c

\* A function on 1..n is a sequence.
LEMMA SeqFromFunction ==
  ASSUME NEW n \in Nat, NEW S, NEW f \in [1..n -> S]
  PROVE  f \in Seq(S)
OBVIOUS

\* Two sequences in a row are a sequence.
LEMMA Joined ==
  ASSUME NEW S, NEW s \in Seq(S), NEW t \in Seq(S)
  PROVE  s \o t \in Seq(S)
OBVIOUS

\* The calls validation makes are for transactions.
LEMMA CallFacts ==
  ASSUME NEW s \in Seq(Tx), NEW b \in AnyBlock, NEW f \in BOOLEAN
  PROVE  CallAll(s, b, f) \in Seq(Calls)
<1>1. Len(s) \in Nat /\ DOMAIN s = 1..Len(s) /\ \A k \in 1..Len(s) : s[k] \in Tx  OBVIOUS
<1>2. \A t \in Tx : Call(t, b, f) \in Calls  BY Zenon DEF Call, Calls
<1>3. CallAll(s, b, f) \in [1..Len(s) -> Calls]  BY <1>1, <1>2, Zenon DEF CallAll
<1> QED  BY <1>1, <1>3, SeqFromFunction, Zenon

\* What CalculateDescendants returns.
LEMMA DescendantsFacts ==
  ASSUME NEW S, NEW p
  PROVE  WithDescendants(S, p) \subseteq S \cup p
BY Zenon DEF WithDescendants

\* The removed transactions, in order, are a sequence of transactions.
LEMMA OrderFacts ==
  ASSUME NEW S, S \subseteq Tx, NEW s \in Orders(S)
  PROVE  s \in Seq(Tx)
<1>1. PICK n \in 0..Cardinality(S) : s \in [1..n -> S]  BY Zenon DEF Orders
<1>2. n \in Nat  OBVIOUS
<1>3. s \in [1..n -> Tx]  BY <1>1, Zenon
<1> QED  BY <1>2, <1>3, SeqFromFunction, Zenon

-----------------------------------------------------------------------------
(* Parts of steps.                                                         *)

\* The tracker after removals.
LEMMA UntrackStep ==
  ASSUME IInv, NEW S, NEW R \in SUBSET Tx, SetTracker(RemoveNonLockedTxs(Tracker, S, R))
  PROVE  TrackOK(nonLocked', byInputs') /\ retry' \subseteq Tx
<1> DEFINE T == Tracker
           A == RemoveNonLockedTxs(T, S, R)
<1>1. T.nonLocked = nonLocked /\ T.byInputs = byInputs /\ T.retry = retry  BY Zenon DEF Tracker
<1>2. TrackOK(nonLocked, byInputs) /\ retry \subseteq Tx  BY Zenon DEF IInv, LocksOK
<1>3. nonLocked' = A.nonLocked /\ byInputs' = A.byInputs /\ retry' = A.retry  BY Zenon DEF SetTracker
<1> HIDE DEF T
<1>4. TrackOK(A.nonLocked, A.byInputs) /\ A.retry = T.retry \cup R  BY <1>1, <1>2, Untracked, Zenon
<1> QED  BY <1>1, <1>2, <1>3, <1>4, Zenon

\* The tracker after RemoveNonLockedTx, with the children of the transaction.
LEMMA UnlockedStep ==
  ASSUME IInv, NEW t, SetTracker(RemoveNonLockedTx(Tracker, t))
  PROVE  TrackOK(nonLocked', byInputs') /\ retry' \subseteq Tx
<1>1. TrackOK(Tracker.nonLocked, Tracker.byInputs)  BY Zenon DEF IInv, Tracker
<1>2. Children(Tracker, {t}) \in SUBSET Tx  BY <1>1, ChildrenFacts, Zenon
<1>3. SetTracker(RemoveNonLockedTxs(Tracker, {t}, Children(Tracker, {t})))
  BY Zenon DEF RemoveNonLockedTx
<1> QED  BY <1>2, <1>3, UntrackStep, Zenon

\* The tracker after RemoveConflictedTx.
LEMMA ConflictedStep ==
  ASSUME IInv, NEW S, SetTracker(RemoveConflictedTxs(Tracker, S))
  PROVE  TrackOK(nonLocked', byInputs') /\ retry' \subseteq Tx
<1>1. SetTracker(RemoveNonLockedTxs(Tracker, S, {}))  BY Zenon DEF RemoveConflictedTxs
<1>2. {} \in SUBSET Tx  BY SMTT(30)
<1> QED  BY <1>1, <1>2, UntrackStep, Zenon

\* The tracker after AddNonLockedTx.
LEMMA TrackStep ==
  ASSUME IInv, NEW t \in Tx, NEW b \in AnyBlock, SetTracker(AddNonLockedTx(Tracker, t, b))
  PROVE  TrackOK(nonLocked', byInputs') /\ retry' \subseteq Tx
<1> DEFINE T == Tracker
           A == AddNonLockedTx(T, t, b)
<1>1. /\ T.nonLocked = nonLocked /\ T.byInputs = byInputs /\ T.retry = retry
      /\ DOMAIN T = {"nonLocked", "byInputs", "retry"}
  BY Zenon DEF Tracker
<1>2. TrackOK(nonLocked, byInputs) /\ retry \subseteq Tx  BY Zenon DEF IInv, LocksOK
<1>3. nonLocked' = A.nonLocked /\ byInputs' = A.byInputs /\ retry' = A.retry  BY SMTT(30) DEF SetTracker
<1> HIDE DEF T
<1>4. TrackOK(A.nonLocked, A.byInputs) /\ A.retry = T.retry  BY <1>1, <1>2, Tracked, Zenon
<1> QED  BY <1>1, <1>2, <1>3, <1>4, SMTT(30)

\* The maps of locks being created after ProcessTx.
LEMMA ProcessStep ==
  ASSUME IInv, NEW t \in Tx, NEW skip, SetLocking(IF skip THEN Locking ELSE ProcessTx(t))
  PROVE  CreatingOK(creating', toCreating')
<1> DEFINE L == IF skip THEN Locking ELSE ProcessTx(t)
<1>1. creating' = L.creating /\ toCreating' = L.toCreating  BY Zenon DEF SetLocking
<1>2. CASE skip
  <2>1. L = Locking  BY <1>2, Zenon
  <2>2. Locking.creating = creating /\ Locking.toCreating = toCreating  BY Zenon DEF Locking
  <2>3. CreatingOK(creating, toCreating)  BY Zenon DEF IInv
  <2> HIDE DEF L
  <2> QED  BY <1>1, <2>1, <2>2, <2>3, Zenon
<1>3. CASE ~skip
  <2>1. L = ProcessTx(t)  BY <1>3, Zenon
  <2> HIDE DEF L
  <2> QED  BY <1>1, <2>1, Processed, Zenon
<1> QED  BY <1>2, <1>3, Zenon

\* The end of ActivateBestChainStep.
LEMMA FinishStep ==
  ASSUME NEW m, NEW b, MainOK(m, b)
  PROVE  MainOK(Finish(m), b)
<1> DEFINE calls == m.evicted \o m.connected
           j == IF calls = <<>> THEN "tip" ELSE "last"
           n == [m EXCEPT !.job = j, !.calls = calls, !.evicted = <<>>, !.connected = <<>>]
<1>1. m \in Job  BY Zenon DEF MainOK
<1>2. m.evicted \in Seq(Calls) /\ m.connected \in Seq(Calls)  BY <1>1, Zenon DEF Job
<1>3. calls \in Seq(Calls) /\ <<>> \in Seq(Calls)  BY <1>2
<1>4. j \in JobName /\ j \notin {"accept", "walk", "disconnect", "connect"}
  <2>1. j = "tip" \/ j = "last"  BY Zenon
  <2> HIDE DEF j
  <2> QED  BY <2>1, Zenon DEF JobName
<1>5. n = Finish(m)  BY Zenon DEF Finish
<1> HIDE DEF calls, j
<1>6. n \in Job /\ n.job = j  BY <1>1, <1>3, <1>4, Zenon DEF Job
<1> HIDE DEF n
<1>7. MainOK(n, b)  BY <1>4, <1>6, Zenon DEF MainOK
<1> QED  BY <1>5, <1>7, Zenon

\* SyncTransaction returns.
LEMMA ReturnStep ==
  ASSUME NEW b, MainOK(main, b), main.calls # <<>>
  PROVE  MainOK(Returned, b) /\ Head(main.calls) \in Calls
<1> DEFINE rem == Tail(main.calls)
           j == CASE rem = <<>> /\ main.job = "last" -> "tip"
                  [] rem = <<>> /\ main.job = "accepted" -> "idle"
                  [] OTHER -> main.job
           n == [main EXCEPT !.calls = rem, !.sync = "start", !.skip = FALSE, !.job = j]
<1>1. main \in Job  BY Zenon DEF MainOK
<1>2. main.calls \in Seq(Calls) /\ main.job \in JobName  BY <1>1, Zenon DEF Job
<1>3. rem \in Seq(Calls) /\ Head(main.calls) \in Calls  BY <1>2
<1>4. j \in {"tip", "idle", main.job} /\ j \in JobName
  <2> DEFINE last == rem = <<>> /\ main.job = "last"
             accepted == rem = <<>> /\ main.job = "accepted"
  <2>1. ~(last /\ accepted)  BY Zenon
  <2>2. j = CASE last -> "tip" [] accepted -> "idle" [] OTHER -> main.job  BY Zenon
  <2> HIDE DEF j, last, accepted
  <2>3. j = "tip" \/ j = "idle" \/ j = main.job  BY <2>1, <2>2, Zenon
  <2> QED  BY <1>2, <2>3, Zenon DEF JobName
<1>5. n = Returned  BY Zenon DEF Returned
<1> HIDE DEF rem, j
<1>6. n \in Job /\ n.job = j /\ n.tx = main.tx /\ n.target = main.target
  <2> DEFINE m == main
  <2>1. m \in Job /\ n = [m EXCEPT !.calls = rem, !.sync = "start", !.skip = FALSE, !.job = j]
    BY <1>1, Zenon
  <2> HIDE DEF m, n
  <2>2. n \in Job /\ n.job = j /\ n.tx = m.tx /\ n.target = m.target
    BY <1>3, <1>4, <2>1, Zenon DEF Job
  <2> QED  BY <2>2, Zenon DEF m
<1> HIDE DEF n
<1>7. MainOK(n, b)  BY <1>4, <1>6, Zenon DEF MainOK
<1> QED  BY <1>3, <1>5, <1>7, Zenon


-----------------------------------------------------------------------------
(* Validation.                                                             *)

\* What a step that leaves the locks alone must show.
LEMMA ChainStep ==
  ASSUME IInv, ChainOK(mempool', tip', txIndex', main'), DbOK(db'),
         UNCHANGED <<pending, retry, work, proc, rec, nonLocked, byInputs, creating, toCreating>>
  PROVE  IInv'
BY Zenon DEF IInv

\* AcceptToMemoryPool, in its two sections.
LEMMA AcceptStep ==
  ASSUME IInv, (\E t \in Tx : AcceptToMemoryPool(t)) \/ AddToMemoryPool
  PROVE  IInv'
<1>0. /\ mempool \subseteq Tx /\ tip \in Block /\ txIndex \in [Tx \cup Coin -> AnyBlock]
      /\ main \in Job /\ MainOK(main, tip) /\ DbOK(db)
  BY Zenon DEF IInv, ChainOK, MainOK
<1>1. ASSUME NEW t \in Tx, AcceptToMemoryPool(t) PROVE IInv'
  <2>1. /\ main' = [main EXCEPT !.job = "accept", !.tx = t]
        /\ UNCHANGED <<mempool, tip, txIndex, db, pending, retry, work, proc, rec, nonLocked,
                       byInputs, creating, toCreating>>
    BY <1>1, Zenon DEF AcceptToMemoryPool, signing, tracker, making, threads
  <2>2. main' \in Job /\ main'.job = "accept" /\ main'.tx = t  BY <1>0, <2>1, Zenon DEF Job, JobName
  <2>3. MainOK(main', tip)  BY <2>2, Zenon DEF MainOK
  <2>4. ChainOK(mempool', tip', txIndex', main')  BY <1>0, <2>1, <2>3, Zenon DEF ChainOK
  <2> QED  BY <1>0, <2>1, <2>4, ChainStep, SMTT(30)
<1>2. CASE AddToMemoryPool
  <2> DEFINE c == Call(main.tx, NoBlock, FALSE)
  <2>1. /\ main' = [Idle EXCEPT !.job = "accepted", !.calls = <<c>>]
        /\ mempool' = mempool \cup {main.tx} /\ main.job = "accept"
        /\ UNCHANGED <<tip, txIndex, db, pending, retry, work, proc, rec, nonLocked,
                       byInputs, creating, toCreating>>
    BY <1>2, Zenon DEF AddToMemoryPool, signing, tracker, making, threads
  <2>2. main.tx \in Tx  BY <1>0, <2>1, Zenon DEF MainOK
  <2>3. c \in Calls  BY <2>2, Zenon DEF Call, Calls, AnyBlock
  <2> HIDE DEF c
  <2>4. <<c>> \in Seq(Calls)  BY <2>3
  <2>5. Idle \in Job  BY DEF Idle, Job, JobName, AnyBlock
  <2>6. main' \in Job /\ main'.job = "accepted"  BY <2>1, <2>4, <2>5, Zenon DEF Job, JobName
  <2>7. MainOK(main', tip)  BY <2>6, Zenon DEF MainOK
  <2>8. ChainOK(mempool', tip', txIndex', main')  BY <1>0, <2>1, <2>2, <2>7, Zenon DEF ChainOK
  <2> QED  BY <1>0, <2>1, <2>8, ChainStep, Zenon
<1> QED  BY <1>1, <1>2, Zenon

\* ActivateBestChain starts on the best chain.
LEMMA ActivateStep ==
  ASSUME IInv, ActivateBestChain
  PROVE  IInv'
<1>0. /\ mempool \subseteq Tx /\ tip \in Block /\ txIndex \in [Tx \cup Coin -> AnyBlock]
      /\ main \in Job /\ DbOK(db)
  BY Zenon DEF IInv, ChainOK, MainOK
<1>1. PICK b \in Block, old \in Block :
        /\ main' = [main EXCEPT !.job = "walk", !.target = b, !.old = old]
        /\ UNCHANGED <<mempool, tip, txIndex, db, pending, retry, work, proc, rec, nonLocked,
                       byInputs, creating, toCreating>>
  <2> DEFINE b == Best
             old == IF tip \in failed THEN b ELSE tip
  <2>1. /\ b \in Block /\ main' = [main EXCEPT !.job = "walk", !.target = b, !.old = old]
        /\ UNCHANGED <<mempool, tip, txIndex, db, pending, retry, work, proc, rec, nonLocked,
                       byInputs, creating, toCreating>>
    BY Zenon DEF ActivateBestChain, signing, tracker, making, threads
  <2> HIDE DEF b
  <2>2. old \in Block  BY <1>0, <2>1, Zenon
  <2> HIDE DEF old
  <2> QED  BY <2>1, <2>2, Zenon
<1>2. main' \in Job /\ main'.job = "walk" /\ main'.target = b
  BY <1>0, <1>1, Zenon DEF Job, JobName, AnyBlock
<1>3. MainOK(main', tip)  BY <1>2, Zenon DEF MainOK
<1>4. ChainOK(mempool', tip', txIndex', main')  BY <1>0, <1>1, <1>3, Zenon DEF ChainOK
<1> QED  BY <1>0, <1>1, <1>4, ChainStep, Zenon

\* DisconnectTip gives the block's transactions back to the mempool.
LEMMA DisconnectStep ==
  ASSUME IInv, DisconnectTip
  PROVE  IInv'
<1> DEFINE block == Contents[tip]
           accepted == {k \in DOMAIN block : block[k] \in mempool'}
<1>0. /\ mempool \subseteq Tx /\ tip \in Block /\ txIndex \in [Tx \cup Coin -> AnyBlock]
      /\ main \in Job /\ MainOK(main, tip) /\ DbOK(db)
  BY Zenon DEF IInv, ChainOK, MainOK
<1>1. /\ main.job = "walk" /\ tip \notin Path[main.target]
      /\ \E pools \in [0..Len(block) -> SUBSET Tx] : mempool' = pools[Len(block)]
      /\ \E at \in Increasing(accepted) :
            main' = [main EXCEPT !.job = "disconnect",
                        !.calls = [k \in DOMAIN at |-> Call(block[at[k]], NoBlock, FALSE)]]
      /\ UNCHANGED <<tip, txIndex, db, pending, retry, work, proc, rec, nonLocked,
                     byInputs, creating, toCreating>>
  BY Zenon DEF DisconnectTip, signing, tracker, making, threads
<1>2. block \in Seq(Tx)  BY <1>0, InstantSendAssumption, Zenon
<1>3. /\ Len(block) \in Nat /\ DOMAIN block = 1..Len(block)
      /\ \A k \in DOMAIN block : block[k] \in Tx
  BY <1>2
<1>4. mempool' \subseteq Tx  BY <1>1, <1>3
<1>5. main.target \in Block /\ tip # Genesis  BY <1>0, <1>1, RootAssumption, SMTT(30) DEF MainOK
<1>6. PICK at \in Increasing(accepted) :
        main' = [main EXCEPT !.job = "disconnect",
                    !.calls = [k \in DOMAIN at |-> Call(block[at[k]], NoBlock, FALSE)]]
  BY <1>1, Zenon
<1> DEFINE calls == [k \in DOMAIN at |-> Call(block[at[k]], NoBlock, FALSE)]
<1>7. accepted \subseteq 1..Len(block)  BY <1>3, Zenon
<1> HIDE DEF accepted, block
<1>8. PICK n \in 0..Cardinality(accepted) : at \in [1..n -> accepted]
  BY <1>6, Zenon DEF Increasing, Orders
<1>9. n \in Nat  OBVIOUS
<1>10. \A t \in Tx : Call(t, NoBlock, FALSE) \in Calls  BY Zenon DEF Call, Calls, AnyBlock
<1>11. \A k \in 1..n : block[at[k]] \in Tx  BY <1>3, <1>7, <1>8, Zenon
<1>12. calls \in [1..n -> Calls]  BY <1>8, <1>10, <1>11, Zenon
<1>13. calls \in Seq(Calls)  BY <1>9, <1>12, SeqFromFunction, Zenon
<1>14. main' = [main EXCEPT !.job = "disconnect", !.calls = calls]  BY <1>6, Zenon
<1> HIDE DEF calls
<1>15. main' \in Job /\ main'.job = "disconnect" /\ main'.target = main.target
  BY <1>0, <1>13, <1>14, Zenon DEF Job, JobName
<1>16. MainOK(main', tip)  BY <1>5, <1>15, Zenon DEF MainOK
<1>17. ChainOK(mempool', tip', txIndex', main')  BY <1>0, <1>1, <1>4, <1>16, Zenon DEF ChainOK
<1> QED  BY <1>0, <1>1, <1>17, ChainStep, Zenon

\* The tip moves to the previous block.
LEMMA DisconnectDoneStep ==
  ASSUME IInv, DisconnectTipDone
  PROVE  IInv'
<1>0. /\ mempool \subseteq Tx /\ tip \in Block /\ txIndex \in [Tx \cup Coin -> AnyBlock]
      /\ main \in Job /\ MainOK(main, tip) /\ DbOK(db)
  BY DEF IInv, ChainOK, MainOK
<1> DEFINE calls == CallAll(Contents[tip], Parent[tip], FALSE)
<1>1. /\ main.job = "disconnect" /\ tip' = Parent[tip]
      /\ main' = [main EXCEPT !.job = "walk", !.calls = calls]
      /\ UNCHANGED <<mempool, txIndex, db, pending, retry, work, proc, rec, nonLocked,
                     byInputs, creating, toCreating>>
  BY Zenon DEF DisconnectTipDone, signing, tracker, making, threads
<1>2. tip # Genesis /\ main.target \in Block  BY <1>0, <1>1, Zenon DEF MainOK
<1>3. Parent[tip] \in Block /\ Contents[tip] \in Seq(Tx)  BY <1>0, <1>2, InstantSendAssumption, TreeAssumption, Zenon
<1>4. calls \in Seq(Calls)  BY <1>3, CallFacts, Zenon DEF AnyBlock
<1> HIDE DEF calls
<1>5. main' \in Job /\ main'.job = "walk" /\ main'.target = main.target
  BY <1>0, <1>1, <1>4, Zenon DEF Job, JobName
<1>6. MainOK(main', tip')  BY <1>2, <1>5, Zenon DEF MainOK
<1>7. ChainOK(mempool', tip', txIndex', main')  BY <1>0, <1>1, <1>3, <1>6, Zenon DEF ChainOK
<1> QED  BY <1>0, <1>1, <1>7, ChainStep, Zenon

\* ConnectBlock's filter, which may drop locks of a chain-locked block.
LEMMA ConnectBlockStep ==
  ASSUME IInv, ConnectBlock
  PROVE  IInv'
<1>0. /\ mempool \subseteq Tx /\ tip \in Block /\ txIndex \in [Tx \cup Coin -> AnyBlock]
      /\ main \in Job /\ MainOK(main, tip) /\ DbOK(db)
  BY DEF IInv, ChainOK, MainOK
<1>1. /\ main.job = "walk"
      /\ UNCHANGED <<mempool, tip, txIndex, pending, retry, work, proc, rec, nonLocked,
                     byInputs, creating, toCreating>>
      /\ \/ main' = Finish(main) /\ UNCHANGED db
         \/ /\ \E S : db' = RemoveChainedInstantSendLocks(db, S)
            /\ \E j \in {"connect", "abort"} : main' = [main EXCEPT !.job = j]
  <2>1. /\ main.job = "walk"
        /\ UNCHANGED <<mempool, tip, txIndex, pending, retry, work, proc, rec, nonLocked,
                       byInputs, creating, toCreating>>
    BY Zenon DEF ConnectBlock, signing, tracker, making, threads
  <2>2. \/ main' = Finish(main) /\ UNCHANGED db
        \/ \E b \in Block :
             LET txs == Range(Contents[b])
             IN  /\ \E S : db' = RemoveChainedInstantSendLocks(db, S)
                 /\ main' = [main EXCEPT !.job =
                       IF \A t \in txs : ConflictingLocks(db', t) = {} THEN "connect" ELSE "abort"]
    BY Zenon DEF ConnectBlock
  <2>3. CASE \E b \in Block :
               LET txs == Range(Contents[b])
               IN  /\ \E S : db' = RemoveChainedInstantSendLocks(db, S)
                   /\ main' = [main EXCEPT !.job =
                         IF \A t \in txs : ConflictingLocks(db', t) = {} THEN "connect" ELSE "abort"]
    <3>1. PICK b \in Block :
             /\ \E S : db' = RemoveChainedInstantSendLocks(db, S)
             /\ main' = [main EXCEPT !.job =
                   IF \A t \in Range(Contents[b]) : ConflictingLocks(db', t) = {}
                   THEN "connect" ELSE "abort"]
      BY <2>3, Zenon
    <3> DEFINE j == IF \A t \in Range(Contents[b]) : ConflictingLocks(db', t) = {}
                    THEN "connect" ELSE "abort"
    <3>2. j = "connect" \/ j = "abort"  BY Zenon
    <3>3. main' = [main EXCEPT !.job = j]  BY <3>1, Zenon
    <3> HIDE DEF j
    <3> QED  BY <2>1, <3>1, <3>2, <3>3, Zenon
  <2> QED  BY <2>1, <2>2, <2>3, Zenon
<1>2. CASE main' = Finish(main) /\ UNCHANGED db
  <2>1. MainOK(main', tip)  BY <1>0, <1>2, FinishStep, Zenon
  <2>2. ChainOK(mempool', tip', txIndex', main')  BY <1>0, <1>1, <2>1, Zenon DEF ChainOK
  <2> QED  BY <1>0, <1>1, <1>2, <2>2, ChainStep, Zenon
<1>3. ASSUME NEW S, db' = RemoveChainedInstantSendLocks(db, S),
             NEW j \in {"connect", "abort"}, main' = [main EXCEPT !.job = j]
      PROVE  IInv'
  <2>1. DbOK(db')  BY <1>0, <1>3, Removed, Zenon DEF RemoveChainedInstantSendLocks
  <2>2. main.target \in Block  BY <1>0, <1>1, Zenon DEF MainOK
  <2>3. main' \in Job /\ main'.job = j /\ main'.target = main.target
    BY <1>0, <1>3, SMTT(30) DEF Job, JobName
  <2>4. MainOK(main', tip)  BY <2>2, <2>3, Zenon DEF MainOK
  <2>5. ChainOK(mempool', tip', txIndex', main')  BY <1>0, <1>1, <2>4, Zenon DEF ChainOK
  <2> QED  BY <1>1, <2>1, <2>5, ChainStep, Zenon
<1> QED  BY <1>1, <1>2, <1>3, Zenon

\* The rest of ConnectTip.
LEMMA ConnectTipStep ==
  ASSUME IInv, ConnectTip
  PROVE  IInv'
<1>0. /\ mempool \subseteq Tx /\ tip \in Block /\ txIndex \in [Tx \cup Coin -> AnyBlock]
      /\ main \in Job /\ MainOK(main, tip) /\ DbOK(db)
  BY DEF IInv, ChainOK, MainOK
<1>1. /\ main.job = "connect"
      /\ UNCHANGED <<db, pending, retry, work, proc, rec, nonLocked, byInputs, creating, toCreating>>
  BY Zenon DEF ConnectTip, signing, tracker, making, threads
<1>2. PICK b \in Block :
        LET mined == Range(Contents[b])
            evicted == WithDescendants({u \in mempool : \E t \in mined : Conflict(t, u)}, mempool)
        IN  /\ mempool' = mempool \ (mined \cup evicted)
            /\ txIndex' = [x \in DOMAIN txIndex |-> IF x \in mined THEN b ELSE txIndex[x]]
            /\ tip' = b
            /\ \E s \in Orders(evicted) :
                  LET m == [main EXCEPT !.evicted = @ \o CallAll(s, NoBlock, FALSE),
                                        !.connected = @ \o CallAll(Contents[b], b, TRUE)]
                  IN  main' = Finish(m) \/ main' = [m EXCEPT !.job = "walk"]
  BY Zenon DEF ConnectTip
<1> DEFINE mined == Range(Contents[b])
           evicted == WithDescendants({u \in mempool : \E t \in mined : Conflict(t, u)}, mempool)
<1>3. /\ mempool' = mempool \ (mined \cup evicted) /\ tip' = b
      /\ txIndex' = [x \in DOMAIN txIndex |-> IF x \in mined THEN b ELSE txIndex[x]]
  BY <1>2, Zenon
<1>4. PICK s \in Orders(evicted) :
         LET m == [main EXCEPT !.evicted = @ \o CallAll(s, NoBlock, FALSE),
                               !.connected = @ \o CallAll(Contents[b], b, TRUE)]
         IN  main' = Finish(m) \/ main' = [m EXCEPT !.job = "walk"]
  BY <1>2, Zenon
<1> DEFINE ev == main.evicted \o CallAll(s, NoBlock, FALSE)
           co == main.connected \o CallAll(Contents[b], b, TRUE)
           m == [main EXCEPT !.evicted = ev, !.connected = co]
<1>5. main' = Finish(m) \/ main' = [m EXCEPT !.job = "walk"]  BY <1>4, Zenon
<1>6. evicted \subseteq mempool
  <2> DEFINE S == {u \in mempool : \E t \in mined : Conflict(t, u)}
  <2>1. S \subseteq mempool  BY Zenon
  <2>2. evicted \subseteq S \cup mempool  BY DescendantsFacts, Zenon
  <2> HIDE DEF S, evicted
  <2> QED  BY <2>1, <2>2, Zenon
<1> HIDE DEF evicted
<1>7. evicted \subseteq Tx  BY <1>0, <1>6, Zenon
<1>8. CallAll(s, NoBlock, FALSE) \in Seq(Calls)
  BY <1>7, OrderFacts, CallFacts, Zenon DEF AnyBlock
<1>9. CallAll(Contents[b], b, TRUE) \in Seq(Calls)
  <2>1. Contents[b] \in Seq(Tx)  BY InstantSendAssumption, Zenon
  <2> QED  BY <2>1, CallFacts, Zenon DEF AnyBlock
<1>10. main.evicted \in Seq(Calls) /\ main.connected \in Seq(Calls)  BY <1>0, Zenon DEF Job
<1>11. ev \in Seq(Calls) /\ co \in Seq(Calls)  BY <1>8, <1>9, <1>10, Joined, Zenon
<1> HIDE DEF ev, co
<1>12. main.target \in Block  BY <1>0, <1>1, Zenon DEF MainOK
<1>13. m \in Job /\ m.job = "connect" /\ m.target = main.target
  BY <1>0, <1>1, <1>11, Zenon DEF Job, JobName
<1> HIDE DEF m
<1>14. MainOK(m, b)  BY <1>12, <1>13, Zenon DEF MainOK
<1>15. MainOK(main', b)
  <2>1. CASE main' = Finish(m)  BY <1>14, <2>1, FinishStep, Zenon
  <2>2. CASE main' = [m EXCEPT !.job = "walk"]
    <3>1. main' \in Job /\ main'.job = "walk" /\ main'.target = m.target
      BY <1>13, <2>2, Zenon DEF Job, JobName
    <3> QED  BY <1>12, <1>13, <3>1, Zenon DEF MainOK
  <2> QED  BY <1>5, <2>1, <2>2, Zenon
<1> HIDE DEF mined
<1>16. txIndex' \in [Tx \cup Coin -> AnyBlock]
  <2>1. DOMAIN txIndex = Tx \cup Coin /\ b \in AnyBlock  BY <1>0, Zenon DEF AnyBlock
  <2>2. \A x \in Tx \cup Coin : (IF x \in mined THEN b ELSE txIndex[x]) \in AnyBlock  BY <1>0, <2>1, Zenon
  <2> QED  BY <1>3, <2>1, <2>2, Zenon
<1>17. ChainOK(mempool', tip', txIndex', main')  BY <1>0, <1>3, <1>15, <1>16, Zenon DEF ChainOK
<1> QED  BY <1>0, <1>1, <1>17, ChainStep, Zenon

-----------------------------------------------------------------------------
(* SyncTransaction and confirmation.                                       *)

\* What a step of the holder of cs_main or of a notification must show.
LEMMA NodeStep ==
  ASSUME IInv, ChainOK(mempool', tip', txIndex', main'), DbOK(db'), RecOK(rec'),
         TrackOK(nonLocked', byInputs'), retry' \subseteq Tx, CreatingOK(creating', toCreating'),
         UNCHANGED <<pending, work, proc>>
  PROVE  IInv'
<1>1. LocksOK(pending', retry', work', proc')  BY Zenon DEF IInv, LocksOK
<1> QED  BY <1>1, Zenon DEF IInv

\* The first section of SyncTransaction: conflicts found by a disconnect, the table
\* of mined locks.
LEMMA SyncTransactionStep ==
  ASSUME IInv, SyncTransaction
  PROVE  IInv'
<1> DEFINE c == Head(main.calls)
           locked == c.tx \in db.tx
<1>0. /\ mempool \subseteq Tx /\ tip \in Block /\ txIndex \in [Tx \cup Coin -> AnyBlock]
      /\ main \in Job /\ MainOK(main, tip) /\ DbOK(db) /\ RecOK(rec)
      /\ TrackOK(nonLocked, byInputs) /\ retry \subseteq Tx /\ CreatingOK(creating, toCreating)
  BY Zenon DEF IInv, ChainOK, MainOK, LocksOK
<1>1. /\ main.calls # <<>>
      /\ UNCHANGED <<mempool, tip, txIndex, rec, pending, work, proc, creating, toCreating>>
  BY Zenon DEF SyncTransaction, InCall, signing, making, threads
<1>2. MainOK(Returned, tip)  BY <1>0, <1>1, ReturnStep, Zenon
<1>3. MainOK([main EXCEPT !.sync = "process", !.skip = locked], tip)
  <2> DEFINE m == [main EXCEPT !.sync = "process", !.skip = locked]
  <2>1. locked \in BOOLEAN  OBVIOUS
  <2> HIDE DEF locked
  <2>2. m \in Job /\ m.job = main.job /\ m.tx = main.tx /\ m.target = main.target
    BY <1>0, <2>1, Zenon DEF Job
  <2> HIDE DEF m
  <2>3. MainOK(m, tip)  BY <1>0, <2>2, Zenon DEF MainOK
  <2> QED  BY <2>3, Zenon DEF m
<1>4. MainOK(main', tip)
  <2>1. main' = Returned \/ main' = [main EXCEPT !.sync = "process", !.skip = locked]
    BY Zenon DEF SyncTransaction
  <2> HIDE DEF locked
  <2> QED  BY <1>2, <1>3, <2>1, Zenon
<1>5. ChainOK(mempool', tip', txIndex', main')  BY <1>0, <1>1, <1>4, Zenon DEF ChainOK
<1>6. DbOK(db')
  <2>1. UNCHANGED db \/ \E m : db' = [db EXCEPT !.m = m]  BY Zenon DEF SyncTransaction
  <2> QED  BY <1>0, <2>1, MinedTable
<1>7. TrackOK(nonLocked', byInputs') /\ retry' \subseteq Tx
  <2>1. SetTracker(RemoveConflictedTxs(Tracker, {c.tx})) \/ UNCHANGED tracker
    BY Zenon DEF SyncTransaction
  <2> HIDE DEF c
  <2>2. CASE UNCHANGED tracker  BY <1>0, <2>2, Zenon DEF tracker
  <2> QED  BY <2>1, <2>2, ConflictedStep, Zenon
<1> QED  BY <1>0, <1>1, <1>5, <1>6, <1>7, NodeStep, Zenon

\* ProcessTx of the call's transaction.
LEMMA SyncProcessStep ==
  ASSUME IInv, SyncProcess
  PROVE  IInv'
<1> DEFINE c == Head(main.calls)
           skip == main.skip \/ (c.pindex # NoBlock /\ HasChainLock(c.pindex))
<1>0. /\ mempool \subseteq Tx /\ tip \in Block /\ txIndex \in [Tx \cup Coin -> AnyBlock]
      /\ main \in Job /\ MainOK(main, tip) /\ DbOK(db) /\ RecOK(rec)
      /\ TrackOK(nonLocked, byInputs) /\ retry \subseteq Tx
  BY Zenon DEF IInv, ChainOK, MainOK, LocksOK
<1>1. /\ main.calls # <<>>
      /\ SetLocking(IF skip THEN Locking ELSE ProcessTx(c.tx))
      /\ main' = [main EXCEPT !.sync = "track", !.skip = skip]
      /\ UNCHANGED <<mempool, tip, txIndex, rec, db, pending, work, proc, nonLocked, byInputs, retry>>
  BY Zenon DEF SyncProcess, InCall, tracker, threads
<1>2. c \in Calls  BY <1>0, <1>1, ReturnStep, Zenon
<1>3. c.tx \in Tx  BY <1>2, Zenon DEF Calls
<1>4. skip \in BOOLEAN  BY Zenon
<1> HIDE DEF skip, c
<1>5. main' \in Job /\ main'.job = main.job /\ main'.tx = main.tx /\ main'.target = main.target
  BY <1>0, <1>1, <1>4, Zenon DEF Job
<1>6. MainOK(main', tip)  BY <1>0, <1>5, Zenon DEF MainOK
<1>7. ChainOK(mempool', tip', txIndex', main')  BY <1>0, <1>1, <1>6, Zenon DEF ChainOK
<1>8. CreatingOK(creating', toCreating')  BY <1>1, <1>3, ProcessStep, Zenon
<1> QED  BY <1>0, <1>1, <1>7, <1>8, NodeStep, SMTT(30)

\* The call ends with the transaction tracked or, once locked, forgotten.
LEMMA SyncTrackStep ==
  ASSUME IInv, SyncTrack
  PROVE  IInv'
<1> DEFINE c == Head(main.calls)
           at == IF c.inBlock THEN c.pindex ELSE NoBlock
<1>0. /\ mempool \subseteq Tx /\ tip \in Block /\ txIndex \in [Tx \cup Coin -> AnyBlock]
      /\ MainOK(main, tip) /\ DbOK(db) /\ RecOK(rec) /\ CreatingOK(creating, toCreating)
  BY Zenon DEF IInv, ChainOK
<1>1. /\ main.calls # <<>> /\ main' = Returned
      /\ \/ SetTracker(RemoveNonLockedTx(Tracker, c.tx))
         \/ SetTracker(AddNonLockedTx(Tracker, c.tx, at))
      /\ UNCHANGED <<mempool, tip, txIndex, rec, db, pending, work, proc, creating, toCreating>>
  BY Zenon DEF SyncTrack, InCall, signing, making, threads
<1>2. c \in Calls /\ MainOK(main', tip)  BY <1>0, <1>1, ReturnStep, Zenon
<1>3. c.tx \in Tx /\ c.pindex \in AnyBlock  BY <1>2, Zenon DEF Calls
<1> HIDE DEF c
<1>4. at \in AnyBlock  BY <1>3, Zenon DEF AnyBlock
<1> HIDE DEF at
<1>5. TrackOK(nonLocked', byInputs') /\ retry' \subseteq Tx
  BY <1>1, <1>3, <1>4, UnlockedStep, TrackStep, Zenon
<1>6. ChainOK(mempool', tip', txIndex', main')  BY <1>0, <1>1, <1>2, Zenon DEF ChainOK
<1> QED  BY <1>0, <1>1, <1>5, <1>6, NodeStep, Zenon

\* HandleFullyConfirmedBlock forgets locks, signatures and buried transactions.
LEMMA ConfirmStep ==
  ASSUME IInv, NEW b, HandleFullyConfirmedBlock(b)
  PROVE  DbOK(db') /\ RecOK(rec') /\ TrackOK(nonLocked', byInputs') /\ retry' \subseteq Tx
<1>0. DbOK(db) /\ RecOK(rec) /\ TrackOK(nonLocked, byInputs)  BY Zenon DEF IInv
<1>1. DbOK(db')
  <2> DEFINE d == RemoveInstantSendLocks(db, Confirmed(db, Height[b]))
  <2>1. \E m : db' = [d EXCEPT !.m = m]
    BY Zenon DEF HandleFullyConfirmedBlock, RemoveConfirmedInstantSendLocks
  <2>2. DbOK(d)  BY <1>0, Removed, Zenon
  <2> HIDE DEF d
  <2> QED  BY <2>1, <2>2, MinedTable
<1>2. RecOK(rec')
  <2>1. PICK erased : rec' = [id \in Id |-> IF id \in erased THEN NoTx ELSE rec[id]]
    BY Zenon DEF HandleFullyConfirmedBlock
  <2>2. \A o \in Outpoint : InputId(o) \in Id  BY Zenon DEF Id
  <2>3. rec' \in [Id -> Tx \cup {NoTx}]  BY <1>0, <2>1, Zenon DEF RecOK
  <2>4. \A o \in Outpoint : rec'[InputId(o)] \in {rec[InputId(o)], NoTx}  BY <2>1, <2>2, Zenon
  <2>5. \A o \in Outpoint : rec'[InputId(o)] \in {Winner[o], NoTx}  BY <1>0, <2>4, Zenon DEF RecOK
  <2> QED  BY <2>3, <2>5, Zenon DEF RecOK
<1>3. TrackOK(nonLocked', byInputs') /\ retry' \subseteq Tx
  <2> DEFINE buried == {x \in DOMAIN nonLocked : nonLocked[x].mined \in Path[b]}
             children == Children(Tracker, buried)
  <2>1. PICK extra \in SUBSET (children \cap buried) :
          SetTracker(RemoveNonLockedTxs(Tracker, buried, (children \ buried) \cup extra))
    BY Zenon DEF HandleFullyConfirmedBlock
  <2>2. TrackOK(Tracker.nonLocked, Tracker.byInputs)  BY <1>0, Zenon DEF Tracker
  <2>3. children \subseteq Tx  BY <2>2, ChildrenFacts, Zenon
  <2> HIDE DEF children, buried
  <2>4. (children \ buried) \cup extra \in SUBSET Tx  BY <2>3, Zenon
  <2> QED  BY <2>1, <2>4, UntrackStep, Zenon
<1> QED  BY <1>1, <1>2, <1>3, Zenon

\* It runs on a ChainLock, or on a tip that buries a block deep enough.
LEMMA ConfirmationStep ==
  ASSUME IInv, NotifyChainLock \/ UpdatedBlockTip
  PROVE  IInv'
<1>0. /\ ChainOK(mempool, tip, txIndex, main) /\ DbOK(db) /\ RecOK(rec)
      /\ TrackOK(nonLocked, byInputs) /\ retry \subseteq Tx /\ CreatingOK(creating, toCreating)
  BY Zenon DEF IInv, LocksOK
<1>1. CASE NotifyChainLock
  <2>1. HandleFullyConfirmedBlock(cl)
        /\ UNCHANGED <<mempool, tip, txIndex, main, creating, toCreating, pending, work, proc>>
    BY <1>1, Zenon DEF NotifyChainLock, chain, threads
  <2>2. DbOK(db') /\ RecOK(rec') /\ TrackOK(nonLocked', byInputs') /\ retry' \subseteq Tx
    BY <2>1, ConfirmStep, Zenon
  <2> QED  BY <1>0, <2>1, <2>2, NodeStep, SMTT(30)
<1>2. CASE UpdatedBlockTip
  <2>1. /\ main' = Idle
        /\ UNCHANGED <<mempool, tip, txIndex, creating, toCreating, pending, work, proc>>
        /\ UNCHANGED <<db, rec, nonLocked, byInputs, retry>> \/ \E b : HandleFullyConfirmedBlock(b)
    BY <1>2, Zenon DEF UpdatedBlockTip, tracker, threads
  <2>2. DbOK(db') /\ RecOK(rec') /\ TrackOK(nonLocked', byInputs') /\ retry' \subseteq Tx
    BY <1>0, <2>1, ConfirmStep, Zenon
  <2>3. Idle \in Job /\ Idle.job = "idle"  BY DEF Idle, Job, JobName, AnyBlock
  <2>4. MainOK(main', tip)  BY <2>1, <2>3, Zenon DEF MainOK
  <2>5. ChainOK(mempool', tip', txIndex', main')  BY <1>0, <2>1, <2>4, Zenon DEF ChainOK
  <2> QED  BY <1>0, <2>1, <2>2, <2>5, NodeStep, Zenon
<1> QED  BY <1>1, <1>2, Zenon

-----------------------------------------------------------------------------
(* Signatures and the worker.                                              *)

\* A signature on an input is the quorum's.
LEMMA RecoverInputStep ==
  ASSUME IInv, NEW o \in Outpoint, RecoverInput(o)
  PROVE  IInv'
<1> DEFINE t == Winner[o]
           r == [rec EXCEPT ![InputId(o)] = t]
           L == Locking
<1>0. /\ ChainOK(mempool, tip, txIndex, main) /\ DbOK(db) /\ RecOK(rec)
      /\ TrackOK(nonLocked, byInputs) /\ retry \subseteq Tx /\ CreatingOK(creating, toCreating)
  BY Zenon DEF IInv, LocksOK
<1>1. /\ rec' = r
      /\ SetLocking(TrySignInstantSendLock(L, r, t)) \/ SetLocking(L)
      /\ UNCHANGED <<mempool, tip, txIndex, main, db, nonLocked, byInputs, retry, pending, work, proc>>
  BY Zenon DEF RecoverInput, chain, tracker, threads
<1>2. t \in Tx  BY InputFacts, Zenon
<1>3. RecOK(r)
  <2>1. r \in [Id -> Tx \cup {NoTx}]  BY <1>0, <1>2, Zenon DEF RecOK
  <2>2. ASSUME NEW p \in Outpoint PROVE r[InputId(p)] \in {Winner[p], NoTx}
    <3>1. InputId(p) \in Id /\ rec \in [Id -> Tx \cup {NoTx}]  BY <1>0, Zenon DEF Id, RecOK
    <3>2. rec[InputId(p)] \in {Winner[p], NoTx}  BY <1>0, Zenon DEF RecOK
    <3>3. InputId(p) = InputId(o) => p = o  BY Zenon DEF InputId
    <3> QED  BY <3>1, <3>2, <3>3, Zenon
  <2> QED  BY <2>1, <2>2, Zenon DEF RecOK
<1>4. /\ L.creating = creating /\ L.toCreating = toCreating
      /\ DOMAIN L = {"vote", "creating", "toCreating", "inputIds"}
  BY Zenon DEF Locking
<1> HIDE DEF L, r, t
<1>5. CreatingOK(creating', toCreating')
  <2>1. CASE SetLocking(TrySignInstantSendLock(L, r, t))
    <3> DEFINE M == TrySignInstantSendLock(L, r, t)
    <3>1. CreatingOK(M.creating, M.toCreating)  BY <1>0, <1>2, <1>3, <1>4, Tried, Zenon
    <3>2. creating' = M.creating /\ toCreating' = M.toCreating  BY <2>1, Zenon DEF SetLocking
    <3> HIDE DEF M
    <3> QED  BY <3>1, <3>2, Zenon
  <2>2. CASE SetLocking(L)  BY <1>0, <1>4, <2>2, Zenon DEF SetLocking
  <2> QED  BY <1>1, <2>1, <2>2, Zenon
<1>6. ChainOK(mempool', tip', txIndex', main')  BY <1>0, <1>1, Zenon
<1> QED  BY <1>0, <1>1, <1>3, <1>5, <1>6, NodeStep, Zenon

\* What a step of a handler must show.
LEMMA HandlerStep ==
  ASSUME IInv, NEW th \in Thread, NEW h \in Handler, h.pc # "idle" => h.lock \in Lockable,
         proc' = [proc EXCEPT ![th] = h], UNCHANGED <<pending, work>>,
         ChainOK(mempool', tip', txIndex', main'), DbOK(db'), RecOK(rec'),
         TrackOK(nonLocked', byInputs'), retry' \subseteq Tx, CreatingOK(creating', toCreating')
  PROVE  IInv'
<1>1. proc \in [Thread -> Handler]  BY Zenon DEF IInv, LocksOK
<1>2. proc' \in [Thread -> Handler]  BY <1>1, Zenon
<1>3. \A x \in Thread : proc'[x] = IF x = th THEN h ELSE proc[x]  BY <1>1, Zenon
<1>4. LocksOK(pending', retry', work', proc')  BY <1>2, <1>3, Zenon DEF IInv, LocksOK
<1> QED  BY <1>4, Zenon DEF IInv

\* A handler starts on a lock.
LEMMA StartFacts ==
  ASSUME NEW t \in Lockable
  PROVE  StartLock(t) \in Handler /\ StartLock(t).lock = t /\ NoProc \in Handler /\ NoProc.pc = "idle"
<1>1. NoProc \in Handler /\ NoProc.pc = "idle"  BY Zenon DEF NoProc, Handler, Section, AnyBlock
<1>2. t \in Tx  BY InputFacts, Zenon
<1> QED  BY <1>1, <1>2, Zenon DEF StartLock, Handler, Section

\* A recovered lock leaves the maps of locks being created.
LEMMA RecoverLockStep ==
  ASSUME IInv, NEW t \in Lockable, RecoverLock(t)
  PROVE  IInv'
<1> DEFINE id == LockId(t)
<1>0. /\ ChainOK(mempool, tip, txIndex, main) /\ DbOK(db) /\ RecOK(rec)
      /\ TrackOK(nonLocked, byInputs) /\ retry \subseteq Tx /\ CreatingOK(creating, toCreating)
  BY Zenon DEF IInv, LocksOK
<1>1. /\ rec' = [rec EXCEPT ![id] = t] /\ creating' = WithoutLock(id)
      /\ toCreating' = IF id \in DOMAIN creating THEN toCreating \ {creating[id]} ELSE toCreating
      /\ proc' = [proc EXCEPT !["sig"] = StartLock(t)] \/ proc' = proc
      /\ UNCHANGED <<mempool, tip, txIndex, main, db, nonLocked, byInputs, retry, pending, work>>
  BY Zenon DEF RecoverLock, chain, tracker
<1>2. RecOK(rec')
  <2>1. t \in Tx  BY InputFacts, SMTT(30)
  <2>2. rec' \in [Id -> Tx \cup {NoTx}]  BY <1>0, <1>1, <2>1, Zenon DEF RecOK
  <2>3. ASSUME NEW o \in Outpoint PROVE rec'[InputId(o)] \in {Winner[o], NoTx}
    <3>1. InputId(o) \in Id /\ rec \in [Id -> Tx \cup {NoTx}]  BY <1>0, Zenon DEF Id, RecOK
    <3>2. rec[InputId(o)] \in {Winner[o], NoTx}  BY <1>0, Zenon DEF RecOK
    <3>3. InputId(o) # id  BY Zenon DEF InputId, LockId
    <3> QED  BY <1>1, <3>1, <3>2, <3>3, Zenon
  <2> QED  BY <2>2, <2>3, Zenon DEF RecOK
<1>3. CreatingOK(creating', toCreating')  BY <1>0, <1>1, Erased, Zenon
<1> HIDE DEF id
<1>4. ChainOK(mempool', tip', txIndex', main') /\ DbOK(db') /\ TrackOK(nonLocked', byInputs')
      /\ retry' \subseteq Tx
  BY <1>0, <1>1, Zenon
<1>5. CASE proc' = proc
  <2>1. UNCHANGED <<pending, work, proc>>  BY <1>1, <1>5, Zenon
  <2> QED  BY <1>2, <1>3, <1>4, <2>1, NodeStep, Zenon
<1>6. CASE proc' = [proc EXCEPT !["sig"] = StartLock(t)]
  <2>1. StartLock(t) \in Handler /\ StartLock(t).lock = t  BY StartFacts, Zenon
  <2>2. "sig" \in Thread /\ UNCHANGED <<pending, work>>  BY <1>1, Zenon DEF Thread
  <2> DEFINE h == StartLock(t)
  <2> HIDE DEF h
  <2>3. h \in Handler /\ h.lock \in Lockable /\ proc' = [proc EXCEPT !["sig"] = h]
    BY <1>6, <2>1, Zenon DEF h
  <2> QED  BY <1>2, <1>3, <1>4, <2>2, <2>3, HandlerStep, Zenon
<1> QED  BY <1>1, <1>5, <1>6, Zenon

\* What a step that moves locks between the queues must show.
LEMMA QueueStep ==
  ASSUME IInv, LocksOK(pending', retry', work', proc'), CreatingOK(creating', toCreating'),
         UNCHANGED <<mempool, tip, txIndex, main, db, rec, nonLocked, byInputs>>
  PROVE  IInv'
BY Zenon DEF IInv

\* Locks arrive, the worker takes them and the transactions to retry.
LEMMA WorkerStep ==
  ASSUME IInv, Worker \/ \E t \in Lockable : ReceiveISLock(t)
  PROVE  IInv'
<1>0. /\ pending \subseteq Lockable /\ retry \subseteq Tx
      /\ work \in [locks : SUBSET Lockable, txs : SUBSET Tx]
      /\ LocksOK(pending, retry, work, proc) /\ CreatingOK(creating, toCreating)
  BY Zenon DEF IInv, LocksOK
<1>1. ASSUME NEW t \in Lockable, ReceiveISLock(t) PROVE IInv'
  <2>1. /\ pending' = pending \cup {t}
        /\ UNCHANGED <<mempool, tip, txIndex, main, db, rec, nonLocked, byInputs, retry, work, proc,
                       creating, toCreating>>
    BY <1>1, Zenon DEF ReceiveISLock, chain, signing, tracker, making
  <2>2. LocksOK(pending', retry', work', proc')  BY <1>0, <2>1, SMTT(30) DEF LocksOK
  <2> QED  BY <1>0, <2>1, <2>2, QueueStep, SMTT(30)
<1>2. CASE TakePendingLocks
  <2>1. /\ work' = [locks |-> pending, txs |-> {}] /\ pending' = {}
        /\ UNCHANGED <<mempool, tip, txIndex, main, db, rec, nonLocked, byInputs, retry, proc,
                       creating, toCreating>>
    BY <1>2, SMTT(30) DEF TakePendingLocks, chain, signing, tracker, making
  <2>2. work' \in [locks : SUBSET Lockable, txs : SUBSET Tx]
    <3>1. pending \subseteq Lockable /\ retry \subseteq Tx  BY <1>0, Zenon DEF LocksOK
    <3> QED  BY <2>1, <3>1, Zenon
  <2>3. LocksOK(pending', retry', work', proc')  BY <1>0, <2>1, <2>2, Zenon DEF LocksOK
  <2> QED  BY <1>0, <2>1, <2>3, QueueStep, SMTT(30)
<1>3. CASE NextPendingLock
  <2>1. PICK t \in work.locks :
          /\ proc' = [proc EXCEPT !["work"] = StartLock(t)]
          /\ work' = [work EXCEPT !.locks = @ \ {t}]
    BY <1>3, Zenon DEF NextPendingLock
  <2>2. UNCHANGED <<mempool, tip, txIndex, main, db, rec, nonLocked, byInputs, retry, pending,
                    creating, toCreating>>
    BY <1>3, Zenon DEF NextPendingLock, chain, signing, tracker, making
  <2>3. t \in Lockable  BY <1>0, Zenon
  <2>4. work' \in [locks : SUBSET Lockable, txs : SUBSET Tx]  BY <1>0, <2>1, Zenon
  <2> DEFINE h == StartLock(t)
  <2>5. h \in Handler /\ h.lock \in Lockable  BY <2>3, StartFacts, Zenon
  <2> HIDE DEF h
  <2>6. proc' = [proc EXCEPT !["work"] = h] /\ proc \in [Thread -> Handler]
    BY <1>0, <2>1, Zenon DEF h, LocksOK
  <2>7. /\ proc' \in [Thread -> Handler]
        /\ \A x \in Thread : proc'[x] = IF x = "work" THEN h ELSE proc[x]
    BY <2>5, <2>6, SMTT(30) DEF Thread
  <2>8. LocksOK(pending', retry', work', proc')  BY <1>0, <2>2, <2>4, <2>5, <2>7, SMTT(30) DEF LocksOK
  <2> QED  BY <1>0, <2>2, <2>8, QueueStep, Zenon
<1>4. CASE TakePendingRetries
  <2>1. /\ work' = [locks |-> {}, txs |-> retry] /\ retry' = {}
        /\ UNCHANGED <<mempool, tip, txIndex, main, db, rec, nonLocked, byInputs, pending, proc,
                       creating, toCreating>>
    BY <1>4, SMTT(30) DEF TakePendingRetries, chain, signing, making
  <2>2. work' \in [locks : SUBSET Lockable, txs : SUBSET Tx]
    <3>1. pending \subseteq Lockable /\ retry \subseteq Tx  BY <1>0 DEF LocksOK
    <3> QED  BY <2>1, <3>1, Zenon
  <2>3. LocksOK(pending', retry', work', proc')  BY <1>0, <2>1, <2>2, SMTT(30) DEF LocksOK
  <2> QED  BY <1>0, <2>1, <2>3, QueueStep, SMTT(30)
<1>5. CASE RetryTx
  <2>1. PICK t \in work.txs : \E skip :
          /\ SetLocking(IF skip THEN Locking ELSE ProcessTx(t))
          /\ work' = [work EXCEPT !.txs = @ \ {t}]
    BY <1>5, Zenon DEF RetryTx
  <2>2. UNCHANGED <<mempool, tip, txIndex, main, db, rec, nonLocked, byInputs, retry, pending, proc>>
    BY <1>5, Zenon DEF RetryTx, chain, tracker
  <2>3. t \in Tx  BY <1>0, Zenon
  <2>4. CreatingOK(creating', toCreating')  BY <2>1, <2>3, ProcessStep, Zenon
  <2>5. work' \in [locks : SUBSET Lockable, txs : SUBSET Tx]  BY <1>0, <2>1, Zenon
  <2>6. LocksOK(pending', retry', work', proc')  BY <1>0, <2>2, <2>5, Zenon DEF LocksOK
  <2> QED  BY <2>2, <2>4, <2>6, QueueStep, Zenon
<1> QED  BY <1>1, <1>2, <1>3, <1>4, <1>5, Zenon DEF Worker

-----------------------------------------------------------------------------
(* ProcessInstantSendLock.                                                 *)

\* What every section of a handler starts from.
LEMMA HandlerFacts ==
  ASSUME IInv, NEW th \in Thread
  PROVE  /\ ChainOK(mempool, tip, txIndex, main) /\ DbOK(db) /\ RecOK(rec)
         /\ TrackOK(nonLocked, byInputs) /\ retry \subseteq Tx /\ CreatingOK(creating, toCreating)
         /\ proc \in [Thread -> Handler] /\ proc[th] \in Handler /\ proc[th].lock \in Tx \cup {NoTx}
         /\ proc[th].pc # "idle" => proc[th].lock \in Lockable
         /\ NoProc \in Handler /\ NoProc.pc = "idle"
<1>1. /\ ChainOK(mempool, tip, txIndex, main) /\ DbOK(db) /\ RecOK(rec)
      /\ TrackOK(nonLocked, byInputs) /\ retry \subseteq Tx /\ CreatingOK(creating, toCreating)
      /\ proc \in [Thread -> Handler]
      /\ proc[th].pc # "idle" => proc[th].lock \in Lockable
  BY Zenon DEF IInv, LocksOK
<1>2. proc[th] \in Handler /\ proc[th].lock \in Tx \cup {NoTx}  BY <1>1, Zenon DEF Handler
<1>3. NoProc \in Handler /\ NoProc.pc = "idle"  BY Zenon DEF NoProc, Handler, Section, AnyBlock
<1> QED  BY <1>1, <1>2, <1>3, Zenon

\* GetTransaction.
LEMMA LookupStep ==
  ASSUME IInv, NEW th \in Thread, LookupTx(th)
  PROVE  IInv'
<1> DEFINE b == MinedBlock(proc[th].lock)
           h == [proc[th] EXCEPT !.pc = "store", !.mined = b]
<1>0. UNCHANGED <<mempool, tip, txIndex, main, db, rec, nonLocked, byInputs, retry, creating,
                  toCreating, pending, work>>
  BY Zenon DEF LookupTx, chain, signing, tracker, making
<1>1. At(th, "lookup")
      /\ (proc' = [proc EXCEPT ![th] = NoProc]
          \/ proc' = [proc EXCEPT ![th].pc = "store", ![th].mined = b])
  BY Zenon DEF LookupTx, Done
<1>2. /\ ChainOK(mempool', tip', txIndex', main') /\ DbOK(db') /\ RecOK(rec')
      /\ TrackOK(nonLocked', byInputs') /\ retry' \subseteq Tx /\ CreatingOK(creating', toCreating')
  BY <1>0, HandlerFacts, SMTT(30)
<1>3. CASE proc' = [proc EXCEPT ![th] = NoProc]
  BY <1>0, <1>2, <1>3, HandlerFacts, HandlerStep, Zenon
<1>4. CASE proc' = [proc EXCEPT ![th].pc = "store", ![th].mined = b]
  <2>1. proc[th].lock \in Lockable /\ proc[th] \in Handler /\ proc \in [Thread -> Handler]
    BY <1>1, HandlerFacts, Zenon DEF At
  <2>2. b \in AnyBlock
    <3>1. proc[th].lock \in Tx /\ txIndex \in [Tx \cup Coin -> AnyBlock]
      BY <2>1, InputFacts, HandlerFacts, Zenon DEF ChainOK
    <3> QED  BY <3>1, SMTT(30) DEF MinedBlock, AnyBlock
  <2> HIDE DEF b
  <2>3. h \in Handler /\ h.lock = proc[th].lock  BY <2>1, <2>2, Zenon DEF Handler, Section
  <2>4. proc' = [proc EXCEPT ![th] = h]  BY <1>4, <2>1, Zenon
  <2> HIDE DEF h
  <2> QED  BY <1>0, <1>2, <2>1, <2>3, <2>4, HandlerStep, Zenon
<1> QED  BY <1>1, <1>3, <1>4, Zenon

\* The section that stores the lock.
LEMMA StoreStep ==
  ASSUME IInv, NEW th \in Thread, StoreLock(th)
  PROVE  IInv'
<1> DEFINE t == proc[th].lock
           b == proc[th].mined
           d == WriteNewInstantSendLock(db, t)
           h == [proc[th] EXCEPT !.pc = "mempool"]
<1>0. /\ At(th, "store") /\ creating' = WithoutLock(LockId(t)) /\ toCreating' = toCreating \ {t}
      /\ UNCHANGED <<mempool, tip, txIndex, main, rec, pending, work>>
  BY Zenon DEF StoreLock, chain, signing
<1>1. \/ proc' = [proc EXCEPT ![th] = NoProc] /\ UNCHANGED <<db, nonLocked, byInputs, retry>>
      \/ /\ db' = d \/ \E m : db' = [d EXCEPT !.m = m]
         /\ SetTracker(RemoveNonLockedTx(Tracker, t))
         /\ proc' = [proc EXCEPT ![th].pc = "mempool"]
  BY ZenonT(30) DEF StoreLock, Done, Goto, tracker
<1>2. /\ t \in Lockable /\ proc[th] \in Handler /\ proc \in [Thread -> Handler] /\ DbOK(db)
      /\ CreatingOK(creating, toCreating)
  BY <1>0, HandlerFacts, Zenon DEF At
<1>3. CreatingOK(creating', toCreating')  BY <1>0, <1>2, Erased, SMTT(30)
<1>4. ChainOK(mempool', tip', txIndex', main') /\ RecOK(rec')  BY <1>0, HandlerFacts, SMTT(30)
<1>5. CASE proc' = [proc EXCEPT ![th] = NoProc] /\ UNCHANGED <<db, nonLocked, byInputs, retry>>
  <2>1. DbOK(db') /\ TrackOK(nonLocked', byInputs') /\ retry' \subseteq Tx  BY <1>5, HandlerFacts, Zenon
  <2> QED  BY <1>0, <1>3, <1>4, <1>5, <2>1, HandlerFacts, HandlerStep, Zenon
<1>6. CASE /\ db' = d \/ \E m : db' = [d EXCEPT !.m = m]
           /\ SetTracker(RemoveNonLockedTx(Tracker, t))
           /\ proc' = [proc EXCEPT ![th].pc = "mempool"]
  <2>1. DbOK(d)  BY <1>2, Written, Zenon
  <2> HIDE DEF d
  <2>2. DbOK(db')  BY <1>6, <2>1, MinedTable
  <2>3. TrackOK(nonLocked', byInputs') /\ retry' \subseteq Tx  BY <1>6, UnlockedStep, Zenon
  <2>4. h \in Handler /\ h.lock = t  BY <1>2, Zenon DEF Handler, Section
  <2>5. proc' = [proc EXCEPT ![th] = h]  BY <1>2, <1>6, Zenon
  <2> HIDE DEF h
  <2> QED  BY <1>0, <1>2, <1>3, <1>4, <2>2, <2>3, <2>4, <2>5, HandlerStep, Zenon
<1> QED  BY <1>1, <1>5, <1>6, Zenon

\* Conflicts leave the mempool.
LEMMA MempoolStep ==
  ASSUME IInv, NEW th \in Thread, RemoveMempoolConflictsForLock(th)
  PROVE  IInv'
<1> DEFINE conflicts == {u \in mempool : Conflict(u, proc[th].lock)}
           removed == WithDescendants(conflicts, mempool)
           h == [proc[th] EXCEPT !.pc = "conflicts"]
<1>0. /\ At(th, "mempool") /\ mempool' = mempool \ removed
      /\ \/ \E s \in Orders(removed) :
               main' = [main EXCEPT !.evicted = main.evicted \o CallAll(s, NoBlock, FALSE)]
         \/ main' = main
      /\ SetTracker(RemoveConflictedTxs(Tracker, conflicts))
      /\ proc' = [proc EXCEPT ![th].pc = "conflicts"]
      /\ UNCHANGED <<tip, txIndex, db, rec, creating, toCreating, pending, work>>
  BY Zenon DEF RemoveMempoolConflictsForLock, Goto, signing, making
<1>1. /\ proc[th].lock \in Lockable /\ proc[th] \in Handler /\ proc \in [Thread -> Handler]
      /\ ChainOK(mempool, tip, txIndex, main)
  BY <1>0, HandlerFacts, Zenon DEF At
<1>2. /\ mempool \subseteq Tx /\ tip \in Block /\ txIndex \in [Tx \cup Coin -> AnyBlock]
      /\ MainOK(main, tip) /\ main \in Job
  BY <1>1, Zenon DEF ChainOK, MainOK
<1>3. removed \subseteq Tx
  <2>1. conflicts \subseteq Tx  BY <1>2, Zenon
  <2>2. removed \subseteq conflicts \cup mempool  BY DescendantsFacts, Zenon
  <2> HIDE DEF conflicts, removed
  <2> QED  BY <1>2, <2>1, <2>2, Zenon
<1>4. TrackOK(nonLocked', byInputs') /\ retry' \subseteq Tx
  <2> HIDE DEF conflicts
  <2> QED  BY <1>0, ConflictedStep, Zenon
<1> HIDE DEF conflicts, removed
<1>5. MainOK(main', tip)
  <2>1. ASSUME NEW s \in Orders(removed),
               main' = [main EXCEPT !.evicted = main.evicted \o CallAll(s, NoBlock, FALSE)]
        PROVE  MainOK(main', tip)
    <3> DEFINE ev == main.evicted \o CallAll(s, NoBlock, FALSE)
    <3>1. CallAll(s, NoBlock, FALSE) \in Seq(Calls)
      BY <1>3, OrderFacts, CallFacts, Zenon DEF AnyBlock
    <3>2. main.evicted \in Seq(Calls)  BY <1>2, Zenon DEF Job
    <3>3. ev \in Seq(Calls)  BY <3>1, <3>2, Joined, Zenon
    <3>4. main' = [main EXCEPT !.evicted = ev]  BY <2>1, Zenon
    <3> HIDE DEF ev
    <3>5. main' \in Job /\ main'.job = main.job /\ main'.tx = main.tx /\ main'.target = main.target
      BY <1>2, <3>3, <3>4, Zenon DEF Job
    <3> QED  BY <1>2, <3>5, Zenon DEF MainOK
  <2> QED  BY <1>0, <1>2, <2>1, Zenon
<1>6. ChainOK(mempool', tip', txIndex', main')  BY <1>0, <1>2, <1>5, Zenon DEF ChainOK
<1>7. h \in Handler /\ h.lock = proc[th].lock  BY <1>1, Zenon DEF Handler, Section
<1>8. proc' = [proc EXCEPT ![th] = h]  BY <1>0, <1>1, Zenon
<1>9. DbOK(db') /\ RecOK(rec') /\ CreatingOK(creating', toCreating')  BY <1>0, HandlerFacts, Zenon
<1> HIDE DEF h
<1> QED  BY <1>0, <1>1, <1>4, <1>6, <1>7, <1>8, <1>9, HandlerStep, Zenon

\* The conflicts in blocks are collected.
LEMMA ResolveStep ==
  ASSUME IInv, NEW th \in Thread, ResolveBlockConflicts(th)
  PROVE  IInv'
<1> DEFINE found == BlockConflicts(proc[th].lock)
           conflicts == {<<u, nonLocked[u].mined>> : u \in found}
           pc == IF \E c \in conflicts : HasChainLock(c[2]) THEN "prune" ELSE "invalidate"
           h == [proc[th] EXCEPT !.conflicts = conflicts, !.pc = pc]
           g == IF conflicts = {} THEN NoProc ELSE h
<1>0. UNCHANGED <<mempool, tip, txIndex, main, db, rec, nonLocked, byInputs, retry, creating,
                  toCreating, pending, work>>
  BY Zenon DEF ResolveBlockConflicts, chain, signing, tracker, making
<1>1. /\ proc[th] \in Handler /\ proc \in [Thread -> Handler] /\ TrackOK(nonLocked, byInputs)
  BY HandlerFacts, Zenon
<1>2. At(th, "conflicts") /\ proc' = [proc EXCEPT ![th] = g]
  BY <1>1, Zenon DEF ResolveBlockConflicts
<1>3. proc[th].lock \in Lockable  BY <1>2, HandlerFacts, Zenon DEF At
<1>4. conflicts \in SUBSET (Tx \X AnyBlock)
  <2>1. \A u \in found : u \in DOMAIN nonLocked /\ nonLocked[u].tx  BY SMTT(30) DEF BlockConflicts
  <2> HIDE DEF found
  <2>2. \A u \in found : u \in Tx /\ nonLocked[u].mined \in AnyBlock  BY <1>1, <2>1, Zenon DEF TrackOK, Entry
  <2> QED  BY <2>2
<1>5. pc = "prune" \/ pc = "invalidate"  BY Zenon
<1> HIDE DEF conflicts, pc
<1>6. h \in Handler /\ h.lock = proc[th].lock  BY <1>1, <1>4, <1>5, Zenon DEF Handler, Section
<1> HIDE DEF h
<1>7. g \in Handler /\ (g.pc # "idle" => g.lock \in Lockable)  BY <1>3, <1>6, HandlerFacts, Zenon
<1> HIDE DEF g
<1>8. /\ ChainOK(mempool', tip', txIndex', main') /\ DbOK(db') /\ RecOK(rec')
      /\ TrackOK(nonLocked', byInputs') /\ retry' \subseteq Tx /\ CreatingOK(creating', toCreating')
  BY <1>0, HandlerFacts, Zenon
<1> QED  BY <1>0, <1>2, <1>7, <1>8, HandlerStep, Zenon

\* A lock that lost to a ChainLock goes again.
LEMMA PruneStep ==
  ASSUME IInv, NEW th \in Thread, RemoveChainLockConflictingLock(th)
  PROVE  IInv'
<1>0. /\ db' = RemoveChainedInstantSendLocks(db, {proc[th].lock})
      /\ proc' = [proc EXCEPT ![th] = NoProc]
      /\ UNCHANGED <<mempool, tip, txIndex, main, rec, nonLocked, byInputs, retry, creating,
                     toCreating, pending, work>>
  BY Zenon DEF RemoveChainLockConflictingLock, Done, chain, signing, tracker, making
<1>1. DbOK(db')  BY <1>0, HandlerFacts, Removed, Zenon DEF RemoveChainedInstantSendLocks
<1>2. /\ ChainOK(mempool', tip', txIndex', main') /\ RecOK(rec')
      /\ TrackOK(nonLocked', byInputs') /\ retry' \subseteq Tx /\ CreatingOK(creating', toCreating')
  BY <1>0, HandlerFacts, SMTT(30)
<1> QED  BY <1>0, <1>1, <1>2, HandlerFacts, HandlerStep, Zenon

\* Conflicts in one block are forgotten and the block is invalidated.
LEMMA InvalidateStep ==
  ASSUME IInv, NEW th \in Thread, InvalidateConflict(th)
  PROVE  IInv'
<1>0. /\ At(th, "invalidate")
      /\ UNCHANGED <<mempool, tip, txIndex, main, db, rec, creating, toCreating, pending, work>>
  BY Zenon DEF InvalidateConflict, signing, making
<1>1. PICK left \in SUBSET proc[th].conflicts :
        /\ \E S : SetTracker(RemoveConflictedTxs(Tracker, S))
        /\ proc' = [proc EXCEPT ![th] = IF left = {} THEN NoProc ELSE [@ EXCEPT !.conflicts = left]]
  <2>1. PICK c \in proc[th].conflicts :
          LET here == {e \in proc[th].conflicts : e[2] = c[2]}
              left == proc[th].conflicts \ here
          IN  /\ SetTracker(RemoveConflictedTxs(Tracker, {e[1] : e \in here}))
              /\ proc' = [proc EXCEPT ![th] = IF left = {} THEN NoProc ELSE [@ EXCEPT !.conflicts = left]]
    BY Zenon DEF InvalidateConflict
  <2> DEFINE here == {e \in proc[th].conflicts : e[2] = c[2]}
             left == proc[th].conflicts \ here
             S == {e[1] : e \in here}
  <2>2. left \in SUBSET proc[th].conflicts  BY Zenon
  <2>3. /\ SetTracker(RemoveConflictedTxs(Tracker, S))
        /\ proc' = [proc EXCEPT ![th] = IF left = {} THEN NoProc ELSE [@ EXCEPT !.conflicts = left]]
    BY <2>1, Zenon
  <2> HIDE DEF left, S
  <2> QED  BY <2>2, <2>3, Zenon
<1> DEFINE h == [proc[th] EXCEPT !.conflicts = left]
           g == IF left = {} THEN NoProc ELSE h
<1>2. proc[th] \in Handler /\ proc \in [Thread -> Handler] /\ proc[th].lock \in Lockable
  BY <1>0, HandlerFacts, Zenon DEF At
<1>3. proc' = [proc EXCEPT ![th] = g]  BY <1>1, <1>2, Zenon
<1>4. h \in Handler /\ h.lock = proc[th].lock  BY <1>2, SMTT(30) DEF Handler
<1> HIDE DEF h
<1>5. g \in Handler /\ (g.pc # "idle" => g.lock \in Lockable)  BY <1>2, <1>4, HandlerFacts, Zenon
<1> HIDE DEF g
<1>6. TrackOK(nonLocked', byInputs') /\ retry' \subseteq Tx  BY <1>1, ConflictedStep, SMTT(30)
<1>7. /\ ChainOK(mempool', tip', txIndex', main') /\ DbOK(db') /\ RecOK(rec')
      /\ CreatingOK(creating', toCreating')
  BY <1>0, HandlerFacts, Zenon
<1> QED  BY <1>0, <1>3, <1>5, <1>6, <1>7, HandlerStep, Zenon

-----------------------------------------------------------------------------
(* The theorems.                                                           *)

\* No lock is on its way when the node starts.
LEMMA NoLocks == LocksOK({}, {}, [locks |-> {}, txs |-> {}], [th \in Thread |-> NoProc])
<1> DEFINE w == [locks |-> {}, txs |-> {}]
           h == [th \in Thread |-> NoProc]
<1>1. NoProc \in Handler /\ NoProc.pc = "idle"  BY SMTT(30) DEF NoProc, Handler, Section, AnyBlock
<1>2. w \in [locks : SUBSET Lockable, txs : SUBSET Tx]  BY Zenon
<1>3. h \in [Thread -> Handler] /\ \A th \in Thread : h[th].pc = "idle"  BY <1>1, Zenon
<1> HIDE DEF w, h
<1>4. LocksOK({}, {}, w, h)  BY <1>2, <1>3, Zenon DEF LocksOK
<1> QED  BY <1>4, Zenon DEF w, h

\* A node starts with empty maps and an empty database.
LEMMA InitIInv == Init => IInv
<1> SUFFICES ASSUME Init PROVE IInv
  BY Zenon
<1>1. ChainOK(mempool, tip, txIndex, main)
  <2>1. mempool = {} /\ tip = Genesis /\ main = Idle
        /\ txIndex = [x \in Tx \cup Coin |-> IF x \in Coin THEN Genesis ELSE NoBlock]
    BY Zenon DEF Init
  <2>2. Genesis \in Block  BY TreeAssumption, Zenon
  <2>3. txIndex \in [Tx \cup Coin -> AnyBlock]  BY <2>1, <2>2, SMTT(30) DEF AnyBlock
  <2>4. Idle \in Job /\ Idle.job = "idle"
    <3>1. <<>> \in Seq(Calls) /\ NoBlock \in AnyBlock  BY DEF AnyBlock
    <3> QED  BY <3>1, SMTT(30) DEF Idle, Job, JobName
  <2>5. MainOK(main, tip)  BY <2>1, <2>4, SMTT(30) DEF MainOK
  <2> QED  BY <2>1, <2>2, <2>3, <2>5, SMTT(30) DEF ChainOK
<1>2. LocksOK(pending, retry, work, proc)  BY NoLocks, Zenon DEF Init, Thread
<1>3. RecOK(rec)
  <2>1. \A o \in Outpoint : InputId(o) \in Id  BY SMTT(30) DEF Id
  <2> QED  BY <2>1, Zenon DEF Init, RecOK
<1>4. DbOK(db)
  <2>1. db = [i |-> {}, tx |-> {}, in |-> [o \in Outpoint |-> NoTx], m |-> {}]  BY Zenon DEF Init
  <2>2. db.i = {} /\ db.tx = {} /\ db.in = [o \in Outpoint |-> NoTx] /\ db.m = {}  BY <2>1, SMTT(30)
  <2>3. \A o \in Outpoint, t \in Tx : db.in[o] # t
    <3>1. NoTx \notin Tx  BY InputFacts, Zenon
    <3>2. \A o \in Outpoint : db.in[o] = NoTx  BY <2>2, Zenon
    <3> QED  BY <3>1, <3>2, Zenon
  <2> QED  BY <2>1, <2>2, <2>3, SMTT(30) DEF DbOK
<1>5. TrackOK(nonLocked, byInputs) /\ CreatingOK(creating, toCreating)
  <2>1. DOMAIN EmptyMap = {}  BY Zenon DEF EmptyMap
  <2> QED  BY <2>1, Zenon DEF Init, TrackOK, CreatingOK
<1> QED  BY <1>1, <1>2, <1>3, <1>4, <1>5, Zenon DEF IInv

\* A restart keeps the chain and the database and forgets the rest.
LEMMA RestartStep ==
  ASSUME IInv, Restart
  PROVE  IInv'
<1>1. /\ mempool' = {} /\ pending' = {} /\ work' = [locks |-> {}, txs |-> {}]
      /\ proc' = [th \in Thread |-> NoProc]
      /\ nonLocked' = EmptyMap /\ byInputs' = {} /\ retry' = {}
      /\ creating' = EmptyMap /\ toCreating' = {}
      /\ UNCHANGED <<tip, txIndex, main, rec, db>>
  BY Zenon DEF Restart, SetTracker, Thread, signing
<1>2. ChainOK(mempool', tip', txIndex', main')  BY <1>1, SMTT(30) DEF IInv, ChainOK
<1>3. LocksOK(pending', retry', work', proc')  BY <1>1, NoLocks, Zenon
<1>4. TrackOK(nonLocked', byInputs') /\ CreatingOK(creating', toCreating')
  <2>1. DOMAIN EmptyMap = {}  BY Zenon DEF EmptyMap
  <2> QED  BY <1>1, <2>1, Zenon DEF TrackOK, CreatingOK
<1>5. RecOK(rec') /\ DbOK(db')  BY <1>1, Zenon DEF IInv
<1> QED  BY <1>2, <1>3, <1>4, <1>5, SMTT(30) DEF IInv

\* Every step of the node and its threads keeps the invariant.
LEMMA NextIInv == IInv /\ [Next]_vars => IInv'
<1> SUFFICES ASSUME IInv, [Next]_vars PROVE IInv'
  BY Zenon
<1>1. ASSUME UNCHANGED <<mempool, tip, txIndex, main, db, rec, nonLocked, byInputs, retry, creating,
                         toCreating, pending, work, proc>>
      PROVE  IInv'
  BY <1>1, SMTT(30) DEF IInv
<1>2. CASE UNCHANGED vars
  BY <1>1, <1>2, Zenon DEF vars, chain, signing, tracker, making, threads
<1>3. CASE Validation
  <2>1. ASSUME NEW b \in Block \ {Genesis}, ReceiveBlock(b) PROVE IInv'
    BY <1>1, <2>1, Zenon DEF ReceiveBlock, signing, tracker, making, threads
  <2> QED
    BY <1>3, <2>1, AcceptStep, ActivateStep, DisconnectStep, DisconnectDoneStep, ConnectBlockStep,
       ConnectTipStep, SyncTransactionStep, SyncProcessStep, SyncTrackStep, ConfirmationStep, Zenon
       DEF Validation
<1>4. CASE ChainLockSteps
  <2>1. ASSUME NEW b \in Block, NewChainLock(b) PROVE IInv'
    BY <1>1, <2>1, Zenon DEF NewChainLock, chain, signing, tracker, making, threads
  <2>2. CASE EnforceBestChainLock
    BY <1>1, <2>2, Zenon DEF EnforceBestChainLock, signing, tracker, making, threads
  <2> QED  BY <1>4, <2>1, <2>2, ConfirmationStep, SMTT(30) DEF ChainLockSteps
<1>5. ASSUME NEW th \in Thread, LockHandler(th) PROVE IInv'
  BY <1>5, LookupStep, StoreStep, MempoolStep, ResolveStep, PruneStep, InvalidateStep, SMTT(30) DEF LockHandler
<1>6. CASE FinishSync
  BY <1>1, <1>6, Zenon DEF FinishSync, chain, signing, tracker, making, threads
<1> QED
  BY <1>2, <1>3, <1>4, <1>5, <1>6, RecoverInputStep, RecoverLockStep, WorkerStep, RestartStep, SMTT(30)
     DEF Next, Thread

\* The inductive invariant holds.
LEMMA Inductive == Spec => []IInv
BY InitIInv, NextIInv, PTL DEF Spec

\* The tables of CInstantSendDb always agree, whatever the order in which messages,
\* recovered signatures, confirmations, prunings and restarts reach the database.
THEOREM TablesAgree == Spec => []DbAgrees
<1>1. IInv => DbAgrees  BY ZenonT(60) DEF IInv, DbOK, DbAgrees
<1> QED  BY <1>1, Inductive, PTL

\* nonLockedTxs and nonLockedTxsByInputs stay closed under every interleaving of
\* SyncTransaction, the lock handlers, the worker and the conflict removals.
THEOREM TrackerIsClosed == Spec => []TrackerConsistent
<1>1. IInv => TrackerConsistent  BY ZenonT(60) DEF IInv, TrackOK, TrackerConsistent
<1> QED  BY <1>1, Inductive, PTL

\* creatingInstantSendLocks and txToCreatingInstantSendLocks always hold the same
\* locks, so that ProcessPendingRetryLockTxs skips exactly those being created.
THEOREM CreatingMapsAgree == Spec => []CreatingAgrees
<1>1. IInv => CreatingAgrees  BY Zenon DEF IInv, CreatingOK, CreatingAgrees
<1> QED  BY <1>1, Inductive, PTL

=============================================================================
