------------------------- MODULE AccountLedgerProofs -------------------------
(***************************************************************************)
(* Facts about the operators of AccountLedger: the sum of a history exists *)
(* and is an integer, and each write of the repository keeps a document a  *)
(* document whose balance is that sum.                                     *)
(***************************************************************************)
EXTENDS AccountLedger, SequenceTheorems, WellFoundedInduction, TLAPS

(* A nonempty set of natural numbers has a least element. *)
LEMMA LeastNatural ==
  ASSUME NEW T \in SUBSET Nat, T # {}
  PROVE  \E m \in T : \A k \in T : m <= k
<1> DEFINE Less == {ss \in Nat \X Nat : ss[1] < ss[2]}
<1>1. IsWellFoundedOn(Less, Nat)
  BY NatLessThanWellFounded DEF OpToRel
<1>2. PICK m \in T : \A k \in T : ~ (<<k, m>> \in Less)
  <2> HIDE DEF Less
  <2> QED  BY <1>1, WFMin
<1>3. ASSUME NEW k \in T
      PROVE  m <= k
  <2>1. k \in Nat /\ m \in Nat
    OBVIOUS
  <2>2. ~ (k < m)
    BY <1>2, <2>1
  <2> QED  BY <2>1, <2>2
<1> QED
  BY <1>3

(* The running totals of a history up to position k. *)
IsRunning(txs, k, f) ==
  /\ f \in [0..k -> Int]
  /\ \A n \in 0..k : f[n] = IF n = 0 THEN 0 ELSE f[n-1] + txs[n].delta

LEMMA RunningExists ==
  ASSUME NEW txs \in Seq(Tx)
  PROVE  \A k \in 0..Len(txs) : \E f : IsRunning(txs, k, f)
<1> DEFINE T == {k \in 0..Len(txs) : ~ \E f : IsRunning(txs, k, f)}
<1>1. SUFFICES ASSUME T # {} PROVE FALSE
  OBVIOUS
<1>2. PICK m \in T : \A k \in T : m <= k
  <2>1. T \in SUBSET Nat
    BY LenProperties
  <2> HIDE DEF T
  <2> QED  BY <1>1, <2>1, LeastNatural
<1>3. m # 0
  <2>1. IsRunning(txs, 0, [n \in 0..0 |-> 0])
    BY DEF IsRunning
  <2> QED  BY <2>1
<1>4. m \in Nat /\ m - 1 \in 0..Len(txs) /\ m - 1 \notin T /\ m \in 1..Len(txs)
  BY <1>2, <1>3, LenProperties
<1>5. PICK f : IsRunning(txs, m-1, f)
  BY <1>4
<1>6. txs[m].delta \in Int
  <2>1. txs[m] \in Tx
    BY <1>4, ElementOfSeq
  <2> QED  BY <2>1 DEF Tx
<1> DEFINE g == [n \in 0..m |-> IF n = m THEN f[m-1] + txs[m].delta ELSE f[n]]
<1>7. IsRunning(txs, m, g)
  <2>1. f[m-1] \in Int
    BY <1>4, <1>5 DEF IsRunning
  <2>2. g \in [0..m -> Int]
    BY <1>4, <1>5, <1>6, <2>1 DEF IsRunning
  <2>3. ASSUME NEW n \in 0..m
        PROVE  g[n] = IF n = 0 THEN 0 ELSE g[n-1] + txs[n].delta
    <3>1. CASE n = m
      BY <3>1, <1>3, <1>4
    <3>2. CASE n # m
      BY <3>2, <1>4, <1>5 DEF IsRunning
    <3> QED  BY <3>1, <3>2
  <2> QED  BY <2>2, <2>3 DEF IsRunning
<1> QED
  BY <1>2, <1>7

-----------------------------------------------------------------------------
(* The recursive function inside SumDeltas satisfies its equation. *)
LEMMA SumRecursion ==
  ASSUME NEW txs \in Seq(Tx)
  PROVE  \E f : IsRunning(txs, Len(txs), f) /\ SumDeltas(txs) = f[Len(txs)]
<1> DEFINE sum == CHOOSE f : f = [n \in 0..Len(txs) |->
                    IF n = 0 THEN 0 ELSE f[n-1] + txs[n].delta]
<1>1. SumDeltas(txs) = sum[Len(txs)]
  BY DEF SumDeltas
<1>2. Len(txs) \in 0..Len(txs)
  BY LenProperties
<1>3. PICK f : IsRunning(txs, Len(txs), f)
  BY <1>2, RunningExists
<1>4. f = [n \in 0..Len(txs) |-> IF n = 0 THEN 0 ELSE f[n-1] + txs[n].delta]
  BY <1>3 DEF IsRunning
<1>5. sum = [n \in 0..Len(txs) |-> IF n = 0 THEN 0 ELSE sum[n-1] + txs[n].delta]
  <2> QED  BY <1>4
<1> HIDE DEF sum
<1>6. ASSUME NEW n \in 0..Len(txs)
      PROVE  sum[n] = f[n]
  <2> DEFINE T == {k \in 0..Len(txs) : sum[k] # f[k]}
  <2>1. SUFFICES ASSUME T # {} PROVE FALSE
    OBVIOUS
  <2>2. PICK m \in T : \A k \in T : m <= k
    <3>1. T \in SUBSET Nat
      BY LenProperties
    <3> HIDE DEF T
    <3> QED  BY <2>1, <3>1, LeastNatural
  <2>3. m # 0
    BY <1>3, <1>5 DEF IsRunning
  <2>4. m \in 0..Len(txs) /\ m - 1 \in 0..Len(txs) /\ m - 1 \notin T
    BY <2>2, <2>3, LenProperties
  <2>5. sum[m] = sum[m-1] + txs[m].delta /\ f[m] = f[m-1] + txs[m].delta
    BY <1>3, <1>5, <2>3, <2>4 DEF IsRunning
  <2> QED
    BY <2>4, <2>5
<1> QED
  BY <1>1, <1>2, <1>3, <1>6

(* Running totals are determined by the deltas they sum. *)
LEMMA RunningUnique ==
  ASSUME NEW s, NEW t, NEW k \in Nat, NEW f, NEW g,
         IsRunning(s, k, f), IsRunning(t, k, g),
         \A n \in 1..k : s[n].delta = t[n].delta
  PROVE  f[k] = g[k]
<1> DEFINE T == {n \in 0..k : f[n] # g[n]}
<1>1. SUFFICES ASSUME T # {} PROVE FALSE
  OBVIOUS
<1>2. PICK m \in T : \A n \in T : m <= n
  <2>1. T \in SUBSET Nat
    OBVIOUS
  <2> HIDE DEF T
  <2> QED  BY <1>1, <2>1, LeastNatural
<1>3. m # 0
  BY DEF IsRunning
<1>4. m \in 1..k /\ m - 1 \in 0..k /\ m - 1 \notin T
  BY <1>2, <1>3
<1>5. f[m] = f[m-1] + s[m].delta /\ g[m] = g[m-1] + t[m].delta
  BY <1>3, <1>4 DEF IsRunning
<1> QED
  BY <1>4, <1>5

(* SumDeltas is the last running total, of any function that runs. *)
LEMMA SumIs ==
  ASSUME NEW txs \in Seq(Tx), NEW f, IsRunning(txs, Len(txs), f)
  PROVE  SumDeltas(txs) = f[Len(txs)] /\ SumDeltas(txs) \in Int
<1>1. PICK g : IsRunning(txs, Len(txs), g) /\ SumDeltas(txs) = g[Len(txs)]
  BY SumRecursion
<1>2. Len(txs) \in Nat
  BY LenProperties
<1>3. f[Len(txs)] = g[Len(txs)]
  BY <1>1, <1>2, RunningUnique
<1> QED
  BY <1>1, <1>2, <1>3 DEF IsRunning

(* A sum of deltas is an integer. *)
THEOREM SumType ==
  ASSUME NEW txs \in Seq(Tx)
  PROVE  SumDeltas(txs) \in Int
BY SumRecursion, SumIs

THEOREM SumEmpty == SumDeltas(<< >>) = 0
<1>1. << >> \in Seq(Tx) /\ Len(<< >>) = 0
  BY EmptySeq
<1>2. PICK f : IsRunning(<< >>, 0, f) /\ SumDeltas(<< >>) = f[0]
  BY <1>1, SumRecursion
<1> QED
  BY <1>2 DEF IsRunning

(* $push with $inc: appending adds the delta to the sum. *)
THEOREM SumAppend ==
  ASSUME NEW txs \in Seq(Tx), NEW tx \in Tx
  PROVE  SumDeltas(Append(txs, tx)) = SumDeltas(txs) + tx.delta
<1> DEFINE L == Len(txs)
           new == Append(txs, tx)
<1>1. /\ L \in Nat /\ new \in Seq(Tx) /\ Len(new) = L + 1
      /\ \A i \in 1..L : new[i] = txs[i]
      /\ new[L+1] = tx
  BY LenProperties, AppendProperties
<1>2. PICK f : IsRunning(new, L + 1, f) /\ SumDeltas(new) = f[L+1]
  BY <1>1, SumRecursion
<1> DEFINE g == [n \in 0..L |-> f[n]]
<1>3. IsRunning(txs, L, g)
  BY <1>1, <1>2 DEF IsRunning
<1>4. SumDeltas(txs) = f[L]
  BY <1>1, <1>3, SumIs
<1>5. f[L+1] = f[L] + tx.delta
  BY <1>1, <1>2 DEF IsRunning
<1> QED
  BY <1>2, <1>4, <1>5

(* undoLast: dropping the last transaction takes its delta off the sum. *)
THEOREM SumFront ==
  ASSUME NEW txs \in Seq(Tx), txs # << >>
  PROVE  /\ Front(txs) \in Seq(Tx) /\ Last(txs) \in Tx
         /\ SumDeltas(Front(txs)) = SumDeltas(txs) - Last(txs).delta
<1>1. PICK s \in Seq(Tx), e \in Tx : txs = Append(s, e)
  BY SequenceEmptyOrAppend
<1>2. /\ Len(s) \in Nat /\ Len(txs) = Len(s) + 1 /\ txs[Len(s)+1] = e
      /\ \A i \in 1..Len(s) : txs[i] = s[i]
      /\ s \in [1..Len(s) -> Tx]
  BY <1>1, AppendProperties, LenProperties
<1>3. Last(txs) = e
  BY <1>2 DEF Last
<1>4. Front(txs) = s
  <2>1. /\ SubSeq(txs, 1, Len(s)) \in Seq(Tx)
        /\ Len(SubSeq(txs, 1, Len(s))) = Len(s)
        /\ \A i \in 1..Len(s) : SubSeq(txs, 1, Len(s))[i] = s[i]
    <3>1. \A i \in 1..Len(s) : txs[i] \in Tx
      BY <1>2
    <3> QED  BY <1>2, <3>1, SubSeqProperties
  <2>2. SubSeq(txs, 1, Len(s)) = s
    BY <2>1, SeqEqual
  <2> QED  BY <1>2, <2>2 DEF Front
<1>5. SumDeltas(txs) = SumDeltas(s) + e.delta /\ SumDeltas(s) \in Int
  BY <1>1, SumAppend, SumType
<1>6. e.delta \in Int
  BY DEF Tx
<1> QED
  BY <1>3, <1>4, <1>5, <1>6

(* Transactions that keep their deltas keep their sum. *)
THEOREM SumSameDeltas ==
  ASSUME NEW s \in Seq(Tx), NEW t \in Seq(Tx), Len(s) = Len(t),
         \A i \in 1..Len(s) : s[i].delta = t[i].delta
  PROVE  SumDeltas(s) = SumDeltas(t)
<1>1. Len(s) \in Nat
  BY LenProperties
<1>2. PICK f : IsRunning(s, Len(s), f) /\ SumDeltas(s) = f[Len(s)]
  BY SumRecursion
<1>3. PICK g : IsRunning(t, Len(s), g) /\ SumDeltas(t) = g[Len(s)]
  BY SumRecursion
<1>4. IsRunning(s, Len(s), f) /\ IsRunning(t, Len(s), g)
  BY <1>2, <1>3
<1> DEFINE k == Len(s)
<1>5. \A i \in 1..k : s[i].delta = t[i].delta
  OBVIOUS
<1>6. f[k] = g[k]
  <2> HIDE DEF k
  <2>1. k \in Nat /\ IsRunning(s, k, f) /\ IsRunning(t, k, g)
    BY <1>1, <1>4 DEF k
  <2> QED  BY <2>1, <1>5, RunningUnique
<1> QED
  BY <1>2, <1>3, <1>6

-----------------------------------------------------------------------------
(* A sequence mapped element by element is a sequence of the same length. *)
LEMMA MappedSeq ==
  ASSUME NEW S, NEW T, NEW s \in Seq(S), NEW t,
         DOMAIN t = DOMAIN s, t = [i \in DOMAIN s |-> t[i]],
         \A i \in DOMAIN s : t[i] \in T
  PROVE  t \in Seq(T) /\ Len(t) = Len(s) /\ DOMAIN s = 1..Len(s)
<1>1. Len(s) \in Nat /\ DOMAIN s = 1..Len(s)
  BY LenProperties
<1>2. t \in [1..Len(s) -> T]
  BY <1>1
<1>3. t \in Seq(T)
  BY <1>1, <1>2
<1>4. Len(t) = Len(s)
  BY <1>1, <1>3, LenProperties
<1> QED
  BY <1>1, <1>3, <1>4

(***************************************************************************)
(* Each write keeps a document a document with a matching balance.         *)
(***************************************************************************)
Sound(acc) == acc \in Account /\ BalanceMatches(acc)

WithHistory(acc, t, b, stamp) ==
  [acc EXCEPT !.txs = t, !.balance = b, !.stamp = stamp]

LEMMA SetHistory ==
  ASSUME NEW acc \in Account, NEW t \in Seq(Tx), NEW b \in Int, NEW stamp \in Nat
  PROVE  /\ WithHistory(acc, t, b, stamp) \in Account
         /\ WithHistory(acc, t, b, stamp).txs = t
         /\ WithHistory(acc, t, b, stamp).balance = b
<1> DEFINE H == Seq(Tx)
<1>1. t \in H
  OBVIOUS
<1>2. acc \in [exists: BOOLEAN, currency: Currencies, balance: Int, txs: H,
              income: Nat, expense: Nat, selfAdjust: BOOLEAN, stamp: Nat]
  BY DEF Account
<1>3. Account = [exists: BOOLEAN, currency: Currencies, balance: Int, txs: H,
              income: Nat, expense: Nat, selfAdjust: BOOLEAN, stamp: Nat]
  BY DEF Account
<1> HIDE DEF H
<1> QED
  BY <1>1, <1>2, <1>3 DEF WithHistory

THEOREM AppendSound ==
  ASSUME NEW acc, Sound(acc), NEW tx \in Tx, NEW stamp \in Nat
  PROVE  Sound(AppendTransaction(acc, tx, stamp))
<1>1. acc.txs \in Seq(Tx) /\ acc.balance \in Int /\ tx.delta \in Int
  BY DEF Sound, Account, Tx
<1>2. Append(acc.txs, tx) \in Seq(Tx)
  BY <1>1, AppendProperties
<1> DEFINE t == Append(acc.txs, tx)
           b == acc.balance + tx.delta
<1>3. /\ AppendTransaction(acc, tx, stamp) \in Account
      /\ AppendTransaction(acc, tx, stamp).txs = t
      /\ AppendTransaction(acc, tx, stamp).balance = b
  <2>1. AppendTransaction(acc, tx, stamp) = WithHistory(acc, t, b, stamp)
    BY DEF AppendTransaction, WithHistory
  <2>2. t \in Seq(Tx) /\ b \in Int /\ acc \in Account
    BY <1>1, <1>2 DEF Sound
  <2> HIDE DEF t, b
  <2> QED  BY <2>1, <2>2, SetHistory
<1>4. acc.balance + tx.delta = SumDeltas(Append(acc.txs, tx))
  BY <1>1, SumAppend DEF Sound, BalanceMatches
<1> QED
  BY <1>3, <1>4 DEF Sound, BalanceMatches

THEOREM UndoSound ==
  ASSUME NEW acc, Sound(acc), NEW read, Sound(read), read.txs # << >>,
         NEW stamp \in Nat
  PROVE  Sound(UndoLast(acc, read, stamp))
<1>1. /\ read.txs \in Seq(Tx) /\ read.balance \in Int
      /\ read.balance = SumDeltas(read.txs)
  BY DEF Sound, Account, BalanceMatches
<1>2. /\ Front(read.txs) \in Seq(Tx) /\ Last(read.txs) \in Tx
      /\ SumDeltas(Front(read.txs)) = SumDeltas(read.txs) - Last(read.txs).delta
  BY <1>1, SumFront
<1>3. Last(read.txs).delta \in Int
  BY <1>2 DEF Tx
<1> DEFINE t == Front(read.txs)
           b == read.balance - Last(read.txs).delta
<1>4. /\ UndoLast(acc, read, stamp) \in Account
      /\ UndoLast(acc, read, stamp).txs = t
      /\ UndoLast(acc, read, stamp).balance = b
  <2>1. UndoLast(acc, read, stamp) = WithHistory(acc, t, b, stamp)
    BY DEF UndoLast, WithHistory
  <2>2. t \in Seq(Tx) /\ b \in Int /\ acc \in Account
    BY <1>1, <1>2, <1>3 DEF Sound
  <2> HIDE DEF t, b
  <2> QED  BY <2>1, <2>2, SetHistory
<1> QED
  BY <1>1, <1>2, <1>4 DEF Sound, BalanceMatches

THEOREM ClearNonceSound ==
  ASSUME NEW acc, Sound(acc), NEW id, NEW stamp \in Nat
  PROVE  Sound(ClearTransactionNonce(acc, id, stamp))
<1> DEFINE new == [i \in DOMAIN acc.txs |->
                     IF acc.txs[i].id = id
                     THEN [acc.txs[i] EXCEPT !.nonce = NoNonce] ELSE acc.txs[i]]
<1>1. acc.txs \in Seq(Tx) /\ DOMAIN acc.txs = 1..Len(acc.txs)
  BY LenProperties DEF Sound, Account
<1>2. ASSUME NEW i \in DOMAIN acc.txs
      PROVE  new[i] \in Tx /\ new[i].delta = acc.txs[i].delta
  <2>1. acc.txs[i] \in Tx
    BY <1>1, ElementOfSeq
  <2> QED  BY <2>1 DEF Tx
<1>3. new \in Seq(Tx) /\ Len(new) = Len(acc.txs)
  <2>1. DOMAIN new = DOMAIN acc.txs /\ new = [i \in DOMAIN acc.txs |-> new[i]]
    OBVIOUS
  <2> DEFINE old == acc.txs
  <2>2. old \in Seq(Tx) /\ DOMAIN new = DOMAIN old
        /\ new = [i \in DOMAIN old |-> new[i]] /\ \A i \in DOMAIN old : new[i] \in Tx
    BY <1>1, <1>2, <2>1
  <2> HIDE DEF new, old
  <2>3. new \in Seq(Tx) /\ Len(new) = Len(old)
    BY <2>2, MappedSeq
  <2> QED  BY <2>3 DEF old
<1>4. SumDeltas(acc.txs) = SumDeltas(new)
  BY <1>1, <1>2, <1>3, SumSameDeltas
<1>5. ClearTransactionNonce(acc, id, stamp) =
        [acc EXCEPT !.txs = new, !.stamp = stamp]
  BY DEF ClearTransactionNonce, Sound, Account
<1> HIDE DEF new
<1> QED
  BY <1>3, <1>4, <1>5 DEF Sound, Account, BalanceMatches

(* Rounding gives integers, of amounts not negative naturals. *)
LEMMA RecomputeType ==
  ASSUME NEW x \in Int, NEW from \in Currencies, NEW to \in Currencies,
         Rate[to] > 0
  PROVE  Recompute(x, from, to) \in Int /\ (x >= 0 => Recompute(x, from, to) \in Nat)
<1>1. Rate[from] \in Nat /\ Rate[to] \in Nat \ {0}
  BY LedgerAssumption
<1>2. x * Rate[from] \in Int /\ (x >= 0 => x * Rate[from] >= 0)
  BY <1>1
<1> DEFINE n == x * Rate[from]
           d == Rate[to]
<1>3. RoundDiv(n, d) \in Int /\ (n >= 0 => RoundDiv(n, d) \in Nat)
  <2> HIDE DEF n, d
  <2>1. n \in Int /\ d \in Nat \ {0}
    BY <1>1, <1>2 DEF n, d
  <2> QED  BY <2>1 DEF RoundDiv
<1> QED
  BY <1>2, <1>3 DEF Recompute

THEOREM ReplaceSound ==
  ASSUME NEW acc, Sound(acc), NEW read, Sound(read), NEW to \in Currencies,
         Rate[to] > 0, NEW stamp \in Nat
  PROVE  Sound(ReplaceMoneyFields(acc, Recomputed(read, to), stamp))
<1> DEFINE new == RecomputeTxs(read.txs, read.currency, to)
           fields == Recomputed(read, to)
<1>1. /\ read.txs \in Seq(Tx) /\ DOMAIN read.txs = 1..Len(read.txs)
      /\ read.currency \in Currencies /\ read.balance \in Int
      /\ read.income \in Nat /\ read.expense \in Nat
  BY LenProperties DEF Sound, Account
<1>2. ASSUME NEW i \in DOMAIN read.txs
      PROVE  new[i] \in Tx
  <2>1. read.txs[i] \in Tx
    BY <1>1, ElementOfSeq
  <2>2. Recompute(read.txs[i].delta, read.currency, to) \in Int
    BY <1>1, <2>1, RecomputeType DEF Tx
  <2> QED  BY <2>1, <2>2 DEF RecomputeTxs, Tx
<1>3. new \in Seq(Tx) /\ Len(new) = Len(read.txs)
  <2>1. DOMAIN new = DOMAIN read.txs /\ new = [i \in DOMAIN read.txs |-> new[i]]
    BY DEF RecomputeTxs
  <2> DEFINE old == read.txs
  <2>2. old \in Seq(Tx) /\ DOMAIN new = DOMAIN old
        /\ new = [i \in DOMAIN old |-> new[i]] /\ \A i \in DOMAIN old : new[i] \in Tx
    BY <1>1, <1>2, <2>1
  <2> HIDE DEF new, old
  <2>3. new \in Seq(Tx) /\ Len(new) = Len(old)
    BY <2>2, MappedSeq
  <2> QED  BY <2>3 DEF old
<1>4. /\ fields.txs = new /\ fields.currency = to
      /\ fields.income \in Nat /\ fields.expense \in Nat
  <2>1. /\ Recompute(read.income, read.currency, to) \in Nat
        /\ Recompute(read.expense, read.currency, to) \in Nat
    BY <1>1, RecomputeType, \A x \in Nat : x \in Int /\ x >= 0
  <2> QED  BY <2>1 DEF Recomputed
<1>5. fields.balance = SumDeltas(new) /\ fields.balance \in Int
  <2>1. CASE new # << >>
    BY <2>1, <1>3, SumType DEF Recomputed
  <2>2. CASE new = << >>
    <3>1. read.txs = << >>
      BY <2>2, <1>1, <1>3, EmptySeq
    <3>2. read.balance = 0
      BY <3>1, SumEmpty DEF Sound, BalanceMatches
    <3>3. Rate[read.currency] \in Nat /\ Rate[to] \in Nat \ {0}
      BY <1>1, LedgerAssumption
    <3>4. Recompute(0, read.currency, to) = 0
      BY <3>3 DEF Recompute, RoundDiv
    <3> QED  BY <2>2, <3>2, <3>4, SumEmpty DEF Recomputed
  <2> QED  BY <2>1, <2>2
<1> HIDE DEF new, fields
<1>6. /\ ReplaceMoneyFields(acc, fields, stamp) \in Account
      /\ ReplaceMoneyFields(acc, fields, stamp).txs = new
      /\ ReplaceMoneyFields(acc, fields, stamp).balance = fields.balance
  BY <1>3, <1>4, <1>5 DEF ReplaceMoneyFields, Sound, Account
<1> QED
  BY <1>5, <1>6 DEF Sound, BalanceMatches, fields

=============================================================================
