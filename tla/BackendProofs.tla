---------------------------- MODULE BackendProofs ----------------------------
(* The classifier, and the backend as the runs explore it. The classifier's  *)
(* parse is a loop over the line: it is reasoned about as the history of its *)
(* turns. The backend is put together from the components that are proved    *)
(* one by one: seen by each component, a behaviour of Backend is a behaviour *)
(* of that component's own specification, so what is proved of the           *)
(* components holds of the whole.                                            *)
EXTENDS Backend, InventoryProofs, GatewayProofs, SequenceTheorems

-----------------------------------------------------------------------------
(* Loops as histories, by induction over the numbers up to n.                *)

(* Induction over the numbers up to n, for a set P of numbers.               *)
LEMMA UpTo ==
    ASSUME NEW n \in Nat, NEW P, 0 \in P, \A k \in 1..n : k - 1 \in P => k \in P
    PROVE  \A k \in 0..n : k \in P
  <1> DEFINE Bad == {k \in 0..n : k \notin P}
  <1> SUFFICES ASSUME Bad # {} PROVE FALSE
    OBVIOUS
  <1>1. PICK k \in Bad : \A m \in Bad : k <= m
    <2>1. Bad \in SUBSET Nat
      OBVIOUS
    <2> HIDE DEF Bad
    <2> QED BY <2>1, LeastNatural
  <1>2. k \in 1..n /\ k - 1 \in 0..n
    BY <1>1
  <1>3. k - 1 \notin Bad
    <2>1. Bad \in SUBSET Nat
      OBVIOUS
    <2> HIDE DEF Bad
    <2> QED BY <1>1, <1>2, <2>1
  <1> QED BY <1>1, <1>2, <1>3

(* A history of n turns: it starts in base and H[k] is what turn k does.     *)
IsHistory(st, n, V, base, H) ==
    /\ st \in [0..n -> V]
    /\ st[0] = base
    /\ \A k \in 1..n : st[k] = H[k][st[k - 1]]

(* There is one, whatever the turns do.                                      *)
LEMMA HistoryExists ==
    ASSUME NEW n \in Nat, NEW V, NEW base \in V, NEW H \in [1..n -> [V -> V]]
    PROVE  \E st : IsHistory(st, n, V, base, H)
  <1> DEFINE P == {m \in 0..n : \E st : IsHistory(st, m, V, base, H)}
  <1>1. 0 \in P
    <2>1. IsHistory([k \in 0..0 |-> base], 0, V, base, H)
      BY DEF IsHistory
    <2> QED BY <2>1
  <1>2. ASSUME NEW m \in 1..n, m - 1 \in P
        PROVE  m \in P
    <2>1. PICK st : IsHistory(st, m - 1, V, base, H)
      BY <1>2
    <2> DEFINE next == [k \in 0..m |-> IF k = m THEN H[m][st[m - 1]] ELSE st[k]]
    <2>2. H[m][st[m - 1]] \in V
      BY <2>1 DEF IsHistory
    <2>3. next \in [0..m -> V]
      BY <2>1, <2>2 DEF IsHistory
    <2>4. next[0] = base /\ \A k \in 1..m : next[k] = H[k][next[k - 1]]
      BY <2>1 DEF IsHistory
    <2>5. IsHistory(next, m, V, base, H)
      BY <2>3, <2>4 DEF IsHistory
    <2> QED BY <2>5
  <1>3. n \in P
    <2> HIDE DEF P
    <2>1. n \in 0..n
      OBVIOUS
    <2> QED BY <1>1, <1>2, <2>1, UpTo
  <1> QED BY <1>3

(* And there is no other.                                                    *)
LEMMA HistoryUnique ==
    ASSUME NEW n \in Nat, NEW V, NEW base \in V, NEW H, NEW st, IsHistory(st, n, V, base, H),
           NEW g, g[0] = base, \A k \in 1..n : g[k - 1] \in V => g[k] = H[k][g[k - 1]]
    PROVE  \A k \in 0..n : g[k] = st[k] /\ g[k] \in V
  <1> DEFINE P == {k \in 0..n : g[k] = st[k] /\ g[k] \in V}
  <1>1. 0 \in P
    BY DEF IsHistory
  <1>2. ASSUME NEW k \in 1..n, k - 1 \in P
        PROVE  k \in P
    BY <1>2 DEF IsHistory
  <1>3. \A k \in 0..n : k \in P
    <2> HIDE DEF P
    <2> QED BY <1>1, <1>2, UpTo
  <1> QED BY <1>3

(* Words, as a segment or the targets hold them.                             *)
Words == Seq(Seq(STRING))

(* What is left of a sequence of words.                                      *)
LEMMA ShorterWords ==
    ASSUME NEW ws \in Words
    PROVE  /\ \A n \in Nat : Rest(ws, n) \in Words
           /\ ws # <<>> => Tail(ws) \in Words
  <1> DEFINE W == Seq(STRING)
  <1>1. ws \in Seq(W)
    BY DEF Words
  <1> HIDE DEF W
  <1>2. \A n \in Nat : SubSeq(ws, n + 1, Len(ws)) \in Seq(W)
    BY <1>1
  <1>3. ws # <<>> => Tail(ws) \in Seq(W)
    BY <1>1
  <1> QED BY <1>2, <1>3 DEF W, Words, Rest

(* A segment, as build_segment returns it.                                   *)
Segment == [words : Seq(Seq(STRING)), elevated : BOOLEAN, readsPipe : BOOLEAN]

(* One option less.                                                          *)
LEMMA DropsAreWords ==
    ASSUME NEW ws \in Words
    PROVE  DropSudoOption(ws) \in Words /\ DropOptions(ws) \in Words /\ DropEnvArgument(ws) \in Words
  BY ShorterWords DEF DropSudoOption, DropOptions, DropEnvArgument

(* The loop that drops sudo's options is a history...                        *)
LEMMA SudoTurns ==
    ASSUME NEW x \in Words, NEW n \in Nat
    PROVE  \E st : /\ IsHistory(st, n, Words, x, [k \in 1..n |-> [y \in Words |-> DropSudoOption(y)]])
                  /\ Repeat(DropSudoOption, x, n) = st[n]
  <1> DEFINE F(f) == [k \in 0..n |-> IF k = 0 THEN x ELSE DropSudoOption(f[k - 1])]
             g == CHOOSE f : f = F(f)
             H == [k \in 1..n |-> [y \in Words |-> DropSudoOption(y)]]
  <1>1. H \in [1..n -> [Words -> Words]]
    BY DropsAreWords
  <1>2. PICK st : IsHistory(st, n, Words, x, H)
    <2> HIDE DEF H
    <2> QED BY <1>1, HistoryExists
  <1>3. st = F(st)
    <2>1. ASSUME NEW k \in 1..n
          PROVE  st[k] = DropSudoOption(st[k - 1])
      <3>1. st[k - 1] \in Words /\ st[k] = H[k][st[k - 1]]
        BY <1>2 DEF IsHistory
      <3> QED BY <3>1
    <2> HIDE DEF H
    <2> QED BY <1>2, <2>1 DEF IsHistory
  <1>4. g = F(g)
    <2> HIDE DEF F
    <2> QED BY <1>3
  <1>5. g[0] = x /\ \A k \in 1..n : g[k - 1] \in Words => g[k] = H[k][g[k - 1]]
    <2> HIDE DEF g
    <2> QED BY <1>4
  <1>6. g[n] = st[n]
    <2> HIDE DEF g, H
    <2> QED BY <1>2, <1>5, HistoryUnique
  <1>7. Repeat(DropSudoOption, x, n) = g[n]
    BY DEF Repeat
  <1> HIDE DEF g
  <1> QED BY <1>2, <1>6, <1>7

(* ... and so is the one that drops a wrapper's...                           *)
LEMMA OptionTurns ==
    ASSUME NEW x \in Words, NEW n \in Nat
    PROVE  \E st : /\ IsHistory(st, n, Words, x, [k \in 1..n |-> [y \in Words |-> DropOptions(y)]])
                  /\ Repeat(DropOptions, x, n) = st[n]
  <1> DEFINE F(f) == [k \in 0..n |-> IF k = 0 THEN x ELSE DropOptions(f[k - 1])]
             g == CHOOSE f : f = F(f)
             H == [k \in 1..n |-> [y \in Words |-> DropOptions(y)]]
  <1>1. H \in [1..n -> [Words -> Words]]
    BY DropsAreWords
  <1>2. PICK st : IsHistory(st, n, Words, x, H)
    <2> HIDE DEF H
    <2> QED BY <1>1, HistoryExists
  <1>3. st = F(st)
    <2>1. ASSUME NEW k \in 1..n
          PROVE  st[k] = DropOptions(st[k - 1])
      <3>1. st[k - 1] \in Words /\ st[k] = H[k][st[k - 1]]
        BY <1>2 DEF IsHistory
      <3> QED BY <3>1
    <2> HIDE DEF H
    <2> QED BY <1>2, <2>1 DEF IsHistory
  <1>4. g = F(g)
    <2> HIDE DEF F
    <2> QED BY <1>3
  <1>5. g[0] = x /\ \A k \in 1..n : g[k - 1] \in Words => g[k] = H[k][g[k - 1]]
    <2> HIDE DEF g
    <2> QED BY <1>4
  <1>6. g[n] = st[n]
    <2> HIDE DEF g, H
    <2> QED BY <1>2, <1>5, HistoryUnique
  <1>7. Repeat(DropOptions, x, n) = g[n]
    BY DEF Repeat
  <1> HIDE DEF g
  <1> QED BY <1>2, <1>6, <1>7

(* ... and env's.                                                            *)
LEMMA EnvTurns ==
    ASSUME NEW x \in Words, NEW n \in Nat
    PROVE  \E st : /\ IsHistory(st, n, Words, x, [k \in 1..n |-> [y \in Words |-> DropEnvArgument(y)]])
                  /\ Repeat(DropEnvArgument, x, n) = st[n]
  <1> DEFINE F(f) == [k \in 0..n |-> IF k = 0 THEN x ELSE DropEnvArgument(f[k - 1])]
             g == CHOOSE f : f = F(f)
             H == [k \in 1..n |-> [y \in Words |-> DropEnvArgument(y)]]
  <1>1. H \in [1..n -> [Words -> Words]]
    BY DropsAreWords
  <1>2. PICK st : IsHistory(st, n, Words, x, H)
    <2> HIDE DEF H
    <2> QED BY <1>1, HistoryExists
  <1>3. st = F(st)
    <2>1. ASSUME NEW k \in 1..n
          PROVE  st[k] = DropEnvArgument(st[k - 1])
      <3>1. st[k - 1] \in Words /\ st[k] = H[k][st[k - 1]]
        BY <1>2 DEF IsHistory
      <3> QED BY <3>1
    <2> HIDE DEF H
    <2> QED BY <1>2, <2>1 DEF IsHistory
  <1>4. g = F(g)
    <2> HIDE DEF F
    <2> QED BY <1>3
  <1>5. g[0] = x /\ \A k \in 1..n : g[k - 1] \in Words => g[k] = H[k][g[k - 1]]
    <2> HIDE DEF g
    <2> QED BY <1>4
  <1>6. g[n] = st[n]
    <2> HIDE DEF g, H
    <2> QED BY <1>2, <1>5, HistoryUnique
  <1>7. Repeat(DropEnvArgument, x, n) = g[n]
    BY DEF Repeat
  <1> HIDE DEF g
  <1> QED BY <1>2, <1>6, <1>7

(* A round of build_segment leaves a segment.                                *)
LEMMA UnwrapIsSegment ==
    ASSUME NEW seg \in Segment
    PROVE  Unwrap(seg) \in Segment
  <1>1. seg.words \in Words /\ seg.elevated \in BOOLEAN /\ seg.readsPipe \in BOOLEAN
    BY DEF Segment, Words
  <1>2. ASSUME NEW ws \in Words
        PROVE  [seg EXCEPT !.words = ws] \in Segment
               /\ [seg EXCEPT !.elevated = TRUE, !.words = ws] \in Segment
    BY DEF Segment, Words
  <1>3. ASSUME NEW rest \in Words
        PROVE  /\ Repeat(DropSudoOption, rest, Len(rest)) \in Words
               /\ Repeat(DropOptions, rest, Len(rest)) \in Words
               /\ Repeat(DropEnvArgument, rest, Len(rest)) \in Words
    <2>1. Len(rest) \in Nat
      BY DEF Words
    <2>2. Len(rest) \in 0..Len(rest)
      BY <2>1
    <2>3. PICK n \in Nat : n = Len(rest) /\ n \in 0..n
      BY <2>1, <2>2
    <2>4. Repeat(DropSudoOption, rest, n) \in Words
      <3>1. PICK st : /\ IsHistory(st, n, Words, rest, [k \in 1..n |-> [y \in Words |-> DropSudoOption(y)]])
                      /\ Repeat(DropSudoOption, rest, n) = st[n]
        BY SudoTurns
      <3>2. st[n] \in Words
        BY <2>3, <3>1 DEF IsHistory
      <3> QED BY <3>1, <3>2
    <2>5. Repeat(DropOptions, rest, n) \in Words
      <3>1. PICK st : /\ IsHistory(st, n, Words, rest, [k \in 1..n |-> [y \in Words |-> DropOptions(y)]])
                      /\ Repeat(DropOptions, rest, n) = st[n]
        BY OptionTurns
      <3>2. st[n] \in Words
        BY <2>3, <3>1 DEF IsHistory
      <3> QED BY <3>1, <3>2
    <2>6. Repeat(DropEnvArgument, rest, n) \in Words
      <3>1. PICK st : /\ IsHistory(st, n, Words, rest, [k \in 1..n |-> [y \in Words |-> DropEnvArgument(y)]])
                      /\ Repeat(DropEnvArgument, rest, n) = st[n]
        BY EnvTurns
      <3>2. st[n] \in Words
        BY <2>3, <3>1 DEF IsHistory
      <3> QED BY <3>1, <3>2
    <2> QED BY <2>3, <2>4, <2>5, <2>6
  <1>4. ASSUME NEW rest \in Words, NEW program
        PROVE  UnwrapAt(seg, rest, program) \in Segment
    BY <1>2, <1>3 DEF UnwrapAt
  <1>5. seg.words # <<>> => Tail(seg.words) \in Words
    BY <1>1, ShorterWords
  <1> QED BY <1>2, <1>4, <1>5 DEF Unwrap

(* build_segment's rounds are a history too.                                 *)
LEMMA UnwrapTurns ==
    ASSUME NEW x \in Segment, NEW n \in Nat
    PROVE  \E st : /\ IsHistory(st, n, Segment, x, [k \in 1..n |-> [y \in Segment |-> Unwrap(y)]])
                  /\ Repeat(Unwrap, x, n) = st[n]
  <1> DEFINE F(f) == [k \in 0..n |-> IF k = 0 THEN x ELSE Unwrap(f[k - 1])]
             g == CHOOSE f : f = F(f)
             H == [k \in 1..n |-> [y \in Segment |-> Unwrap(y)]]
  <1>1. H \in [1..n -> [Segment -> Segment]]
    BY UnwrapIsSegment
  <1>2. PICK st : IsHistory(st, n, Segment, x, H)
    <2> HIDE DEF H
    <2> QED BY <1>1, HistoryExists
  <1>3. st = F(st)
    <2>1. ASSUME NEW k \in 1..n
          PROVE  st[k] = Unwrap(st[k - 1])
      <3>1. st[k - 1] \in Segment /\ st[k] = H[k][st[k - 1]]
        BY <1>2 DEF IsHistory
      <3> QED BY <3>1
    <2> HIDE DEF H
    <2> QED BY <1>2, <2>1 DEF IsHistory
  <1>4. g = F(g)
    <2> HIDE DEF F
    <2> QED BY <1>3
  <1>5. g[0] = x /\ \A k \in 1..n : g[k - 1] \in Segment => g[k] = H[k][g[k - 1]]
    <2> HIDE DEF g
    <2> QED BY <1>4
  <1>6. g[n] = st[n]
    <2> HIDE DEF g, H
    <2> QED BY <1>2, <1>5, HistoryUnique
  <1>7. Repeat(Unwrap, x, n) = g[n]
    BY DEF Repeat
  <1> HIDE DEF g
  <1> QED BY <1>2, <1>6, <1>7

(* The parts of a sequence of sequences one after the other: part k stands   *)
(* between off[k - 1] and off[k].                                            *)
IsLayout(off, seqs, flat) ==
    /\ off \in [0..Len(seqs) -> Nat]
    /\ off[0] = 0
    /\ \A k \in 1..Len(seqs) : off[k] = off[k - 1] + Len(seqs[k])
    /\ Len(flat) = off[Len(seqs)]
    /\ \A k \in 1..Len(seqs) : \A j \in 1..Len(seqs[k]) : flat[off[k - 1] + j] = seqs[k][j]

(* Flattening, one sequence after the other.                                 *)
LEMMA FlattenPrefixes ==
    ASSUME NEW S, NEW seqs \in Seq(Seq(S))
    PROVE  \E fl : /\ fl \in [0..Len(seqs) -> Seq(S)]
                   /\ fl[0] = <<>>
                   /\ \A k \in 1..Len(seqs) : fl[k] = fl[k - 1] \o seqs[k]
                   /\ FlattenSeq(seqs) = fl[Len(seqs)]
  <1>1. PICK n \in Nat : n = Len(seqs)
    OBVIOUS
  <1> n \in Nat
    BY <1>1
  <1> DEFINE V == Seq(S)
             H == [k \in 1..n |-> [v \in V |-> v \o seqs[k]]]
             F(f) == [i \in 1..n |-> IF i = 1 THEN seqs[i] ELSE f[i - 1] \o seqs[i]]
             g == CHOOSE f : f = F(f)
  <1>2. \A k \in 1..n : seqs[k] \in V
    BY <1>1
  <1>3. \A v, w \in V : v \o w \in V
    OBVIOUS
  <1>4. <<>> \in V /\ \A v \in V : <<>> \o v = v
    OBVIOUS
  <1> HIDE DEF V
  <1>5. H \in [1..n -> [V -> V]]
    BY <1>2, <1>3
  <1>6. PICK fl : IsHistory(fl, n, V, <<>>, H)
    <2> HIDE DEF H
    <2> QED BY <1>4, <1>5, HistoryExists
  <1>7. /\ fl \in [0..n -> V] /\ fl[0] = <<>>
        /\ \A k \in 1..n : fl[k] = fl[k - 1] \o seqs[k]
    <2>1. ASSUME NEW k \in 1..n PROVE fl[k] = fl[k - 1] \o seqs[k]
      <3>1. k - 1 \in 0..n
        OBVIOUS
      <3>2. fl[k - 1] \in V /\ fl[k] = H[k][fl[k - 1]]
        <4> HIDE DEF H
        <4> QED BY <1>6, <3>1 DEF IsHistory
      <3>3. H[k] = [v \in V |-> v \o seqs[k]]
        OBVIOUS
      <3> HIDE DEF H
      <3> QED BY <3>2, <3>3
    <2> HIDE DEF H
    <2> QED BY <1>6, <2>1 DEF IsHistory
  <1> HIDE DEF H, F, g
  <1>8. CASE n = 0
    <2>1. seqs = <<>>
      <3>1. PICK W : W = Seq(S)
        OBVIOUS
      <3>2. seqs \in Seq(W)
        BY <3>1
      <3> QED BY <1>1, <1>8, <3>2, EmptySeq
    <2>2. FlattenSeq(seqs) = <<>>
      BY <1>1, <1>8, <2>1 DEF FlattenSeq
    <2> QED BY <1>1, <1>7, <1>8, <2>2 DEF V
  <1>9. CASE n # 0
    <2>1. fl[1] = seqs[1] /\ 1 \in 1..n
      <3>1. 1 \in 1..n /\ 1 - 1 = 0
        BY <1>9
      <3>2. fl[1] = fl[0] \o seqs[1]
        BY <1>7, <3>1
      <3>3. seqs[1] \in V
        BY <1>2, <3>1
      <3> QED BY <1>4, <1>7, <3>1, <3>2, <3>3
    <2> DEFINE h == [i \in 1..n |-> fl[i]]
    <2>2. h = F(h)
      <3>1. ASSUME NEW i \in 1..n, i # 1 PROVE h[i] = h[i - 1] \o seqs[i]
        <4>1. i - 1 \in 1..n
          BY <3>1
        <4>2. fl[i] = fl[i - 1] \o seqs[i]
          BY <1>7
        <4> QED BY <4>1, <4>2
      <3>2. h[1] = seqs[1]
        BY <2>1
      <3>3. F(h) = [i \in 1..n |-> h[i]]
        <4> HIDE DEF h
        <4> QED BY <3>1, <3>2 DEF F
      <3>4. h = [i \in 1..n |-> h[i]]
        OBVIOUS
      <3> HIDE DEF h
      <3> QED BY <3>3, <3>4
    <2>3. g = F(g)
      <3> HIDE DEF h
      <3> QED BY <2>2 DEF g
    <2>4. g[1] = seqs[1] /\ \A i \in 1..n : i # 1 => g[i] = g[i - 1] \o seqs[i]
      BY <2>1, <2>3 DEF F
    <2> DEFINE P == {k \in 0..n : k # 0 => g[k] = fl[k]}
    <2>5. 0 \in P
      OBVIOUS
    <2>6. ASSUME NEW k \in 1..n, k - 1 \in P
          PROVE  k \in P
      <3>1. CASE k = 1
        BY <2>1, <2>4, <3>1
      <3>2. CASE k # 1
        <4>1. g[k - 1] = fl[k - 1]
          BY <2>6, <3>2
        <4>2. g[k] = g[k - 1] \o seqs[k] /\ fl[k] = fl[k - 1] \o seqs[k]
          BY <1>7, <2>4, <3>2
        <4>3. g[k] = fl[k] /\ k \in 0..n
          BY <4>1, <4>2
        <4> QED BY <4>3
      <3> QED BY <3>1, <3>2
    <2>7. n \in P
      <3>1. n \in 0..n
        OBVIOUS
      <3> HIDE DEF P
      <3> QED BY <2>5, <2>6, <3>1, UpTo
    <2>8. FlattenSeq(seqs) = g[n]
      BY <1>1, <1>9 DEF FlattenSeq, g, F
    <2>9. FlattenSeq(seqs) = fl[n]
      BY <1>9, <2>7, <2>8
    <2> QED BY <1>1, <1>7, <2>9 DEF V
  <1> QED BY <1>8, <1>9

(* Sequences put end to end: each one is found at its offset.                *)
LEMMA FlattenLayout ==
    ASSUME NEW S, NEW seqs \in Seq(Seq(S))
    PROVE  /\ FlattenSeq(seqs) \in Seq(S)
           /\ \E off : IsLayout(off, seqs, FlattenSeq(seqs))
  <1>1. PICK n \in Nat : n = Len(seqs)
    OBVIOUS
  <1> n \in Nat
    BY <1>1
  <1>2. PICK fl : /\ fl \in [0..n -> Seq(S)]
                  /\ fl[0] = <<>>
                  /\ \A k \in 1..n : fl[k] = fl[k - 1] \o seqs[k]
                  /\ FlattenSeq(seqs) = fl[n]
    BY <1>1, FlattenPrefixes
  <1> DEFINE off == [k \in 0..n |-> Len(fl[k])]
             P == {m \in 0..n : \A k \in 1..m : off[k] <= off[m] /\ \A j \in 1..Len(seqs[k]) :
                                   fl[m][off[k - 1] + j] = seqs[k][j]}
  <1>3. off \in [0..n -> Nat] /\ off[0] = 0
    BY <1>2
  <1>4. ASSUME NEW k \in 1..n
        PROVE  /\ off[k] = off[k - 1] + Len(seqs[k]) /\ Len(seqs[k]) \in Nat
               /\ \A i \in 1..off[k - 1] : fl[k][i] = fl[k - 1][i]
               /\ \A j \in 1..Len(seqs[k]) : fl[k][off[k - 1] + j] = seqs[k][j]
    <2>0. k - 1 \in 0..n /\ k \in 0..n
      OBVIOUS
    <2>1. PICK a \in Seq(S), b \in Seq(S) : a = fl[k - 1] /\ b = seqs[k] /\ fl[k] = a \o b
      <3> HIDE DEF P, off
      <3>1. fl[k - 1] \in Seq(S)
        BY <1>2, <2>0
      <3>2. seqs[k] \in Seq(S)
        BY <1>1
      <3> QED BY <1>2, <3>1, <3>2
    <2>2. off[k] = Len(a \o b) /\ off[k - 1] = Len(a)
      BY <2>0, <2>1
    <2> a \in Seq(S) /\ b \in Seq(S)
      BY <2>1
    <2>3. /\ Len(a \o b) = Len(a) + Len(b) /\ Len(a) \in Nat /\ Len(b) \in Nat
          /\ \A i \in 1..Len(a) : (a \o b)[i] = a[i]
          /\ \A j \in 1..Len(b) : (a \o b)[Len(a) + j] = b[j]
      OBVIOUS
    <2> QED BY <2>1, <2>2, <2>3
  <1> HIDE DEF off
  <1>5. 0 \in P
    OBVIOUS
  <1>6. ASSUME NEW m \in 1..n, m - 1 \in P
        PROVE  m \in P
    <2> SUFFICES ASSUME NEW k \in 1..m
                 PROVE  off[k] <= off[m] /\ \A j \in 1..Len(seqs[k]) :
                                   fl[m][off[k - 1] + j] = seqs[k][j]
      OBVIOUS
    <2>1. CASE k = m
      BY <1>3, <1>4, <2>1
    <2>2. CASE k # m
      <3>1. k \in 1..(m - 1) /\ k \in 1..n /\ m - 1 \in 0..n /\ k - 1 \in 0..n /\ k \in 0..n
        BY <2>2
      <3>2. off[k] <= off[m - 1]
        BY <1>6, <3>1
      <3>a. \A j \in 1..Len(seqs[k]) : fl[m - 1][off[k - 1] + j] = seqs[k][j]
        BY <1>6, <3>1
      <3> HIDE DEF P
      <3>b. off[m - 1] \in Nat /\ off[m] \in Nat /\ off[k] \in Nat /\ off[k - 1] \in Nat
        BY <1>3, <3>1
      <3>c. off[m] = off[m - 1] + Len(seqs[m]) /\ Len(seqs[m]) \in Nat
        BY <1>4
      <3>d. off[k] = off[k - 1] + Len(seqs[k]) /\ Len(seqs[k]) \in Nat
        BY <1>4, <3>1
      <3>3. off[m - 1] <= off[m] /\ off[m - 1] \in Nat /\ off[m] \in Nat /\ off[k] \in Nat /\ off[k - 1] \in Nat
        BY <3>b, <3>c
      <3>4. ASSUME NEW j \in 1..Len(seqs[k])
            PROVE  fl[m][off[k - 1] + j] = seqs[k][j]
        <4>1. off[k - 1] + j \in 1..off[m - 1]
          <5>1. PICK a, b, c, len \in Nat :
                   a = off[k - 1] /\ b = off[k] /\ c = off[m - 1] /\ len = Len(seqs[k])
            BY <3>3, <3>d
          <5>2. b = a + len /\ b <= c /\ j \in 1..len
            BY <3>2, <3>d, <5>1
          <5>3. a \in Nat /\ c \in Nat /\ len \in Nat
            BY <5>1
          <5>4. a + j \in 1..c
            BY <5>2, <5>3
          <5> QED BY <5>1, <5>4
        <4>2. fl[m][off[k - 1] + j] = fl[m - 1][off[k - 1] + j]
          BY <1>4, <4>1
        <4> QED BY <3>a, <4>2
      <3> QED BY <3>2, <3>3, <3>4
    <2> QED BY <2>1, <2>2
  <1>7. n \in P
    <2>1. n \in 0..n
      OBVIOUS
    <2> HIDE DEF P
    <2> QED BY <1>5, <1>6, <2>1, UpTo
  <1>8. Len(fl[n]) = off[n] /\ FlattenSeq(seqs) \in Seq(S)
    BY <1>2 DEF off
  <1>9. IsLayout(off, seqs, FlattenSeq(seqs))
    BY <1>1, <1>2, <1>3, <1>4, <1>7, <1>8 DEF IsLayout
  <1> QED BY <1>8, <1>9

-----------------------------------------------------------------------------
(* Lines, words and commands; the types of the classifier.                   *)

(* A word, and a line: a sequence of pieces.                                 *)
Word == Seq(STRING)

(* Ways to make a sequence.                                                  *)
LEMMA SequencesMade ==
    ASSUME NEW S
    PROVE  /\ <<>> \in Seq(S)
           /\ \A x \in S : <<x>> \in Seq(S)
           /\ \A x, y \in S : <<x, y, x, x>> \in Seq(S)
           /\ \A s \in Seq(S) : \A x \in S : Append(s, x) \in Seq(S)
           /\ \A s, t \in Seq(S) : s \o t \in Seq(S)
  OBVIOUS

(* Ways to make a word.                                                      *)
LEMMA WordPieces ==
    /\ <<>> \in Word
    /\ \A x \in STRING : <<x>> \in Word
    /\ <<SingleQuote, Backslash, SingleQuote, SingleQuote>> \in Word
    /\ \A w \in Word : \A x \in STRING : Append(w, x) \in Word
    /\ \A v, w \in Word : v \o w \in Word
    /\ <<SingleQuote>> \in Word /\ <<Blank>> \in Word
    /\ <<"sudo">> \in Word /\ <<"-n">> \in Word
  <1>1. PICK S : S = STRING
    OBVIOUS
  <1>2. Word = Seq(S) /\ SingleQuote \in S /\ Backslash \in S /\ Blank \in S /\ "sudo" \in S /\ "-n" \in S
    <2>1. SingleQuote \in STRING /\ Backslash \in STRING /\ Blank \in STRING
          /\ "sudo" \in STRING /\ "-n" \in STRING
      BY WrittenAssumption DEF Written
    <2>2. Word = Seq(S)
      BY <1>1, Zenon DEF Word
    <2> QED BY <1>1, <2>1, <2>2, Zenon
  <1> QED BY <1>1, <1>2, SequencesMade

(* What is put together from words, blanks and quotes is a sequence of       *)
(* pieces.                                                                   *)
LEMMA JoinedIsLine ==
    ASSUME NEW parts \in Words
    PROVE  Joined(parts) \in Word
  <1> DEFINE seqs == [k \in DOMAIN parts |-> IF k = 1 THEN parts[k] ELSE <<Blank>> \o parts[k]]
  <1>1. parts \in Seq(Word)
    BY DEF Words, Word
  <1>2. DOMAIN parts = 1..Len(parts) /\ Len(parts) \in Nat /\ \A k \in DOMAIN parts : parts[k] \in Word
    <2> HIDE DEF seqs
    <2> QED BY <1>1, LenProperties
  <1>3. \A k \in DOMAIN parts : seqs[k] \in Word
    BY <1>2, WordPieces
  <1>4. seqs \in Seq(Word)
    BY <1>2, <1>3
  <1>5. FlattenSeq(seqs) \in Seq(STRING)
    <2>1. seqs \in Seq(Seq(STRING))
      <3> HIDE DEF seqs
      <3> QED BY <1>4 DEF Word
    <2> HIDE DEF seqs
    <2> QED BY <2>1, FlattenLayout
  <1> QED BY <1>5 DEF Joined, Word

(* Quoting makes a word of a word.                                           *)
LEMMA QuoteIsWord ==
    ASSUME NEW w \in Word
    PROVE  Quote(w) \in Word
  <1> DEFINE seqs == [k \in DOMAIN w |->
               IF w[k] = SingleQuote THEN <<SingleQuote, Backslash, SingleQuote, SingleQuote>> ELSE <<w[k]>>]
  <1>1. DOMAIN w = 1..Len(w) /\ Len(w) \in Nat /\ \A k \in DOMAIN w : w[k] \in STRING
    BY LenProperties DEF Word
  <1>2. \A x \in STRING : <<x>> \in Word
    BY WordPieces
  <1>3. \A k \in DOMAIN w : seqs[k] \in Word
    BY <1>1, <1>2, WordPieces
  <1>4. seqs \in Seq(Word)
    BY <1>1, <1>3
  <1>5. FlattenSeq(seqs) \in Word
    <2>1. seqs \in Seq(Seq(STRING))
      <3> HIDE DEF seqs
      <3> QED BY <1>4 DEF Word
    <2> HIDE DEF seqs
    <2> QED BY <2>1, FlattenLayout DEF Word
  <1>6. Quote(w) = IF NeedsNoQuotes(w) THEN w ELSE <<SingleQuote>> \o FlattenSeq(seqs) \o <<SingleQuote>>
    BY DEF Quote
  <1> HIDE DEF seqs
  <1>7. <<SingleQuote>> \o FlattenSeq(seqs) \o <<SingleQuote>> \in Word
    BY <1>5, WordPieces
  <1> QED BY <1>6, <1>7

(* A Cmd.                                                                    *)
Built == [program : Seq(STRING), args : Seq(Seq(STRING)), sudo : BOOLEAN]

(* The words Cmd::render joins.                                              *)
RenderedParts(cmd) ==
    (IF cmd.sudo THEN <<<<"sudo">>, <<"-n">>>> ELSE <<>>)
    \o <<Quote(cmd.program)>>
    \o [k \in DOMAIN cmd.args |-> Quote(cmd.args[k])]

(* They are words.                                                           *)
LEMMA PartsAreWords ==
    ASSUME NEW cmd \in Built
    PROVE  RenderedParts(cmd) \in Words
  <1>1. cmd.program \in Word /\ cmd.args \in Seq(Word) /\ cmd.sudo \in BOOLEAN
    BY DEF Built, Word
  <1>2. PICK a : a = IF cmd.sudo THEN <<<<"sudo">>, <<"-n">>>> ELSE <<>>
    OBVIOUS
  <1>3. PICK b : b = <<Quote(cmd.program)>>
    OBVIOUS
  <1>4. PICK c : c = [k \in DOMAIN cmd.args |-> Quote(cmd.args[k])]
    OBVIOUS
  <1>5. a \in Seq(Word)
    <2>1. PICK u, v : u = <<"sudo">> /\ v = <<"-n">> /\ u \in Word /\ v \in Word
      BY WordPieces
    <2>2. <<u, v>> \in Seq(Word) /\ <<>> \in Seq(Word)
      BY <2>1
    <2> QED BY <1>2, <2>1, <2>2
  <1>6. b \in Seq(Word)
    <2>1. PICK q \in Word : q = Quote(cmd.program)
      BY <1>1, QuoteIsWord
    <2> QED BY <1>3, <2>1
  <1>7. c \in Seq(Word)
    <2>1. DOMAIN cmd.args = 1..Len(cmd.args) /\ Len(cmd.args) \in Nat
      BY <1>1, LenProperties
    <2>2. \A k \in DOMAIN cmd.args : Quote(cmd.args[k]) \in Word
      BY <1>1, QuoteIsWord, LenProperties
    <2> QED BY <1>4, <2>1, <2>2
  <1>8. a \o b \o c \in Seq(Word)
    BY <1>5, <1>6, <1>7
  <1> QED BY <1>2, <1>3, <1>4, <1>8 DEF RenderedParts, Words, Word

(* Cmd::render joins them.                                                   *)
LEMMA RenderIsLine ==
    ASSUME NEW cmd \in Built
    PROVE  Render(cmd) = Joined(RenderedParts(cmd)) /\ Render(cmd) \in Word
  <1>1. Render(cmd) = Joined(RenderedParts(cmd))
    BY DEF Render, RenderedParts
  <1> QED BY <1>1, PartsAreWords, JoinedIsLine

(* The classifier by itself.                                                 *)
ClassifierSpec == ClassifierInit /\ [][ClassifierNext]_classifierVars

(* What it keeps: the line is a line and the Cmd is a Cmd.                   *)
ClassifierInv == line \in Word /\ built \in Built

(* That holds at first...                                                    *)
LEMMA ClassifierInvInit == ClassifierInit => ClassifierInv
  <1>1. <<>> \in Seq(STRING) /\ <<>> \in Seq(Seq(STRING))
    OBVIOUS
  <1> QED BY <1>1 DEF ClassifierInit, ClassifierInv, NoCmd, Built, Word

(* ... and whatever is typed, entered or built.                              *)
LEMMA ClassifierInvStep == ClassifierInv /\ [ClassifierNext]_classifierVars => ClassifierInv'
  <1> SUFFICES ASSUME ClassifierInv, [ClassifierNext]_classifierVars PROVE ClassifierInv'
    OBVIOUS
  <1>1. ASSUME NEW piece \in Alphabet, Type(piece)
        PROVE  ClassifierInv'
    <2>1. piece \in STRING
      BY ClassifierAssumption
    <2>2. Append(line, piece) \in Word
      BY <2>1, WordPieces DEF ClassifierInv
    <2> QED BY <1>1, <2>2 DEF Type, ClassifierInv
  <1>2. ASSUME NEW command \in Commands, Enter(command)
        PROVE  ClassifierInv'
    <2>1. command \in Words
      BY ClassifierAssumption DEF Words
    <2> QED BY <1>2, <2>1, JoinedIsLine DEF Enter, ClassifierInv
  <1>3. ASSUME NEW cmd \in BuiltCmds, Build(cmd)
        PROVE  ClassifierInv'
    <2>1. cmd \in Built
      BY ClassifierAssumption DEF Built
    <2> QED BY <1>3, <2>1, RenderIsLine DEF Build, ClassifierInv
  <1>4. CASE UNCHANGED classifierVars
    BY <1>4 DEF ClassifierInv, classifierVars
  <1> QED BY <1>1, <1>2, <1>3, <1>4 DEF ClassifierNext

(* So it always holds.                                                       *)
LEMMA ClassifierInvariant == ClassifierSpec => []ClassifierInv
  BY ClassifierInvInit, ClassifierInvStep, PTL DEF ClassifierSpec

(* The line that is assessed is a sequence of pieces, and the command it was *)
(* rendered from is one, however it came about (assess_risk, Cmd::render).   *)
THEOREM ClassifierTypeCorrect == ClassifierSpec => []ClassifierTypeOK
  <1>2. ClassifierInv => ClassifierTypeOK
    BY DEF ClassifierInv, ClassifierTypeOK, Built, Word
  <1> QED BY <1>2, ClassifierInvariant, PTL

-----------------------------------------------------------------------------
(* parse: what a turn of its loop makes of its state.                        *)

(* The variables of parse.                                                   *)
ParserState ==
    [i : Nat \ {0}, current : Word, has : BOOLEAN, words : Words, readsPipe : BOOLEAN,
     pending : BOOLEAN, segments : Seq(Segment), opaque : BOOLEAN, targets : Words]

(* Ways to make a sequence of words.                                         *)
LEMMA WordsMade ==
    /\ <<>> \in Words
    /\ \A ws \in Words : \A w \in Word : Append(ws, w) \in Words
  <1>1. PICK W : W = Word
    OBVIOUS
  <1>2. Words = Seq(W)
    BY <1>1 DEF Words, Word
  <1> QED BY <1>1, <1>2, SequencesMade

(* What parse starts from.                                                   *)
LEMMA StartIsState == Start \in ParserState
  <1>1. <<>> \in Seq(Segment)
    BY SequencesMade
  <1> QED BY <1>1, WordPieces, WordsMade DEF Start, ParserState

(* push_word moves neither the index nor the mark of what was not read.      *)
LEMMA PushWordFact ==
    ASSUME NEW p \in ParserState
    PROVE  /\ PushWord(p) \in ParserState
           /\ PushWord(p).i = p.i /\ PushWord(p).opaque = p.opaque
           /\ PushWord(p).segments = p.segments /\ PushWord(p).readsPipe = p.readsPipe
  <1>1. p.current \in Word /\ p.words \in Words /\ p.targets \in Words
    BY DEF ParserState
  <1>2. Append(p.targets, p.current) \in Words /\ Append(p.words, p.current) \in Words
        /\ <<>> \in Word
    BY <1>1, WordsMade, WordPieces
  <1>3. PICK ts, ws : ts = Append(p.targets, p.current) /\ ws = Append(p.words, p.current)
    OBVIOUS
  <1>4. PushWord(p) =
          IF ~p.has THEN p
          ELSE IF p.pending
          THEN [p EXCEPT !.targets = ts, !.pending = FALSE, !.current = <<>>, !.has = FALSE]
          ELSE [p EXCEPT !.words = ws, !.current = <<>>, !.has = FALSE]
    BY <1>3 DEF PushWord, ParserState
  <1> QED BY <1>2, <1>3, <1>4 DEF ParserState

(* build_segment returns a segment.                                          *)
LEMMA BuildIsSegment ==
    ASSUME NEW raw \in Words, NEW reads \in BOOLEAN
    PROVE  BuildSegment(raw, reads) \in Segment
  <1>1. PICK seg \in Segment : seg = [words |-> raw, elevated |-> FALSE, readsPipe |-> reads]
    BY DEF Segment, Words
  <1>2. PICK n \in Nat : n = Len(raw)
    BY DEF Words
  <1>3. PICK st : /\ IsHistory(st, n, Segment, seg, [k \in 1..n |-> [y \in Segment |-> Unwrap(y)]])
                  /\ Repeat(Unwrap, seg, n) = st[n]
    BY <1>1, <1>2, UnwrapTurns
  <1>4. n \in 0..n
    BY <1>2
  <1>5. st[n] \in Segment
    BY <1>3, <1>4 DEF IsHistory
  <1> QED BY <1>1, <1>2, <1>3, <1>5 DEF BuildSegment

(* Neither does end_segment.                                                 *)
LEMMA EndSegmentFact ==
    ASSUME NEW p \in ParserState, NEW reads \in BOOLEAN
    PROVE  /\ EndSegment(p, reads) \in ParserState
           /\ EndSegment(p, reads).i = p.i /\ EndSegment(p, reads).opaque = p.opaque
  <1>1. PICK seg \in Segment : seg = BuildSegment(p.words, p.readsPipe)
    BY BuildIsSegment DEF ParserState
  <1>2. PICK ss : ss = Append(p.segments, seg)
    OBVIOUS
  <1>3. ss \in Seq(Segment)
    BY <1>1, <1>2, SequencesMade DEF ParserState
  <1>4. EndSegment(p, reads) =
          [p EXCEPT !.segments = IF p.words = <<>> THEN p.segments ELSE ss,
                    !.words = <<>>, !.readsPipe = reads]
    BY <1>1, <1>2 DEF EndSegment, ParserState
  <1> QED BY <1>3, <1>4, WordsMade DEF ParserState

(* Pieces are added to the word being read.                                  *)
LEMMA TakeFact ==
    ASSUME NEW p \in ParserState, NEW pieces \in Word, NEW next \in Nat \ {0}
    PROVE  /\ Take(p, pieces, next) \in ParserState
           /\ Take(p, pieces, next).i = next /\ Take(p, pieces, next).opaque = p.opaque
  <1>1. PICK w \in Word : w = p.current \o pieces
    BY WordPieces DEF ParserState
  <1>2. Take(p, pieces, next) = [p EXCEPT !.has = TRUE, !.current = w, !.i = next]
    BY <1>1 DEF Take, ParserState
  <1> QED BY <1>1, <1>2 DEF ParserState

(* A set of indices that is not empty has a first and a last one.            *)
LEMMA Indices ==
    ASSUME NEW n \in Nat, NEW S \in SUBSET (0..n), S # {}
    PROVE  /\ Min(S) \in S /\ \A x \in S : Min(S) <= x
           /\ Max(S) \in S /\ \A x \in S : x <= Max(S)
  <1>1. 0..n \subseteq Int /\ IsFiniteSet(0..n)
    BY FS_Interval
  <1>2. S \in SUBSET Int /\ IsFiniteSet(S)
    BY <1>1, FS_Subset
  <1> QED BY <1>2, Extremes

(* The closing piece is the first one after the opening one.                 *)
LEMMA ClosingFact ==
    ASSUME NEW l \in Word, NEW i \in 1..Len(l), NEW piece
    PROVE  LET j == Closing(l, i, piece)
           IN /\ j \in (i + 1)..(Len(l) + 1)
              /\ j <= Len(l) => l[j] = piece
              /\ \A m \in (i + 1)..(j - 1) : l[m] # piece
  <1>1. PICK n \in Nat : n = Len(l)
    BY DEF Word
  <1>2. PICK S : S = {j \in (i + 1)..n : l[j] = piece} \cup {n + 1}
    OBVIOUS
  <1>3. n + 1 \in Nat /\ S \in SUBSET (0..(n + 1)) /\ n + 1 \in S /\ S # {}
        /\ \A x \in S : x \in (i + 1)..(n + 1)
    BY <1>1, <1>2
  <1>4. PICK j : j = Min(S)
    OBVIOUS
  <1>5. j \in S /\ \A x \in S : j <= x
    BY <1>3, <1>4, Indices
  <1>6. Closing(l, i, piece) = j
    BY <1>1, <1>2, <1>4 DEF Closing
  <1>7. j \in (i + 1)..(n + 1) /\ (j <= n => l[j] = piece)
    BY <1>1, <1>2, <1>3, <1>5
  <1>8. \A m \in (i + 1)..(j - 1) : l[m] # piece
    BY <1>1, <1>2, <1>5, <1>7
  <1> QED BY <1>1, <1>6, <1>7, <1>8

(* The run of backslashes that ends before k, within the quotes opened at i. *)
Runs(l, i, k) == {r \in 0..(k - i - 1) : \A m \in (k - r)..(k - 1) : l[m] = Backslash}

(* A piece between double quotes is hidden exactly when the one before it is *)
(* a backslash that is not: counting the run is the same as toggling.        *)
LEMMA HiddenFact ==
    ASSUME NEW l \in Word, NEW i \in 1..Len(l)
    PROVE  /\ ~Hidden(l, i, i + 1)
           /\ \A k \in (i + 1)..Len(l) :
                 Hidden(l, i, k + 1) <=> l[k] = Backslash /\ ~Hidden(l, i, k)
  <1>0. \A k : Hidden(l, i, k) <=> Max(Runs(l, i, k)) % 2 = 1
    BY DEF Hidden, Runs
  <1>1. PICK n \in Nat : n = Len(l)
    BY DEF Word
  <1>a. i \in Nat
    BY <1>1
  <1>2. ASSUME NEW k \in (i + 1)..(n + 1)
        PROVE  /\ Max(Runs(l, i, k)) \in Runs(l, i, k)
               /\ \A x \in Runs(l, i, k) : x <= Max(Runs(l, i, k))
    <2>1. 0 \in Runs(l, i, k)
      BY <1>a, <1>1 DEF Runs
    <2>2. Runs(l, i, k) \in SUBSET (0..(k - i - 1)) /\ k - i - 1 \in Nat
      BY <1>a, <1>1 DEF Runs
    <2> QED BY <2>1, <2>2, Indices
  <1>3. ~Hidden(l, i, i + 1)
    <2>1. i + 1 \in (i + 1)..(n + 1)
      BY <1>1, <1>a
    <2>2. \A r \in Runs(l, i, i + 1) : r = 0
      BY <1>a DEF Runs
    <2>3. Max(Runs(l, i, i + 1)) = 0
      BY <1>2, <2>1, <2>2
    <2> QED BY <1>0, <2>3
  <1>4. ASSUME NEW k \in (i + 1)..n
        PROVE  Hidden(l, i, k + 1) <=> l[k] = Backslash /\ ~Hidden(l, i, k)
    <2>0. k \in (i + 1)..(n + 1) /\ k + 1 \in (i + 1)..(n + 1) /\ k \in Nat
      BY <1>1, <1>a
    <2>1. PICK a, b : a = Max(Runs(l, i, k)) /\ b = Max(Runs(l, i, k + 1))
      OBVIOUS
    <2>2. /\ a \in 0..(k - i - 1) /\ \A m \in (k - a)..(k - 1) : l[m] = Backslash
          /\ \A x \in Runs(l, i, k) : x <= a
      BY <1>2, <2>0, <2>1 DEF Runs
    <2>3. /\ b \in 0..(k - i) /\ \A m \in (k + 1 - b)..k : l[m] = Backslash
          /\ \A x \in Runs(l, i, k + 1) : x <= b
      <3>1. b \in Runs(l, i, k + 1) /\ \A x \in Runs(l, i, k + 1) : x <= b
        BY <1>2, <2>0, <2>1
      <3>2. b \in 0..(k + 1 - i - 1) /\ \A m \in (k + 1 - b)..(k + 1 - 1) : l[m] = Backslash
        BY <3>1 DEF Runs
      <3>3. k + 1 - i - 1 = k - i /\ k + 1 - 1 = k
        BY <1>a, <2>0
      <3> QED BY <3>1, <3>2, <3>3
    <2>4. CASE l[k] # Backslash
      <3>1. b = 0
        BY <1>a, <2>0, <2>3, <2>4
      <3> QED BY <1>0, <2>1, <2>4, <3>1
    <2>5. CASE l[k] = Backslash
      <3>1. a + 1 \in Runs(l, i, k + 1)
        <4>1. a + 1 \in 0..(k + 1 - i - 1)
          BY <1>a, <2>0, <2>2
        <4>2. ASSUME NEW m \in (k + 1 - (a + 1))..(k + 1 - 1)
              PROVE  l[m] = Backslash
          <5>1. m = k \/ m \in (k - a)..(k - 1)
            BY <2>0, <2>2
          <5> QED BY <2>2, <2>5, <5>1
        <4> QED BY <4>1, <4>2 DEF Runs
      <3>2. b # 0 => b - 1 \in Runs(l, i, k)
        <4> SUFFICES ASSUME b # 0 PROVE b - 1 \in Runs(l, i, k)
          OBVIOUS
        <4>1. b - 1 \in 0..(k - i - 1)
          BY <1>a, <2>0, <2>3
        <4>2. ASSUME NEW m \in (k - (b - 1))..(k - 1)
              PROVE  l[m] = Backslash
          BY <2>0, <2>3
        <4> QED BY <4>1, <4>2 DEF Runs
      <3>3. b = a + 1
        <4>1. a + 1 <= b
          BY <2>3, <3>1
        <4>2. b # 0 => b - 1 <= a
          BY <2>2, <3>2
        <4>3. a \in Nat /\ b \in Nat
          BY <1>a, <2>0, <2>2, <2>3
        <4> QED BY <4>1, <4>2, <4>3
      <3>4. a \in Nat
        BY <1>a, <2>0, <2>2
      <3>5. (a + 1) % 2 = 1 <=> ~(a % 2 = 1)
        BY <3>4
      <3> QED BY <1>0, <2>1, <2>5, <3>3, <3>5
    <2> QED BY <2>4, <2>5
  <1> QED BY <1>1, <1>3, <1>4

(* The closing double quote is the first that is not hidden.                 *)
LEMMA DoubleEndFact ==
    ASSUME NEW l \in Word, NEW i \in 1..Len(l)
    PROVE  LET j == DoubleEnd(l, i)
           IN /\ j \in (i + 1)..(Len(l) + 1)
              /\ j <= Len(l) => l[j] = DoubleQuote /\ ~Hidden(l, i, j)
              /\ \A m \in (i + 1)..(j - 1) : ~(l[m] = DoubleQuote /\ ~Hidden(l, i, m))
  <1>1. PICK n \in Nat : n = Len(l)
    BY DEF Word
  <1>2. PICK S : S = {k \in (i + 1)..n : l[k] = DoubleQuote /\ ~Hidden(l, i, k)} \cup {n + 1}
    OBVIOUS
  <1>3. n + 1 \in Nat /\ S \in SUBSET (0..(n + 1)) /\ n + 1 \in S /\ S # {}
        /\ \A x \in S : x \in (i + 1)..(n + 1)
    BY <1>1, <1>2
  <1>4. PICK j : j = Min(S)
    OBVIOUS
  <1>5. j \in S /\ \A x \in S : j <= x
    BY <1>3, <1>4, Indices
  <1>6. DoubleEnd(l, i) = j
    BY <1>1, <1>2, <1>4 DEF DoubleEnd
  <1>7. j \in (i + 1)..(n + 1) /\ (j <= n => l[j] = DoubleQuote /\ ~Hidden(l, i, j))
    BY <1>1, <1>2, <1>3, <1>5
  <1>8. \A m \in (i + 1)..(j - 1) : ~(l[m] = DoubleQuote /\ ~Hidden(l, i, m))
    BY <1>1, <1>2, <1>5, <1>7
  <1> QED BY <1>1, <1>6, <1>7, <1>8

(* A substitution ends within the line.                                      *)
LEMMA SubstitutionEndFact ==
    ASSUME NEW l \in Word, NEW i \in 1..(Len(l) - 1)
    PROVE  SubstitutionEnd(l, i) \in (i + 1)..Len(l)
  <1>1. PICK n \in Nat : n = Len(l) /\ i \in 1..(n - 1)
    BY DEF Word
  <1>2. PICK S : S = {k \in (i + 1)..n : l[k] = ")" /\ Cardinality({m \in i..k : l[m] = "("})
                                                      = Cardinality({m \in i..k : l[m] = ")"})}
                     \cup {n}
    OBVIOUS
  <1>3. S \in SUBSET (0..n) /\ S # {} /\ \A x \in S : x \in (i + 1)..n
    BY <1>1, <1>2
  <1>4. Min(S) \in S
    BY <1>1, <1>3, Indices
  <1>5. SubstitutionEnd(l, i) = Min(S)
    BY <1>1, <1>2 DEF SubstitutionEnd
  <1> QED BY <1>1, <1>3, <1>4, <1>5

(* What is read between double quotes is a word.                             *)
LEMMA UnescapedIsWord ==
    ASSUME NEW l \in Word, NEW i \in 1..Len(l), NEW j \in (i + 1)..(Len(l) + 1)
    PROVE  Unescaped(l, i, j) \in Word
  <1>0. Len(l) \in Nat /\ i \in Nat /\ j \in Nat
    BY DEF Word
  <1>1. PICK n \in Nat : n = j - 1 - i
    BY <1>0
  <1> n \in Nat /\ i \in Nat
    BY <1>0, <1>1
  <1> DEFINE kept(k) == l[k] # Backslash \/ Hidden(l, i, k) \/ k = Len(l)
             Add(v, k) == IF kept(k) THEN Append(v, l[k]) ELSE v
             H == [k \in 1..n |-> [v \in Word |-> Add(v, i + k)]]
             F(f) == [k \in i..(j - 1) |-> IF k = i THEN <<>> ELSE Add(f[k - 1], k)]
             g == CHOOSE f : f = F(f)
  <1>2. \A v \in Word : \A k \in 1..n : Add(v, i + k) \in Word
    <2>1. \A k \in 1..n : l[i + k] \in STRING
      <3>1. \A k \in 1..n : i + k \in 1..Len(l)
        BY <1>0, <1>1
      <3> QED BY <3>1, ElementOfSeq DEF Word
    <2> HIDE DEF kept
    <2> QED BY <2>1, WordPieces
  <1>3. Unescaped(l, i, j) = g[j - 1]
    BY DEF Unescaped
  <1> HIDE DEF Add
  <1>4. H \in [1..n -> [Word -> Word]]
    BY <1>2
  <1>5. PICK st : IsHistory(st, n, Word, <<>>, H)
    <2> HIDE DEF H
    <2> QED BY <1>4, WordPieces, HistoryExists
  <1>6. /\ st[0] = <<>> /\ \A k \in 0..n : st[k] \in Word
        /\ \A k \in 1..n : st[k] = Add(st[k - 1], i + k)
    <2>1. ASSUME NEW k \in 1..n
          PROVE  st[k] = Add(st[k - 1], i + k)
      <3>1. st[k - 1] \in Word /\ st[k] = H[k][st[k - 1]]
        <4> HIDE DEF H
        <4> QED BY <1>5 DEF IsHistory
      <3> QED BY <3>1
    <2> HIDE DEF H
    <2> QED BY <1>5, <2>1 DEF IsHistory
  <1> DEFINE h == [k \in i..(j - 1) |-> st[k - i]]
  <1> HIDE DEF H
  <1>7. h = F(h)
    <2>1. h[i] = <<>>
      <3>1. i \in i..(j - 1) /\ i - i = 0
        BY <1>0
      <3> QED BY <1>6, <3>1
    <2>2. ASSUME NEW k \in i..(j - 1), k # i
          PROVE  h[k] = Add(h[k - 1], k)
      <3>1. k - 1 \in i..(j - 1) /\ k - i \in 1..n /\ i + (k - i) = k /\ k - 1 - i = (k - i) - 1
        BY <1>0, <1>1, <2>2
      <3>2. PICK m \in 1..n : m = k - i
        BY <3>1
      <3>3. h[k] = st[m] /\ h[k - 1] = st[m - 1] /\ i + m = k
        BY <3>1, <3>2
      <3>4. st[m] = Add(st[m - 1], i + m)
        BY <1>6, <3>2
      <3> QED BY <3>3, <3>4
    <2>3. h = [k \in i..(j - 1) |-> h[k]]
      OBVIOUS
    <2> HIDE DEF h
    <2> QED BY <2>1, <2>2, <2>3
  <1>8. g = F(g)
    <2> HIDE DEF F, h
    <2> QED BY <1>7
  <1> HIDE DEF g, h
  <1>9. g[i] = <<>> /\ \A k \in 1..n : g[i + k] = Add(g[i + (k - 1)], i + k)
    <2>1. i \in i..(j - 1)
      BY <1>0
    <2>2. ASSUME NEW k \in 1..n
          PROVE  g[i + k] = Add(g[i + (k - 1)], i + k)
      <3>1. i + k \in i..(j - 1) /\ i + k # i /\ i + k - 1 = i + (k - 1)
        BY <1>0, <1>1
      <3>2. g[i + k] = Add(g[i + k - 1], i + k)
        BY <1>8, <3>1
      <3> QED BY <3>1, <3>2
    <2> QED BY <1>8, <2>1, <2>2
  <1> HIDE DEF F
  <1> DEFINE P == {k \in 0..n : g[i + k] \in Word}
  <1>10. 0 \in P
    <2>1. i + 0 = i
      OBVIOUS
    <2> QED BY <1>9, <2>1, WordPieces
  <1>11. ASSUME NEW k \in 1..n, k - 1 \in P
         PROVE  k \in P
    <2>1. PICK v \in Word : v = g[i + (k - 1)]
      BY <1>11
    <2>2. k \in 0..n /\ g[i + k] = Add(v, i + k)
      BY <1>9, <2>1
    <2>3. Add(v, i + k) \in Word
      BY <1>2, <2>1
    <2> QED BY <2>2, <2>3
  <1>12. n \in P
    <2>1. n \in 0..n
      OBVIOUS
    <2> HIDE DEF P
    <2> QED BY <1>10, <1>11, <2>1, UpTo
  <1>13. i + n = j - 1
    BY <1>0, <1>1
  <1> QED BY <1>3, <1>12, <1>13

(* A turn of the loop goes forward and forgets nothing it could not read.    *)
Advances(p, q) == q \in ParserState /\ q.i > p.i /\ (p.opaque => q.opaque)

(* A line and its pieces.                                                    *)
LEMMA LineFacts ==
    ASSUME NEW l \in Word
    PROVE  /\ Len(l) \in Nat /\ DOMAIN l = 1..Len(l)
           /\ \A k \in 1..Len(l) : l[k] \in STRING /\ <<l[k]>> \in Word
  <1>1. Len(l) \in Nat /\ DOMAIN l = 1..Len(l) /\ \A k \in 1..Len(l) : l[k] \in STRING
    BY LenProperties, ElementOfSeq DEF Word
  <1> QED BY <1>1, WordPieces

(* The slice of a line between two of its places.                            *)
LEMMA SliceIsWord ==
    ASSUME NEW l \in Word, NEW a \in 1..(Len(l) + 1), NEW b \in 0..Len(l)
    PROVE  SubSeq(l, a, b) \in Word
  <1>1. \A m \in a..b : l[m] \in STRING
    <2>1. Len(l) \in Nat
      BY LineFacts
    <2>2. \A m \in a..b : m \in 1..Len(l)
      BY <2>1
    <2> QED BY <2>2, LineFacts
  <1>2. a \in Int /\ b \in Int
    BY LineFacts
  <1> QED BY <1>1, <1>2, SubSeqProperties DEF Word

(* A trimmed line is a line.                                                 *)
LEMMA TrimIsWord ==
    ASSUME NEW l \in Word
    PROVE  Trim(l) \in Word
  <1>1. PICK n \in Nat : n = Len(l)
    BY LineFacts
  <1>2. PICK kept : kept = {k \in DOMAIN l : l[k] # Blank}
    OBVIOUS
  <1>3. CASE kept = {}
    <2>1. Trim(l) = <<>>
      BY <1>2, <1>3 DEF Trim
    <2> QED BY <2>1 DEF Word
  <1>4. CASE kept # {}
    <2>1. kept \in SUBSET (1..n) /\ kept \in SUBSET (0..n)
      BY <1>1, <1>2, LineFacts
    <2>2. PICK a, b : a = Min(kept) /\ b = Max(kept)
      OBVIOUS
    <2>3. a \in kept /\ b \in kept
      BY <1>1, <1>4, <2>1, <2>2, Indices
    <2>4. a \in 1..(n + 1) /\ b \in 0..n
      BY <2>1, <2>3
    <2>5. Trim(l) = SubSeq(l, a, b)
      BY <1>2, <1>4, <2>2 DEF Trim
    <2> QED BY <1>1, <2>4, <2>5, SliceIsWord
  <1> QED BY <1>3, <1>4

(* The arm for a single quote.                                               *)
LEMMA SingleQuotedFact ==
    ASSUME NEW l \in Word, NEW p \in ParserState, p.i \in 1..Len(l)
    PROVE  /\ Advances(p, SingleQuoted(l, p)) /\ SingleQuoted(l, p).opaque = p.opaque
           /\ SingleQuoted(l, p).i = Closing(l, p.i, SingleQuote) + 1
  <1>1. PICK i \in 1..Len(l) : i = p.i
    OBVIOUS
  <1>2. PICK j : j = Closing(l, i, SingleQuote)
    OBVIOUS
  <1>3. j \in (i + 1)..(Len(l) + 1)
    BY <1>1, <1>2, ClosingFact
  <1>4. Len(l) \in Nat
    BY LineFacts
  <1>5. PICK w \in Word : w = SubSeq(l, i + 1, j - 1)
    <2>1. i + 1 \in 1..(Len(l) + 1) /\ j - 1 \in 0..Len(l)
      BY <1>1, <1>3, <1>4
    <2> QED BY <2>1, SliceIsWord
  <1>6. SingleQuoted(l, p) = Take(p, w, j + 1)
    BY <1>1, <1>2, <1>5 DEF SingleQuoted
  <1>7. j + 1 \in Nat \ {0} /\ j + 1 > i
    BY <1>1, <1>3, <1>4
  <1>8. Take(p, w, j + 1) \in ParserState /\ Take(p, w, j + 1).i = j + 1
        /\ Take(p, w, j + 1).opaque = p.opaque
    BY <1>5, <1>7, TakeFact
  <1> QED BY <1>1, <1>2, <1>6, <1>7, <1>8 DEF Advances

(* The arm for a double quote.                                               *)
LEMMA DoubleQuotedFact ==
    ASSUME NEW l \in Word, NEW p \in ParserState, p.i \in 1..Len(l)
    PROVE  /\ Advances(p, DoubleQuoted(l, p))
           /\ DoubleQuoted(l, p).i = DoubleEnd(l, p.i) + 1
           /\ (\E k \in (p.i + 1)..(DoubleEnd(l, p.i) - 1) :
                  l[k] = "$" /\ k < Len(l) /\ l[k + 1] = "(") => DoubleQuoted(l, p).opaque
  <1>1. PICK i \in 1..Len(l) : i = p.i
    OBVIOUS
  <1>2. PICK j : j = DoubleEnd(l, i)
    OBVIOUS
  <1>3. j \in (i + 1)..(Len(l) + 1)
    BY <1>1, <1>2, DoubleEndFact
  <1>4. Len(l) \in Nat
    BY LineFacts
  <1>5. PICK w \in Word : w = Unescaped(l, i, j)
    BY <1>1, <1>3, UnescapedIsWord
  <1>6. PICK sees \in BOOLEAN :
           sees = \E k \in (i + 1)..(j - 1) : l[k] = "$" /\ k < Len(l) /\ l[k + 1] = "("
    OBVIOUS
  <1>7. PICK q : q = Take(p, w, j + 1)
    OBVIOUS
  <1>8. j + 1 \in Nat \ {0} /\ j + 1 > i
    BY <1>1, <1>3, <1>4
  <1>9. q \in ParserState /\ q.i = j + 1 /\ q.opaque = p.opaque
    BY <1>5, <1>7, <1>8, TakeFact
  <1>10. DoubleQuoted(l, p) = [q EXCEPT !.opaque = q.opaque \/ sees]
    BY <1>1, <1>2, <1>5, <1>6, <1>7, <1>9 DEF DoubleQuoted, ParserState
  <1>11. [q EXCEPT !.opaque = q.opaque \/ sees] \in ParserState
    BY <1>6, <1>9 DEF ParserState
  <1>12. DoubleQuoted(l, p).i = j + 1 /\ DoubleQuoted(l, p).opaque = (p.opaque \/ sees)
    BY <1>9, <1>10 DEF ParserState
  <1> QED BY <1>1, <1>2, <1>6, <1>8, <1>10, <1>11, <1>12 DEF Advances

(* An arm that marks the line as opaque.                                     *)
LEMMA OpaqueFact ==
    ASSUME NEW p \in ParserState, NEW w \in Word, NEW next \in Nat \ {0}, next > p.i
    PROVE  LET q == [Take(p, w, next) EXCEPT !.opaque = TRUE]
           IN Advances(p, q) /\ q.opaque
  <1>1. PICK q : q = Take(p, w, next)
    OBVIOUS
  <1>2. q \in ParserState /\ q.i = next
    BY <1>1, TakeFact
  <1>3. [q EXCEPT !.opaque = TRUE] \in ParserState /\ [q EXCEPT !.opaque = TRUE].opaque
        /\ [q EXCEPT !.opaque = TRUE].i = next
    BY <1>2 DEF ParserState
  <1> QED BY <1>1, <1>3 DEF Advances

(* The arm for $(.                                                           *)
LEMMA SubstitutionFact ==
    ASSUME NEW l \in Word, NEW p \in ParserState, p.i \in 1..(Len(l) - 1)
    PROVE  Advances(p, Substitution(l, p)) /\ Substitution(l, p).opaque
  <1>1. PICK j : j = SubstitutionEnd(l, p.i)
    OBVIOUS
  <1>2. j \in (p.i + 1)..Len(l) /\ Len(l) \in Nat
    BY <1>1, SubstitutionEndFact, LineFacts
  <1>3. j + 1 \in Nat \ {0} /\ j + 1 > p.i
    BY <1>2 DEF ParserState
  <1>4. <<"$(...)">> \in Word
    BY WordPieces, WrittenAssumption DEF Written
  <1> QED BY <1>1, <1>3, <1>4, OpaqueFact DEF Substitution

(* The arm for a backtick.                                                   *)
LEMMA BackquotedFact ==
    ASSUME NEW l \in Word, NEW p \in ParserState, p.i \in 1..Len(l)
    PROVE  Advances(p, Backquoted(l, p)) /\ Backquoted(l, p).opaque
  <1>1. PICK j : j = Closing(l, p.i, Backtick)
    OBVIOUS
  <1>2. j \in (p.i + 1)..(Len(l) + 1) /\ Len(l) \in Nat
    BY <1>1, ClosingFact, LineFacts
  <1>3. j + 1 \in Nat \ {0} /\ j + 1 > p.i
    BY <1>2 DEF ParserState
  <1>4. <<"b...b">> \in Word
    BY WordPieces, WrittenAssumption DEF Written
  <1> QED BY <1>1, <1>3, <1>4, OpaqueFact DEF Backquoted

(* The index moves on by one or two.                                         *)
LEMMA StepOnFact ==
    ASSUME NEW p \in ParserState, NEW d \in {1, 2}
    PROVE  /\ [p EXCEPT !.i = @ + d] \in ParserState
           /\ [p EXCEPT !.i = @ + d].i = p.i + d
           /\ [p EXCEPT !.i = @ + d].opaque = p.opaque
           /\ [p EXCEPT !.pending = TRUE, !.i = @ + d] \in ParserState
           /\ [p EXCEPT !.pending = TRUE, !.i = @ + d].i = p.i + d
           /\ [p EXCEPT !.pending = TRUE, !.i = @ + d].opaque = p.opaque
  <1>1. PICK j \in Nat \ {0} : j = p.i + d
    BY DEF ParserState
  <1>2. /\ [p EXCEPT !.i = j] \in ParserState /\ [p EXCEPT !.i = j].i = j
        /\ [p EXCEPT !.i = j].opaque = p.opaque
    BY <1>1 DEF ParserState
  <1>3. /\ [p EXCEPT !.pending = TRUE, !.i = j] \in ParserState
        /\ [p EXCEPT !.pending = TRUE, !.i = j].i = j
        /\ [p EXCEPT !.pending = TRUE, !.i = j].opaque = p.opaque
    BY <1>1 DEF ParserState
  <1> QED BY <1>1, <1>2, <1>3

(* The arm for a blank.                                                      *)
LEMMA BlankFact ==
    ASSUME NEW p \in ParserState
    PROVE  LET q == [PushWord(p) EXCEPT !.i = @ + 1]
           IN q \in ParserState /\ q.i = p.i + 1 /\ q.opaque = p.opaque
  <1>1. PICK q : q = PushWord(p)
    OBVIOUS
  <1>2. q \in ParserState /\ q.i = p.i /\ q.opaque = p.opaque
    BY <1>1, PushWordFact
  <1> QED BY <1>1, <1>2, StepOnFact

(* The arm for a separator.                                                  *)
LEMMA OperatorFact ==
    ASSUME NEW p \in ParserState, NEW piece, NEW double \in BOOLEAN
    PROVE  LET q == Operator(p, piece, double)
           IN /\ q \in ParserState /\ q.opaque = p.opaque
              /\ q.i = p.i + (IF double /\ piece # ";" THEN 2 ELSE 1)
  <1>1. PICK a : a = PushWord(p)
    OBVIOUS
  <1>2. a \in ParserState /\ a.i = p.i /\ a.opaque = p.opaque
    BY <1>1, PushWordFact
  <1>3. PICK reads \in BOOLEAN : reads = (piece = "|" /\ ~double)
    OBVIOUS
  <1>4. PICK b : b = EndSegment(a, reads)
    OBVIOUS
  <1>5. b \in ParserState /\ b.i = p.i /\ b.opaque = p.opaque
    BY <1>2, <1>3, <1>4, EndSegmentFact
  <1>6. PICK d \in {1, 2} : d = IF double /\ piece # ";" THEN 2 ELSE 1
    OBVIOUS
  <1>7. Operator(p, piece, double) = [b EXCEPT !.i = @ + d]
    BY <1>1, <1>3, <1>4, <1>6 DEF Operator
  <1> QED BY <1>5, <1>6, <1>7, StepOnFact

(* The arm for a redirection.                                                *)
LEMMA RedirectionFact ==
    ASSUME NEW p \in ParserState, NEW piece, NEW double \in BOOLEAN
    PROVE  LET q == Redirection(p, piece, double)
           IN /\ q \in ParserState /\ q.opaque = p.opaque
              /\ q.i = p.i + (IF piece = ">" /\ double THEN 2 ELSE 1)
  <1>1. PICK a : a = PushWord(p)
    OBVIOUS
  <1>2. a \in ParserState /\ a.i = p.i /\ a.opaque = p.opaque
    BY <1>1, PushWordFact
  <1>3. PICK d \in {1, 2} : d = IF double THEN 2 ELSE 1
    OBVIOUS
  <1>4. Redirection(p, piece, double) =
           IF piece = ">" THEN [a EXCEPT !.pending = TRUE, !.i = @ + d] ELSE [a EXCEPT !.i = @ + 1]
    BY <1>1, <1>3 DEF Redirection
  <1>5. CASE piece = ">"
    BY <1>2, <1>3, <1>4, <1>5, StepOnFact
  <1>6. CASE piece # ">"
    BY <1>2, <1>4, <1>6, StepOnFact
  <1> QED BY <1>5, <1>6

(* The piece that follows, if there is one.                                  *)
Following(l, i) == IF i < Len(l) THEN <<l[i + 1]>> ELSE <<>>

(* The arms of the loop, on piece c and what follows it.                     *)
Arm(l, p, c, next, q) ==
    \/ c = SingleQuote /\ q = SingleQuoted(l, p)
    \/ c = DoubleQuote /\ q = DoubleQuoted(l, p)
    \/ c = Backslash /\ next # <<>> /\ q = Take(p, next, p.i + 2)
    \/ c = "$" /\ next = <<"(">> /\ q = Substitution(l, p)
    \/ c = Backtick /\ q = Backquoted(l, p)
    \/ c = Blank /\ q = [PushWord(p) EXCEPT !.i = @ + 1]
    \/ c \in Separators /\ q = Operator(p, c, next = <<c>>)
    \/ c \in {">", "<"} /\ q = Redirection(p, c, next = <<c>>)
    \/ /\ c \notin Separators \cup {SingleQuote, DoubleQuote, Backtick, Blank, ">", "<"}
       /\ ~(c = Backslash /\ next # <<>>) /\ ~(c = "$" /\ next = <<"(">>)
       /\ q = Take(p, <<c>>, p.i + 1)

(* A turn takes one of the arms.                                             *)
LEMMA ParseArms ==
    ASSUME NEW l \in Word, NEW p \in ParserState, p.i \in 1..Len(l)
    PROVE  Arm(l, p, l[p.i], Following(l, p.i), ParseStep(l, p))
  <1>1. ~(p.i > Len(l))
    BY LineFacts
  <1>2. PICK c, next : c = l[p.i] /\ next = Following(l, p.i)
    OBVIOUS
  <1>3. ParseStep(l, p) = ParseAt(l, p, c, next)
    BY <1>1, <1>2 DEF ParseStep, Following
  <1>4. PICK q : q = ParseAt(l, p, c, next)
    OBVIOUS
  <1>5. Arm(l, p, c, next, q)
    BY <1>4 DEF ParseAt, Arm
  <1> QED BY <1>2, <1>3, <1>4, <1>5

(* A piece or two are taken.                                                 *)
LEMMA TakeOnFact ==
    ASSUME NEW p \in ParserState, NEW w \in Word, NEW d \in {1, 2}
    PROVE  LET q == Take(p, w, p.i + d)
           IN q \in ParserState /\ q.i = p.i + d /\ q.opaque = p.opaque
  <1>1. PICK j \in Nat \ {0} : j = p.i + d
    BY DEF ParserState
  <1> QED BY <1>1, TakeFact

(* Every turn before the end advances, and none after it does anything.      *)
LEMMA ParseStepFact ==
    ASSUME NEW l \in Word, NEW p \in ParserState
    PROVE  /\ p.i > Len(l) => ParseStep(l, p) = p
           /\ p.i <= Len(l) => Advances(p, ParseStep(l, p))
           /\ ParseStep(l, p) \in ParserState
  <1>1. Len(l) \in Nat /\ p.i \in Nat /\ p.i >= 1
    BY LineFacts DEF ParserState
  <1>2. CASE p.i > Len(l)
    BY <1>1, <1>2 DEF ParseStep
  <1>3. CASE p.i <= Len(l)
    <2>1. p.i \in 1..Len(l)
      BY <1>1, <1>3
    <2>2. PICK q, c, next : q = ParseStep(l, p) /\ c = l[p.i] /\ next = Following(l, p.i)
      OBVIOUS
    <2> SUFFICES Advances(p, q)
      BY <1>1, <1>3, <2>2 DEF Advances
    <2>3. <<c>> \in Word
      BY <2>1, <2>2, LineFacts
    <2>4. next \in Word /\ (next # <<>> => p.i \in 1..(Len(l) - 1))
      <3>1. CASE p.i < Len(l)
        <4>1. p.i + 1 \in 1..Len(l) /\ p.i \in 1..(Len(l) - 1)
          BY <1>1, <3>1
        <4>2. <<l[p.i + 1]>> \in Word
          BY <4>1, LineFacts
        <4> QED BY <2>2, <3>1, <4>1, <4>2 DEF Following
      <3>2. CASE ~(p.i < Len(l))
        BY <2>2, <3>2, WordPieces DEF Following
      <3> QED BY <3>1, <3>2
    <2>5. \A d \in {1, 2} : q \in ParserState /\ q.i = p.i + d /\ q.opaque = p.opaque => Advances(p, q)
      BY <1>1 DEF Advances
    <2>6. Arm(l, p, c, next, q)
      BY <2>1, <2>2, ParseArms
    <2>7. CASE q = SingleQuoted(l, p) \/ q = DoubleQuoted(l, p) \/ q = Backquoted(l, p)
      BY <2>1, <2>7, SingleQuotedFact, DoubleQuotedFact, BackquotedFact
    <2>8. CASE next = <<"(">> /\ q = Substitution(l, p)
      <3>1. next # <<>>
        BY <2>8
      <3> QED BY <2>4, <2>8, <3>1, SubstitutionFact
    <2>9. CASE q = Take(p, next, p.i + 2) \/ q = Take(p, <<c>>, p.i + 1)
      <3>1. CASE q = Take(p, next, p.i + 2)
        <4>1. q \in ParserState /\ q.i = p.i + 2 /\ q.opaque = p.opaque
          BY <2>4, <3>1, TakeOnFact
        <4> QED BY <2>5, <4>1
      <3>2. CASE q = Take(p, <<c>>, p.i + 1)
        <4>1. q \in ParserState /\ q.i = p.i + 1 /\ q.opaque = p.opaque
          BY <2>3, <3>2, TakeOnFact
        <4> QED BY <2>5, <4>1
      <3> QED BY <2>9, <3>1, <3>2
    <2>10. CASE q = [PushWord(p) EXCEPT !.i = @ + 1]
      <3>1. q \in ParserState /\ q.i = p.i + 1 /\ q.opaque = p.opaque
        BY <2>10, BlankFact
      <3> QED BY <2>5, <3>1
    <2>11. CASE q = Operator(p, c, next = <<c>>)
      <3>1. PICK double \in BOOLEAN : double = (next = <<c>>)
        OBVIOUS
      <3>2. q \in ParserState /\ q.opaque = p.opaque
            /\ q.i = p.i + (IF double /\ c # ";" THEN 2 ELSE 1)
        BY <2>11, <3>1, OperatorFact
      <3> QED BY <2>5, <3>2
    <2>12. CASE q = Redirection(p, c, next = <<c>>)
      <3>1. PICK double \in BOOLEAN : double = (next = <<c>>)
        OBVIOUS
      <3>2. q \in ParserState /\ q.opaque = p.opaque
            /\ q.i = p.i + (IF c = ">" /\ double THEN 2 ELSE 1)
        BY <2>12, <3>1, RedirectionFact
      <3> QED BY <2>5, <3>2
    <2> QED BY <2>6, <2>7, <2>8, <2>9, <2>10, <2>11, <2>12 DEF Arm
  <1> QED BY <1>1, <1>2, <1>3

(* parse as a history of its loop.                                           *)
IsParse(st, l) ==
    /\ st \in [0..Len(l) -> ParserState]
    /\ st[0] = Start
    /\ \A k \in 1..Len(l) : st[k] = ParseStep(l, st[k - 1])

(* parse is a history of its turns.                                          *)
LEMMA ParseTurns ==
    ASSUME NEW l \in Word
    PROVE  \E st : IsParse(st, l) /\ Parse(l) = EndSegment(PushWord(st[Len(l)]), FALSE)
  <1>0. PICK n \in Nat : n = Len(l)
    BY LineFacts
  <1> n \in Nat
    BY <1>0
  <1> DEFINE F(f) == [k \in 0..n |-> IF k = 0 THEN Start ELSE ParseStep(l, f[k - 1])]
             g == CHOOSE f : f = F(f)
             H == [k \in 1..n |-> [y \in ParserState |-> ParseStep(l, y)]]
  <1>1. H \in [1..n -> [ParserState -> ParserState]]
    BY ParseStepFact
  <1>2. PICK st : IsHistory(st, n, ParserState, Start, H)
    <2> HIDE DEF H
    <2> QED BY <1>1, StartIsState, HistoryExists
  <1>3. ASSUME NEW k \in 1..n
        PROVE  st[k] = ParseStep(l, st[k - 1])
    <2>1. st[k - 1] \in ParserState /\ st[k] = H[k][st[k - 1]]
      <3> HIDE DEF H
      <3> QED BY <1>2 DEF IsHistory
    <2> QED BY <2>1
  <1>4. st = F(st)
    <2> HIDE DEF H
    <2> QED BY <1>2, <1>3 DEF IsHistory
  <1>5. g = F(g)
    <2> HIDE DEF F
    <2> QED BY <1>4
  <1>6. g[0] = Start /\ \A k \in 1..n : g[k - 1] \in ParserState => g[k] = H[k][g[k - 1]]
    <2> HIDE DEF g
    <2> QED BY <1>5
  <1>7. g[n] = st[n]
    <2> HIDE DEF g, H
    <2> QED BY <1>2, <1>6, StartIsState, HistoryUnique
  <1>8. Parse(l) = EndSegment(PushWord(g[n]), FALSE)
    BY <1>0 DEF Parse, Repeat
  <1> HIDE DEF g, H
  <1>9. IsParse(st, l)
    BY <1>0, <1>2, <1>3 DEF IsParse, IsHistory
  <1> QED BY <1>0, <1>7, <1>8, <1>9

(* The loop ends: as many turns as there are pieces reach the end.           *)
LEMMA ParseEnds ==
    ASSUME NEW l \in Word, NEW st, IsParse(st, l)
    PROVE  \A k \in 0..Len(l) : st[k] \in ParserState /\ st[k].i > k
  <1>0. PICK n \in Nat : n = Len(l)
    BY LineFacts
  <1>1. n \in Nat /\ \A k \in 0..n : st[k] \in ParserState /\ st[k].i \in Nat
    BY <1>0 DEF IsParse, ParserState
  <1> DEFINE P == {k \in 0..n : st[k].i > k}
  <1>2. 0 \in P
    BY <1>0, <1>1 DEF IsParse, Start
  <1>3. ASSUME NEW k \in 1..n, k - 1 \in P
        PROVE  k \in P
    <2>0. k - 1 \in 0..n /\ k \in 0..n
      BY <1>1
    <2>1. PICK p, q : p = st[k - 1] /\ q = st[k] /\ q = ParseStep(l, p)
      BY <1>0 DEF IsParse
    <2>2. p \in ParserState /\ p.i \in Nat /\ q.i \in Nat /\ p.i > k - 1
      BY <1>1, <1>3, <2>0, <2>1
    <2>3. CASE p.i > n
      <3>1. q = p
        BY <1>0, <2>1, <2>2, <2>3, ParseStepFact
      <3>2. q.i > k
        BY <1>1, <2>0, <2>2, <2>3, <3>1
      <3> QED BY <2>0, <2>1, <3>2
    <2>4. CASE ~(p.i > n)
      <3>1. p.i <= n
        BY <1>1, <2>2, <2>4
      <3>2. q.i > p.i
        BY <1>0, <2>1, <2>2, <3>1, ParseStepFact DEF Advances
      <3>3. q.i > k
        BY <2>2, <3>2
      <3> QED BY <2>0, <2>1, <3>3
    <2> QED BY <2>3, <2>4
  <1>4. \A k \in 0..n : k \in P
    <2> HIDE DEF P
    <2> QED BY <1>1, <1>2, <1>3, UpTo
  <1> QED BY <1>0, <1>1, <1>4

-----------------------------------------------------------------------------
(* parse against the shell: the contexts in which pieces are read.           *)

(* The contexts of the automaton.                                            *)
ContextNames ==
    {"plain", "single", "double", "double escape", "escape", "back", "substitution"}

(* The piece after place k, as the automaton is given it.                    *)
After(l, k) == IF k + 1 <= Len(l) THEN l[k + 1] ELSE NoName

(* A step of the automaton leads to one of them.                             *)
LEMMA NextContextIsContext ==
    ASSUME NEW c \in ContextNames, NEW piece, NEW following
    PROVE  NextContext(c, piece, following) \in ContextNames
  BY DEF NextContext, ContextNames

(* The contexts of a line: plain at first, then one step of the automaton    *)
(* per piece.                                                                *)
LEMMA ContextsFact ==
    ASSUME NEW l \in Word
    PROVE  LET ctx == Contexts(l)
           IN /\ ctx[1] = "plain"
              /\ \A k \in 1..Len(l) : ctx[k + 1] = NextContext(ctx[k], l[k], After(l, k))
  <1>0. PICK n \in Nat : n = Len(l)
    BY LineFacts
  <1> n \in Nat
    BY <1>0
  <1> DEFINE N(v, k) == NextContext(v, l[k], After(l, k))
             H == [k \in 1..n |-> [v \in ContextNames |-> N(v, k)]]
             F(f) == [k \in 1..(n + 1) |-> IF k = 1 THEN "plain" ELSE N(f[k - 1], k - 1)]
             g == CHOOSE f : f = F(f)
  <1>1. \A k \in 2..(n + 1) : (IF k <= Len(l) THEN l[k] ELSE NoName) = After(l, k - 1)
    <2> SUFFICES ASSUME NEW k \in 2..(n + 1)
                 PROVE  (IF k <= Len(l) THEN l[k] ELSE NoName) = After(l, k - 1)
      OBVIOUS
    <2>1. k - 1 + 1 = k
      OBVIOUS
    <2> QED BY <2>1 DEF After
  <1>2. Contexts(l) = g
    <2>1. \A f : [k \in 1..(n + 1) |-> IF k = 1 THEN "plain"
                    ELSE NextContext(f[k - 1], l[k - 1], IF k <= Len(l) THEN l[k] ELSE NoName)]
                 = F(f)
      <3>1. \A k \in 1..(n + 1) : k # 1 => k \in 2..(n + 1)
        OBVIOUS
      <3> QED BY <1>1, <3>1
    <2> QED BY <1>0, <2>1 DEF Contexts
  <1>3. \A k \in 1..n, v \in ContextNames : N(v, k) \in ContextNames
    BY NextContextIsContext
  <1> HIDE DEF N
  <1>4. H \in [1..n -> [ContextNames -> ContextNames]] /\ "plain" \in ContextNames
    BY <1>3 DEF ContextNames
  <1>5. PICK st : IsHistory(st, n, ContextNames, "plain", H)
    <2> HIDE DEF H
    <2> QED BY <1>4, HistoryExists
  <1>6. st[0] = "plain" /\ \A k \in 1..n : st[k] = N(st[k - 1], k)
    <2>1. ASSUME NEW k \in 1..n
          PROVE  st[k] = N(st[k - 1], k)
      <3>1. st[k - 1] \in ContextNames /\ st[k] = H[k][st[k - 1]]
        <4> HIDE DEF H
        <4> QED BY <1>5 DEF IsHistory
      <3> QED BY <3>1
    <2> HIDE DEF H
    <2> QED BY <1>5, <2>1 DEF IsHistory
  <1> DEFINE h == [k \in 1..(n + 1) |-> st[k - 1]]
  <1> HIDE DEF H
  <1>7. h = F(h)
    <2>1. h[1] = "plain"
      <3>1. 1 \in 1..(n + 1) /\ 1 - 1 = 0
        OBVIOUS
      <3> QED BY <1>6, <3>1
    <2>2. ASSUME NEW k \in 1..(n + 1), k # 1
          PROVE  h[k] = N(h[k - 1], k - 1)
      <3>1. PICK m \in 1..n : m = k - 1 /\ m \in 1..(n + 1)
        BY <2>2
      <3>2. h[k] = st[m] /\ h[m] = st[m - 1]
        BY <3>1
      <3>3. st[m] = N(st[m - 1], m)
        BY <1>6, <3>1
      <3> QED BY <3>1, <3>2, <3>3
    <2>3. h = [k \in 1..(n + 1) |-> h[k]]
      OBVIOUS
    <2> HIDE DEF h
    <2> QED BY <2>1, <2>2, <2>3
  <1>8. g = F(g)
    <2> HIDE DEF F, h
    <2> QED BY <1>7
  <1> HIDE DEF g, h
  <1>9. g[1] = "plain"
    BY <1>8
  <1>10. ASSUME NEW k \in 1..n
         PROVE  g[k + 1] = N(g[k], k)
    <2>1. k + 1 \in 1..(n + 1) /\ k + 1 # 1 /\ k + 1 - 1 = k
      OBVIOUS
    <2>2. g[k + 1] = N(g[k + 1 - 1], k + 1 - 1)
      BY <1>8, <2>1
    <2> QED BY <2>1, <2>2
  <1> QED BY <1>0, <1>2, <1>9, <1>10 DEF N

(* Induction from a to b.                                                    *)
LEMMA Between ==
    ASSUME NEW a \in Nat, NEW b \in Nat, NEW P, a \in P,
           \A k \in (a + 1)..b : k - 1 \in P => k \in P
    PROVE  \A k \in a..b : k \in P
  <1>1. CASE b < a
    BY <1>1
  <1>2. CASE a <= b
    <2>1. PICK n \in Nat : n = b - a
      BY <1>2
    <2> n \in Nat
      BY <2>1
    <2> DEFINE Q == {m \in 0..n : a + m \in P}
    <2>2. 0 \in Q
      <3>1. a + 0 = a
        OBVIOUS
      <3> QED BY <3>1
    <2>3. ASSUME NEW m \in 1..n, m - 1 \in Q
          PROVE  m \in Q
      <3>1. a + m \in (a + 1)..b /\ a + m - 1 = a + (m - 1) /\ m \in 0..n
        BY <2>1
      <3>2. a + (m - 1) \in P
        BY <2>3
      <3>3. a + m \in P
        BY <3>1, <3>2
      <3> QED BY <3>1, <3>3
    <2>4. \A m \in 0..n : m \in Q
      <3> HIDE DEF Q
      <3> QED BY <2>2, <2>3, UpTo
    <2>5. ASSUME NEW k \in a..b
          PROVE  k \in P
      <3>1. k - a \in 0..n /\ a + (k - a) = k
        BY <2>1
      <3>2. k - a \in Q
        BY <2>4, <3>1
      <3> QED BY <3>1, <3>2
    <2> QED BY <2>5
  <1> QED BY <1>1, <1>2

(* What opens a context, outside all others.                                 *)
LEMMA Opens ==
    ASSUME NEW c, c = "plain", NEW piece, NEW following
    PROVE  /\ piece = SingleQuote => NextContext(c, piece, following) = "single"
           /\ piece = DoubleQuote => NextContext(c, piece, following) = "double"
           /\ piece = Backslash => NextContext(c, piece, following) = "escape"
  BY DEF NextContext, SingleQuote, DoubleQuote, Backslash, Backtick

(* Between single quotes.                                                    *)
LEMMA SingleContext ==
    ASSUME NEW l \in Word, NEW i \in 1..Len(l), Contexts(l)[i] = "plain", l[i] = SingleQuote,
           NEW j, j = Closing(l, i, SingleQuote)
    PROVE  /\ \A m \in (i + 1)..j : Contexts(l)[m] = "single"
           /\ j <= Len(l) => Contexts(l)[j + 1] = "plain"
  <1>0. PICK n, ctx : n \in Nat /\ n = Len(l) /\ ctx = Contexts(l)
    BY LineFacts
  <1>1. j \in (i + 1)..(n + 1) /\ (j <= n => l[j] = SingleQuote)
        /\ \A m \in (i + 1)..(j - 1) : l[m] # SingleQuote
    BY <1>0, ClosingFact
  <1>2. n \in Nat /\ i \in Nat /\ j \in Nat /\ i + 1 \in Nat
    BY <1>0, <1>1
  <1>3. \A k \in 1..n : ctx[k + 1] = NextContext(ctx[k], l[k], After(l, k))
    BY <1>0, ContextsFact
  <1>4. ctx[i + 1] = "single"
    <2>1. i \in 1..n
      BY <1>0
    <2>2. ctx[i + 1] = NextContext(ctx[i], l[i], After(l, i)) /\ ctx[i] = "plain"
      BY <1>0, <1>3, <2>1
    <2> QED BY <2>2, Opens
  <1>5. ASSUME NEW m \in (i + 2)..j, ctx[m - 1] = "single"
        PROVE  ctx[m] = "single"
    <2>1. m - 1 \in 1..n /\ m - 1 \in (i + 1)..(j - 1) /\ m - 1 + 1 = m
      BY <1>1, <1>2
    <2>2. l[m - 1] # SingleQuote
      BY <1>1, <2>1
    <2>3. ctx[m - 1 + 1] = NextContext(ctx[m - 1], l[m - 1], After(l, m - 1))
      BY <1>3, <2>1
    <2> QED BY <1>5, <2>1, <2>2, <2>3 DEF NextContext
  <1>6. \A m \in (i + 1)..j : ctx[m] = "single"
    <2> DEFINE P == {m \in (i + 1)..j : ctx[m] = "single"}
    <2>1. i + 1 \in P
      BY <1>1, <1>2, <1>4
    <2>2. ASSUME NEW k \in (i + 1 + 1)..j, k - 1 \in P
          PROVE  k \in P
      <3>1. k \in (i + 2)..j /\ k \in (i + 1)..j
        BY <1>2
      <3> QED BY <1>5, <2>2, <3>1
    <2>3. \A k \in (i + 1)..j : k \in P
      <3> HIDE DEF P
      <3> QED BY <1>2, <2>1, <2>2, Between
    <2> QED BY <2>3
  <1>7. j <= n => ctx[j + 1] = "plain"
    <2> SUFFICES ASSUME j <= n PROVE ctx[j + 1] = "plain"
      OBVIOUS
    <2>1. j \in 1..n /\ j \in (i + 1)..j
      BY <1>1, <1>2
    <2>2. ctx[j] = "single" /\ l[j] = SingleQuote
      BY <1>1, <1>6, <2>1
    <2>3. ctx[j + 1] = NextContext(ctx[j], l[j], After(l, j))
      BY <1>3, <2>1
    <2> QED BY <2>2, <2>3 DEF NextContext
  <1> QED BY <1>0, <1>6, <1>7

(* Between double quotes: what a backslash hides is in a context of its own. *)
LEMMA DoubleContext ==
    ASSUME NEW l \in Word, NEW i \in 1..Len(l), Contexts(l)[i] = "plain", l[i] = DoubleQuote,
           NEW j, j = DoubleEnd(l, i)
    PROVE  /\ \A m \in (i + 1)..j : Contexts(l)[m] \in {"double", "double escape"}
           /\ j <= Len(l) => Contexts(l)[j + 1] = "plain"
  <1>0. PICK n, ctx : n \in Nat /\ n = Len(l) /\ ctx = Contexts(l)
    BY LineFacts
  <1>1. j \in (i + 1)..(n + 1) /\ (j <= n => l[j] = DoubleQuote /\ ~Hidden(l, i, j))
        /\ \A m \in (i + 1)..(j - 1) : ~(l[m] = DoubleQuote /\ ~Hidden(l, i, m))
    BY <1>0, DoubleEndFact
  <1>2. n \in Nat /\ i \in Nat /\ j \in Nat /\ i + 1 \in Nat
    BY <1>0, <1>1
  <1>3. \A k \in 1..n : ctx[k + 1] = NextContext(ctx[k], l[k], After(l, k))
    BY <1>0, ContextsFact
  <1>h. ~Hidden(l, i, i + 1)
        /\ \A k \in (i + 1)..n : Hidden(l, i, k + 1) <=> l[k] = Backslash /\ ~Hidden(l, i, k)
    BY <1>0, HiddenFact
  <1> DEFINE In(m) == IF Hidden(l, i, m) THEN "double escape" ELSE "double"
  <1>4. ctx[i + 1] = In(i + 1)
    <2>1. i \in 1..n
      BY <1>0
    <2>2. ctx[i + 1] = NextContext(ctx[i], l[i], After(l, i)) /\ ctx[i] = "plain"
      BY <1>0, <1>3, <2>1
    <2>3. ctx[i + 1] = "double"
      BY <2>2, Opens
    <2> QED BY <1>h, <2>3
  <1>5. ASSUME NEW m \in (i + 2)..j, ctx[m - 1] = In(m - 1)
        PROVE  ctx[m] = In(m)
    <2>1. m - 1 \in 1..n /\ m - 1 \in (i + 1)..(j - 1) /\ m - 1 \in (i + 1)..n /\ m - 1 + 1 = m
      BY <1>1, <1>2
    <2>2. ~(l[m - 1] = DoubleQuote /\ ~Hidden(l, i, m - 1))
      BY <1>1, <2>1
    <2>3. ctx[m - 1 + 1] = NextContext(ctx[m - 1], l[m - 1], After(l, m - 1))
      BY <1>3, <2>1
    <2>4. Hidden(l, i, m - 1 + 1) <=> l[m - 1] = Backslash /\ ~Hidden(l, i, m - 1)
      BY <1>h, <2>1
    <2> QED BY <1>5, <2>1, <2>2, <2>3, <2>4 DEF NextContext
  <1>6. \A m \in (i + 1)..j : ctx[m] = In(m)
    <2> DEFINE P == {m \in (i + 1)..j : ctx[m] = In(m)}
    <2>0. i + 1 \in (i + 1)..j
      BY <1>1, <1>2
    <2>1. i + 1 \in P
      <3> HIDE DEF In
      <3> QED BY <1>4, <2>0
    <2>2. ASSUME NEW k \in (i + 1 + 1)..j, k - 1 \in P
          PROVE  k \in P
      <3>1. k \in (i + 2)..j /\ k \in (i + 1)..j
        BY <1>2
      <3> HIDE DEF In
      <3> QED BY <1>5, <2>2, <3>1
    <2>3. \A k \in (i + 1)..j : k \in P
      <3> HIDE DEF P
      <3> QED BY <1>2, <2>1, <2>2, Between
    <2> HIDE DEF In
    <2> QED BY <2>3
  <1>7. j <= n => ctx[j + 1] = "plain"
    <2> SUFFICES ASSUME j <= n PROVE ctx[j + 1] = "plain"
      OBVIOUS
    <2>1. j \in 1..n /\ j \in (i + 1)..j
      BY <1>1, <1>2
    <2>2. ctx[j] = "double" /\ l[j] = DoubleQuote
      BY <1>1, <1>6, <2>1
    <2>3. ctx[j + 1] = NextContext(ctx[j], l[j], After(l, j))
      BY <1>3, <2>1
    <2> QED BY <2>2, <2>3 DEF NextContext
  <1> QED BY <1>0, <1>6, <1>7

(* A substitution that the automaton sees at place k.                        *)
Substitutes(l, k) ==
    \/ l[k] = "$" /\ k < Len(l) /\ l[k + 1] = "(" /\ Contexts(l)[k] \in {"plain", "double"}
    \/ l[k] = Backtick /\ Contexts(l)[k] = "plain"

(* What parse has noticed before place i, given it is not opaque: the shell  *)
(* is outside quotes there, and it has passed no substitution.               *)
Clear(l, i) ==
    /\ i <= Len(l) => Contexts(l)[i] = "plain"
    /\ \A k \in 1..Len(l) : k < i => ~Substitutes(l, k)

(* From one place to a later one.                                            *)
LEMMA ClearOn ==
    ASSUME NEW l \in Word, NEW i \in Nat, NEW j \in Nat, Clear(l, i),
           j <= Len(l) => Contexts(l)[j] = "plain",
           \A k \in i..(j - 1) : k <= Len(l) => ~Substitutes(l, k)
    PROVE  Clear(l, j)
  <1>1. ASSUME NEW k \in 1..Len(l), k < j
        PROVE  ~Substitutes(l, k)
    <2>0. Len(l) \in Nat
      BY LineFacts
    <2>1. CASE k < i
      BY <2>1 DEF Clear
    <2>2. CASE ~(k < i)
      <3>1. k \in i..(j - 1) /\ k <= Len(l)
        BY <1>1, <2>0, <2>2
      <3> QED BY <3>1
    <2> QED BY <2>1, <2>2
  <1> QED BY <1>1 DEF Clear

(* A piece that opens nothing.                                               *)
LEMMA PlainPiece ==
    ASSUME NEW l \in Word, NEW i \in 1..Len(l), Clear(l, i),
           l[i] \notin {SingleQuote, DoubleQuote, Backslash, Backtick},
           ~(l[i] = "$" /\ i < Len(l) /\ l[i + 1] = "(")
    PROVE  Clear(l, i + 1) /\ Contexts(l)[i + 1] = "plain"
  <1>1. Len(l) \in Nat /\ i \in Nat /\ i + 1 \in Nat
    BY LineFacts
  <1>2. Contexts(l)[i] = "plain"
    BY <1>1 DEF Clear
  <1>3. Contexts(l)[i + 1] = NextContext("plain", l[i], After(l, i))
    BY <1>2, ContextsFact
  <1>4. ~(l[i] = "$" /\ After(l, i) = "(")
    BY <1>1 DEF After, NoName
  <1>5. Contexts(l)[i + 1] = "plain"
    BY <1>3, <1>4 DEF NextContext
  <1>6. ~Substitutes(l, i)
    BY DEF Substitutes
  <1>7. \A k \in i..(i + 1 - 1) : k = i
    BY <1>1
  <1> QED BY <1>1, <1>5, <1>6, <1>7, ClearOn

(* One turn of the loop keeps track: either the line is opaque, or nothing   *)
(* that substitutes has been passed.                                         *)
LEMMA StepTracks ==
    ASSUME NEW l \in Word, NEW p \in ParserState, p.opaque \/ Clear(l, p.i)
    PROVE  ParseStep(l, p).opaque \/ Clear(l, ParseStep(l, p).i)
  <1>1. Len(l) \in Nat /\ p.i \in Nat /\ p.i >= 1
    BY LineFacts DEF ParserState
  <1>2. CASE p.i > Len(l) \/ p.opaque
    BY <1>1, <1>2, ParseStepFact DEF Advances
  <1>3. CASE p.i <= Len(l) /\ Clear(l, p.i)
    <2>1. PICK i \in 1..Len(l) : i = p.i
      BY <1>1, <1>3
    <2>2. PICK q, c, next : q = ParseStep(l, p) /\ c = l[i] /\ next = Following(l, i)
      OBVIOUS
    <2>3. Arm(l, p, c, next, q)
      BY <2>1, <2>2, ParseArms
    <2>4. i \in Nat /\ Clear(l, i) /\ Contexts(l)[i] = "plain"
      BY <1>1, <1>3, <2>1 DEF Clear
    <2>5. CASE c = SingleQuote /\ q = SingleQuoted(l, p)
      <3>1. PICK j : j = Closing(l, i, SingleQuote)
        OBVIOUS
      <3>2. q.i = j + 1
        BY <2>1, <2>5, <3>1, SingleQuotedFact
      <3>3. (\A m \in (i + 1)..j : Contexts(l)[m] = "single")
            /\ (j <= Len(l) => Contexts(l)[j + 1] = "plain")
        BY <2>2, <2>4, <2>5, <3>1, SingleContext
      <3>4. j \in (i + 1)..(Len(l) + 1)
        BY <3>1, ClosingFact
      <3>5. ASSUME NEW k \in i..(j + 1 - 1)
            PROVE  ~Substitutes(l, k)
        <4>1. CASE k = i
          BY <2>2, <2>5, <4>1 DEF Substitutes, SingleQuote, Backtick
        <4>2. CASE k # i
          <5>1. k \in (i + 1)..j
            BY <1>1, <2>4, <3>4, <4>2
          <5> QED BY <3>3, <5>1 DEF Substitutes
        <4> QED BY <4>1, <4>2
      <3>6. j + 1 \in Nat /\ (j + 1 <= Len(l) => j <= Len(l))
        BY <1>1, <2>4, <3>4
      <3>7. Clear(l, j + 1)
        <4>1. PICK m \in Nat : m = j + 1 /\ i..(m - 1) = i..(j + 1 - 1)
          BY <2>4, <3>4, <3>6
        <4>2. \A k \in i..(m - 1) : ~Substitutes(l, k)
          BY <3>5, <4>1
        <4>3. m <= Len(l) => Contexts(l)[m] = "plain"
          BY <3>3, <3>6, <4>1
        <4> QED BY <2>4, <4>1, <4>2, <4>3, ClearOn
      <3> QED BY <2>2, <3>2, <3>7
    <2>6. CASE c = DoubleQuote /\ q = DoubleQuoted(l, p)
      <3>1. PICK j : j = DoubleEnd(l, i)
        OBVIOUS
      <3>2. q.i = j + 1
            /\ ((\E k \in (i + 1)..(j - 1) : l[k] = "$" /\ k < Len(l) /\ l[k + 1] = "(") => q.opaque)
        BY <2>1, <2>6, <3>1, DoubleQuotedFact
      <3>3. (\A m \in (i + 1)..j : Contexts(l)[m] \in {"double", "double escape"})
            /\ (j <= Len(l) => Contexts(l)[j + 1] = "plain")
        BY <2>2, <2>4, <2>6, <3>1, DoubleContext
      <3>4. j \in (i + 1)..(Len(l) + 1) /\ (j <= Len(l) => l[j] = DoubleQuote)
        BY <3>1, DoubleEndFact
      <3>5. ASSUME NEW k \in i..(j + 1 - 1), k <= Len(l), ~q.opaque
            PROVE  ~Substitutes(l, k)
        <4>1. CASE k = i
          BY <2>2, <2>6, <4>1 DEF Substitutes, DoubleQuote, Backtick
        <4>2. CASE k # i
          <5>1. k \in (i + 1)..j /\ (k = j \/ k \in (i + 1)..(j - 1))
            BY <1>1, <2>4, <3>4, <4>2
          <5>2. Contexts(l)[k] # "plain"
            BY <3>3, <5>1
          <5>3. CASE k = j
            BY <3>4, <3>5, <5>2, <5>3 DEF Substitutes, DoubleQuote
          <5>4. CASE k \in (i + 1)..(j - 1)
            BY <3>2, <3>5, <5>2, <5>4 DEF Substitutes
          <5> QED BY <5>1, <5>3, <5>4
        <4> QED BY <4>1, <4>2
      <3>6. j + 1 \in Nat /\ (j + 1 <= Len(l) => j <= Len(l))
        BY <1>1, <2>4, <3>4
      <3>7. ~q.opaque => Clear(l, j + 1)
        <4>1. PICK m \in Nat : m = j + 1 /\ i..(m - 1) = i..(j + 1 - 1)
          BY <2>4, <3>4, <3>6
        <4>2. ~q.opaque => \A k \in i..(m - 1) : k <= Len(l) => ~Substitutes(l, k)
          BY <3>5, <4>1
        <4>3. m <= Len(l) => Contexts(l)[m] = "plain"
          BY <3>3, <3>6, <4>1
        <4> QED BY <2>4, <4>1, <4>2, <4>3, ClearOn
      <3> QED BY <2>2, <3>2, <3>7
    <2>7. CASE c = Backslash /\ next # <<>> /\ q = Take(p, next, p.i + 2)
      <3>1. i < Len(l) /\ next = <<l[i + 1]>>
        BY <2>2, <2>7 DEF Following
      <3>2. i + 1 \in 1..Len(l)
        BY <1>1, <2>4, <3>1
      <3>3. q.i = i + 2
        <4>1. next \in Word
          BY <3>1, <3>2, LineFacts
        <4> QED BY <2>1, <2>7, <4>1, TakeOnFact
      <3>4. Contexts(l)[i + 1] = NextContext(Contexts(l)[i], l[i], After(l, i))
        BY ContextsFact
      <3>5. Contexts(l)[i + 1] = "escape"
        BY <2>2, <2>4, <2>7, <3>4, Opens
      <3>6. Contexts(l)[i + 1 + 1] = NextContext("escape", l[i + 1], After(l, i + 1))
        BY <3>2, <3>5, ContextsFact
      <3>7. Contexts(l)[i + 1 + 1] = "plain"
        BY <3>6 DEF NextContext
      <3>8. i + 1 + 1 = i + 2 /\ i + 2 \in Nat /\ \A k \in i..(i + 2 - 1) : k = i \/ k = i + 1
        BY <2>4
      <3>9. ~Substitutes(l, i) /\ ~Substitutes(l, i + 1)
        BY <2>2, <2>7, <3>5 DEF Substitutes, Backslash, Backtick
      <3>10. Clear(l, i + 2)
        BY <2>4, <3>7, <3>8, <3>9, ClearOn
      <3> QED BY <2>2, <3>3, <3>10
    <2>8. CASE c = "$" /\ next = <<"(">> /\ q = Substitution(l, p)
      <3>1. i < Len(l)
        <4>1. next = Following(l, i) /\ next # <<>>
          BY <2>2, <2>8
        <4> QED BY <4>1, Zenon DEF Following
      <3>2. p.i \in 1..(Len(l) - 1)
        BY <1>1, <2>1, <3>1
      <3> QED BY <2>2, <2>8, <3>2, SubstitutionFact
    <2>9. CASE c = Backtick /\ q = Backquoted(l, p)
      BY <2>1, <2>2, <2>9, BackquotedFact
    <2>10. ASSUME c \notin {SingleQuote, DoubleQuote, Backslash, Backtick, "$"}
           PROVE  /\ Clear(l, i + 1)
                  /\ next = <<c>> => Clear(l, i + 2)
      <3>1. Clear(l, i + 1)
        BY <2>2, <2>4, <2>10, PlainPiece
      <3>2. ASSUME next = <<c>>
            PROVE  Clear(l, i + 2)
        <4>1. i < Len(l) /\ l[i + 1] = c
          BY <2>2, <3>2 DEF Following
        <4>2. PICK m \in 1..Len(l) : m = i + 1
          BY <1>1, <2>4, <4>1
        <4>3. Clear(l, m + 1)
          BY <2>10, <3>1, <4>1, <4>2, PlainPiece
        <4>4. m + 1 = i + 2
          BY <2>4, <4>2
        <4> QED BY <4>3, <4>4
      <3> QED BY <3>1, <3>2
    <2>11. CASE c = Blank /\ q = [PushWord(p) EXCEPT !.i = @ + 1]
      <3>1. q.i = i + 1
        BY <2>1, <2>11, BlankFact
      <3>2. Clear(l, i + 1)
        BY <2>10, <2>11 DEF Blank, SingleQuote, DoubleQuote, Backslash, Backtick
      <3> QED BY <2>2, <3>1, <3>2
    <2>12. CASE c \in Separators /\ q = Operator(p, c, next = <<c>>)
      <3>1. PICK double \in BOOLEAN : double = (next = <<c>>)
        OBVIOUS
      <3>2. q.i = i + (IF double /\ c # ";" THEN 2 ELSE 1)
        BY <2>1, <2>12, <3>1, OperatorFact
      <3>3. Clear(l, i + 1) /\ (double => Clear(l, i + 2))
        BY <2>10, <2>12, <3>1 DEF Separators, SingleQuote, DoubleQuote, Backslash, Backtick
      <3> QED BY <2>2, <3>2, <3>3
    <2>13. CASE c \in {">", "<"} /\ q = Redirection(p, c, next = <<c>>)
      <3>1. PICK double \in BOOLEAN : double = (next = <<c>>)
        OBVIOUS
      <3>2. q.i = i + (IF c = ">" /\ double THEN 2 ELSE 1)
        BY <2>1, <2>13, <3>1, RedirectionFact
      <3>3. Clear(l, i + 1) /\ (double => Clear(l, i + 2))
        BY <2>10, <2>13, <3>1 DEF SingleQuote, DoubleQuote, Backslash, Backtick
      <3> QED BY <2>2, <3>2, <3>3
    <2>14. CASE /\ c \notin Separators \cup {SingleQuote, DoubleQuote, Backtick, Blank, ">", "<"}
                /\ ~(c = Backslash /\ next # <<>>) /\ ~(c = "$" /\ next = <<"(">>)
                /\ q = Take(p, <<c>>, p.i + 1)
      <3>1. q.i = i + 1
        <4>1. <<c>> \in Word
          BY <2>2, LineFacts
        <4> QED BY <2>1, <2>14, <4>1, TakeOnFact
      <3>2. CASE c = Backslash
        <4>1. ~(i < Len(l))
          BY <2>2, <2>14, <3>2 DEF Following
        <4>2. ~(i + 1 <= Len(l)) /\ i + 1 \in Nat /\ \A k \in i..(i + 1 - 1) : k = i
          BY <1>1, <2>4, <4>1
        <4>3. ~Substitutes(l, i)
          BY <2>2, <3>2 DEF Substitutes, Backslash, Backtick
        <4>4. Clear(l, i + 1)
          BY <2>4, <4>2, <4>3, ClearOn
        <4> QED BY <2>2, <3>1, <4>4
      <3>3. CASE c # Backslash
        <4>1. ~(l[i] = "$" /\ i < Len(l) /\ l[i + 1] = "(")
          BY <2>2, <2>14 DEF Following
        <4>2. Clear(l, i + 1)
          BY <2>2, <2>4, <2>14, <3>3, <4>1, PlainPiece
        <4> QED BY <2>2, <3>1, <4>2
      <3> QED BY <3>2, <3>3
    <2> QED BY <2>3, <2>5, <2>6, <2>7, <2>8, <2>9, <2>11, <2>12, <2>13, <2>14 DEF Arm
  <1> QED BY <1>1, <1>2, <1>3

(* So the parse of a line that substitutes anywhere is opaque.               *)
LEMMA ParseSeesSubstitutions ==
    ASSUME NEW l \in Word
    PROVE  /\ Parse(l) \in ParserState
           /\ \A k \in 1..Len(l) : Substitutes(l, k) => Parse(l).opaque
  <1>0. PICK n \in Nat : n = Len(l)
    BY LineFacts
  <1> n \in Nat
    BY <1>0
  <1>1. PICK st : IsParse(st, l) /\ Parse(l) = EndSegment(PushWord(st[n]), FALSE)
    BY <1>0, ParseTurns
  <1>2. \A k \in 0..n : st[k] \in ParserState /\ st[k].i > k
    BY <1>0, <1>1, ParseEnds
  <1> DEFINE P == {k \in 0..n : st[k].opaque \/ Clear(l, st[k].i)}
  <1>3. 0 \in P
    <2>1. st[0] = Start
      BY <1>1 DEF IsParse
    <2>2. Clear(l, 1)
      <3>1. \A k \in 1..Len(l) : ~(k < 1)
        BY <1>0
      <3> QED BY <3>1, ContextsFact DEF Clear
    <2> QED BY <2>1, <2>2 DEF Start
  <1>4. ASSUME NEW k \in 1..n, k - 1 \in P
        PROVE  k \in P
    <2>0. k - 1 \in 0..n /\ k \in 0..n
      OBVIOUS
    <2>1. PICK p : p = st[k - 1] /\ st[k] = ParseStep(l, p)
      BY <1>0, <1>1 DEF IsParse
    <2>2. p \in ParserState /\ (p.opaque \/ Clear(l, p.i))
      BY <1>2, <1>4, <2>0, <2>1
    <2>3. st[k].opaque \/ Clear(l, st[k].i)
      BY <2>1, <2>2, StepTracks
    <2> QED BY <2>0, <2>3
  <1>5. n \in P
    <2>1. n \in 0..n
      OBVIOUS
    <2> HIDE DEF P
    <2> QED BY <1>3, <1>4, <2>1, UpTo
  <1>6. PICK p : p = st[n]
    OBVIOUS
  <1>7. p \in ParserState /\ p.i > n /\ (p.opaque \/ Clear(l, p.i))
    <2>1. n \in 0..n
      OBVIOUS
    <2> QED BY <1>2, <1>5, <1>6, <2>1
  <1>8. PICK q : q = PushWord(p)
    OBVIOUS
  <1>9. q \in ParserState /\ q.opaque = p.opaque
    BY <1>7, <1>8, PushWordFact
  <1>10. Parse(l) \in ParserState /\ Parse(l).opaque = p.opaque
    BY <1>1, <1>6, <1>8, <1>9, EndSegmentFact
  <1>11. ASSUME NEW k \in 1..Len(l), Substitutes(l, k)
         PROVE  p.opaque
    <2>1. k < p.i
      BY <1>0, <1>7 DEF ParserState
    <2> QED BY <1>7, <1>11, <2>1 DEF Clear
  <1> QED BY <1>10, <1>11

-----------------------------------------------------------------------------
(* The classifier, after the parse: how verdicts on the parts of a line make *)
(* up the verdict on the line.                                               *)

(* A verdict.                                                                *)
VerdictRecord == [tier : RiskTier, reasons : BOOLEAN, impact : BOOLEAN, unknown : BOOLEAN]

(* A verdict that warns: an impact or an unknown construct is at least       *)
(* Medium.                                                                   *)
Warns(v) == v \in VerdictRecord /\ (v.impact \/ v.unknown => v.tier >= Medium)

(* The five tiers, from Safe to Critical.                                    *)
LEMMA TiersInOrder ==
    /\ {Safe, Low, Medium, High, Critical} = RiskTier
    /\ Safe < Low /\ Low < Medium /\ Medium < High /\ High < Critical
    /\ RiskTier \subseteq Nat
    /\ \A t \in RiskTier : Safe <= t /\ t <= Critical
  BY DEF RiskTier, Safe, Low, Medium, High, Critical

(* Each of them is one.                                                      *)
LEMMA TiersAreTiers ==
    /\ Safe \in RiskTier /\ Low \in RiskTier /\ Medium \in RiskTier
    /\ High \in RiskTier /\ Critical \in RiskTier
  BY TiersInOrder

(* The verdicts the tables are made of.                                      *)
LEMMA PlainVerdicts ==
    /\ Warns(Reads)
    /\ \A t \in RiskTier : Warns(Does(t)) /\ Warns(Verdict(t, FALSE, FALSE, FALSE))
    /\ \A t \in {Medium, High, Critical} :
          Warns(Harms(t)) /\ Warns(Puzzles(t)) /\ Warns(Verdict(t, TRUE, FALSE, TRUE))
  <1> USE DEF Verdict
  <1>1. ASSUME NEW t \in RiskTier, NEW reasons \in BOOLEAN
        PROVE  Warns(Verdict(t, reasons, FALSE, FALSE))
    BY DEF Warns, VerdictRecord
  <1>2. ASSUME NEW t \in {Medium, High, Critical}, NEW reasons \in BOOLEAN,
               NEW impact \in BOOLEAN, NEW unknown \in BOOLEAN
        PROVE  Warns(Verdict(t, reasons, impact, unknown))
    <2>1. t \in RiskTier /\ t >= Medium
      BY DEF RiskTier, Medium, High, Critical
    <2> QED BY <2>1 DEF Warns, VerdictRecord
  <1> HIDE DEF Verdict
  <1>3. Warns(Reads)
    BY <1>1, TiersAreTiers DEF Reads
  <1>4. \A t \in RiskTier : Warns(Does(t)) /\ Warns(Verdict(t, FALSE, FALSE, FALSE))
    BY <1>1 DEF Does
  <1>5. \A t \in {Medium, High, Critical} :
          Warns(Harms(t)) /\ Warns(Puzzles(t)) /\ Warns(Verdict(t, TRUE, FALSE, TRUE))
    BY <1>2 DEF Harms, Puzzles
  <1> QED BY <1>3, <1>4, <1>5

(* Every table of the classifier warns, whatever it is given.                *)
LEMMA TablesWarn ==
    /\ \A r, f, p \in BOOLEAN : Warns(Rm(r, f, p))
    /\ \A action : Warns(Service(action)) /\ Warns(Git(action)) /\ Warns(Ufw(action))
    /\ \A sub : Warns(SystemctlVerb(sub))
    /\ \A sub, units : Warns(Systemctl(sub, units))
    /\ \A program, sub : Warns(PackageManager(program, sub))
    /\ \A sub, op : Warns(Docker(sub, op))
  <1>1. \A r, f, p \in BOOLEAN : Warns(Rm(r, f, p))
    BY PlainVerdicts DEF Rm
  <1>2. \A action : Warns(Service(action))
    BY PlainVerdicts DEF Service
  <1>3. \A action : Warns(Git(action))
    BY PlainVerdicts, TiersAreTiers DEF Git
  <1>4. \A action : Warns(Ufw(action))
    BY PlainVerdicts DEF Ufw
  <1>5. \A sub : Warns(SystemctlVerb(sub))
    BY PlainVerdicts, TiersAreTiers DEF SystemctlVerb
  <1>6. \A sub, units : Warns(Systemctl(sub, units))
    BY <1>5, PlainVerdicts DEF Systemctl
  <1>7. \A program, sub : Warns(PackageManager(program, sub))
    BY PlainVerdicts, TiersAreTiers DEF PackageManager
  <1>8. \A sub, op : Warns(Docker(sub, op))
    BY PlainVerdicts, TiersAreTiers DEF Docker
  <1> QED BY <1>1, <1>2, <1>3, <1>4, <1>5, <1>6, <1>7, <1>8

(* So does every arm of classify_segment...                                  *)
LEMMA ProgramsWarn ==
    ASSUME NEW program, NEW seg
    PROVE  Warns(ByProgram(program, seg))
  <1>1. Warns(Dd(seg)) /\ Warns(Kill(seg)) /\ Warns(PacketFilter(seg))
    BY PlainVerdicts, TiersAreTiers DEF Dd, Kill, PacketFilter
  <1>2. Warns(Permissions(seg)) /\ Warns(WebServer(seg))
    BY PlainVerdicts, TiersAreTiers DEF Permissions, WebServer
  <1>3. Warns(Journal(seg)) /\ Warns(Sed(seg)) /\ Warns(Files(program, seg))
    BY PlainVerdicts, TiersAreTiers DEF Journal, Sed, Files
  <1>4. Warns(Rm(HasShortFlag(seg, {"r", "R"}) \/ HasFlag(seg, {"--recursive"}),
                 HasShortFlag(seg, {"f"}) \/ HasFlag(seg, {"--force"}), HitsProtected(seg)))
    BY TablesWarn DEF HitsProtected
  <1> QED BY <1>1, <1>2, <1>3, <1>4, TablesWarn, PlainVerdicts, TiersAreTiers DEF ByProgram

(* ... and so do segments and the targets of redirections.                   *)
LEMMA PartsWarn ==
    /\ \A seg \in Segment : Warns(ClassifySegment(seg))
    /\ \A path, protected : Warns(ClassifyTarget(path, protected))
  <1>1. ASSUME NEW seg \in Segment
        PROVE  Warns(ClassifySegment(seg))
    <2>1. PICK v : v = ByProgram(Program(seg), seg)
      OBVIOUS
    <2>2. Warns(v)
      BY <2>1, ProgramsWarn
    <2>3. Warns([v EXCEPT !.reasons = @ \/ seg.elevated])
      BY <2>2 DEF Warns, VerdictRecord, Segment
    <2> QED BY <2>1, <2>3, PlainVerdicts DEF ClassifySegment
  <1>2. \A path, protected : Warns(ClassifyTarget(path, protected))
    BY PlainVerdicts, TiersAreTiers DEF ClassifyTarget
  <1> QED BY <1>1, <1>2

(* A set of tiers has a highest one.                                         *)
LEMMA HighestTier ==
    ASSUME NEW S \in SUBSET RiskTier, S # {}
    PROVE  Max(S) \in S /\ \A t \in S : t <= Max(S)
  <1>1. \E x \in S : \A y \in S : x >= y
    <2>1. \A t \in S : t \in {0, 1, 2, 3, 4}
      BY DEF RiskTier
    <2>2. CASE 4 \in S
      BY <2>1, <2>2
    <2>3. CASE 4 \notin S /\ 3 \in S
      BY <2>1, <2>3
    <2>4. CASE 4 \notin S /\ 3 \notin S /\ 2 \in S
      BY <2>1, <2>4
    <2>5. CASE 4 \notin S /\ 3 \notin S /\ 2 \notin S /\ 1 \in S
      BY <2>1, <2>5
    <2>6. CASE 4 \notin S /\ 3 \notin S /\ 2 \notin S /\ 1 \notin S
      BY <2>1, <2>6
    <2> QED BY <2>2, <2>3, <2>4, <2>5, <2>6
  <1>2. Max(S) \in S /\ \A y \in S : Max(S) >= y
    BY <1>1 DEF Max
  <1>3. \A t \in S : t \in Nat
    BY DEF RiskTier
  <1> QED BY <1>2, <1>3

(* The verdicts on the parts of a parsed line.                               *)
VerdictsOf(p, piped) ==
    (IF p.opaque THEN <<Verdict(Medium, TRUE, FALSE, TRUE)>> ELSE <<>>)
    \o (IF piped THEN <<Harms(Critical)>> ELSE <<>>)
    \o [k \in DOMAIN p.segments |-> ClassifySegment(p.segments[k])]
    \o [k \in DOMAIN p.targets |->
           ClassifyTarget(PathOf(p.targets[k]), IsProtected(p.targets[k]))]

(* Each of them is the verdict on something that stands in the line.         *)
IsPart(v, p, piped) ==
    \/ p.opaque /\ v = Verdict(Medium, TRUE, FALSE, TRUE)
    \/ piped /\ v = Harms(Critical)
    \/ \E k \in DOMAIN p.segments : v = ClassifySegment(p.segments[k])
    \/ \E k \in DOMAIN p.targets :
          v = ClassifyTarget(PathOf(p.targets[k]), IsProtected(p.targets[k]))

(* A sequence of one, or of none.                                            *)
LEMMA OneOrNone ==
    ASSUME NEW W, NEW w \in W, NEW c \in BOOLEAN
    PROVE  /\ (IF c THEN <<w>> ELSE <<>>) \in Seq(W)
           /\ c => w \in Range(IF c THEN <<w>> ELSE <<>>)
           /\ \A v \in Range(IF c THEN <<w>> ELSE <<>>) : c /\ v = w
  <1>1. CASE c
    <2>1. <<w>> \in Seq(W) /\ DOMAIN <<w>> = {1} /\ <<w>>[1] = w
      OBVIOUS
    <2>2. w \in Range(<<w>>) /\ \A v \in Range(<<w>>) : v = w
      BY <2>1 DEF Range
    <2> QED BY <1>1, <2>1, <2>2
  <1>2. CASE ~c
    <2>1. PICK e : e = <<>>
      OBVIOUS
    <2>2. e \in Seq(W) /\ DOMAIN e = {}
      BY <2>1
    <2>3. Range(e) = {}
      BY <2>2 DEF Range
    <2> QED BY <1>2, <2>1, <2>2, <2>3
  <1> QED BY <1>1, <1>2

(* Every one of them warns, and each part of the line has its own.           *)
LEMMA VerdictsFact ==
    ASSUME NEW p \in ParserState, NEW piped \in BOOLEAN
    PROVE  /\ \A v \in Range(VerdictsOf(p, piped)) : Warns(v) /\ IsPart(v, p, piped)
           /\ p.opaque => Verdict(Medium, TRUE, FALSE, TRUE) \in Range(VerdictsOf(p, piped))
           /\ piped => Harms(Critical) \in Range(VerdictsOf(p, piped))
           /\ \A k \in DOMAIN p.segments :
                 ClassifySegment(p.segments[k]) \in Range(VerdictsOf(p, piped))
           /\ \A k \in DOMAIN p.targets :
                 ClassifyTarget(PathOf(p.targets[k]), IsProtected(p.targets[k]))
                    \in Range(VerdictsOf(p, piped))
  <1> DEFINE W == {v \in VerdictRecord : Warns(v)}
             s1 == IF p.opaque THEN <<Verdict(Medium, TRUE, FALSE, TRUE)>> ELSE <<>>
             s2 == IF piped THEN <<Harms(Critical)>> ELSE <<>>
             s3 == [k \in DOMAIN p.segments |-> ClassifySegment(p.segments[k])]
             s4 == [k \in DOMAIN p.targets |->
                       ClassifyTarget(PathOf(p.targets[k]), IsProtected(p.targets[k]))]
  <1>1. \A v : Warns(v) => v \in W
    BY DEF Warns
  <1>2. /\ p.segments \in Seq(Segment) /\ p.targets \in Seq(Seq(STRING))
        /\ p.opaque \in BOOLEAN
    BY DEF ParserState, Words
  <1>3. /\ s1 \in Seq(W)
        /\ p.opaque => Verdict(Medium, TRUE, FALSE, TRUE) \in Range(s1)
        /\ \A v \in Range(s1) : p.opaque /\ v = Verdict(Medium, TRUE, FALSE, TRUE)
    <2>1. PICK w : w = Verdict(Medium, TRUE, FALSE, TRUE)
      OBVIOUS
    <2>2. w \in W
      BY <1>1, <2>1, PlainVerdicts
    <2> HIDE DEF W
    <2> QED BY <1>2, <2>1, <2>2, OneOrNone
  <1>4. /\ s2 \in Seq(W) /\ (piped => Harms(Critical) \in Range(s2))
        /\ \A v \in Range(s2) : piped /\ v = Harms(Critical)
    <2>1. PICK w : w = Harms(Critical)
      OBVIOUS
    <2>2. w \in W
      BY <1>1, <2>1, PlainVerdicts
    <2> HIDE DEF W
    <2> QED BY <2>1, <2>2, OneOrNone
  <1>5. /\ s3 \in Seq(W)
        /\ \A k \in DOMAIN p.segments : ClassifySegment(p.segments[k]) \in Range(s3)
        /\ \A v \in Range(s3) : \E k \in DOMAIN p.segments : v = ClassifySegment(p.segments[k])
    <2>1. DOMAIN p.segments = 1..Len(p.segments) /\ Len(p.segments) \in Nat
      BY <1>2
    <2>2. \A k \in DOMAIN p.segments : ClassifySegment(p.segments[k]) \in W
      BY <1>1, <1>2, PartsWarn
    <2> HIDE DEF W
    <2>3. s3 \in Seq(W)
      BY <2>1, <2>2
    <2>4. DOMAIN s3 = DOMAIN p.segments /\ \A k \in DOMAIN s3 : s3[k] = ClassifySegment(p.segments[k])
      OBVIOUS
    <2> HIDE DEF s3
    <2> QED BY <2>3, <2>4 DEF Range
  <1>6. /\ s4 \in Seq(W)
        /\ \A k \in DOMAIN p.targets :
              ClassifyTarget(PathOf(p.targets[k]), IsProtected(p.targets[k])) \in Range(s4)
        /\ \A v \in Range(s4) : \E k \in DOMAIN p.targets :
              v = ClassifyTarget(PathOf(p.targets[k]), IsProtected(p.targets[k]))
    <2>1. DOMAIN p.targets = 1..Len(p.targets) /\ Len(p.targets) \in Nat
      BY <1>2
    <2>2. \A k \in DOMAIN p.targets :
             ClassifyTarget(PathOf(p.targets[k]), IsProtected(p.targets[k])) \in W
      BY <1>1, PartsWarn
    <2> HIDE DEF W
    <2>3. s4 \in Seq(W)
      BY <2>1, <2>2
    <2>4. /\ DOMAIN s4 = DOMAIN p.targets
          /\ \A k \in DOMAIN s4 :
                s4[k] = ClassifyTarget(PathOf(p.targets[k]), IsProtected(p.targets[k]))
      OBVIOUS
    <2> HIDE DEF s4
    <2> QED BY <2>3, <2>4 DEF Range
  <1>7. VerdictsOf(p, piped) = s1 \o s2 \o s3 \o s4
    BY DEF VerdictsOf
  <1> HIDE DEF s1, s2, s3, s4, W
  <1>8. s1 \o s2 \in Seq(W) /\ Range(s1 \o s2) = Range(s1) \cup Range(s2)
    BY <1>3, <1>4, ConcatProperties, RangeConcatenation
  <1>9. s1 \o s2 \o s3 \in Seq(W) /\ Range(s1 \o s2 \o s3) = Range(s1 \o s2) \cup Range(s3)
    <2>1. PICK t : t = s1 \o s2
      OBVIOUS
    <2>2. t \in Seq(W)
      BY <1>8, <2>1
    <2>3. t \o s3 \in Seq(W) /\ Range(t \o s3) = Range(t) \cup Range(s3)
      BY <1>5, <2>2, ConcatProperties, RangeConcatenation
    <2> QED BY <2>1, <2>3
  <1>10. /\ s1 \o s2 \o s3 \o s4 \in Seq(W)
         /\ Range(s1 \o s2 \o s3 \o s4) = Range(s1 \o s2 \o s3) \cup Range(s4)
    <2>1. PICK t : t = s1 \o s2 \o s3
      OBVIOUS
    <2>2. t \in Seq(W)
      BY <1>9, <2>1
    <2>3. t \o s4 \in Seq(W) /\ Range(t \o s4) = Range(t) \cup Range(s4)
      BY <1>6, <2>2, ConcatProperties, RangeConcatenation
    <2> QED BY <2>1, <2>3
  <1>11. \A v \in Range(VerdictsOf(p, piped)) : v \in W
    BY <1>7, <1>10, RangeOfSeq
  <1>12. \A v \in W : Warns(v)
    BY DEF W
  <1>13. \A v \in Range(VerdictsOf(p, piped)) : IsPart(v, p, piped)
    <2> SUFFICES ASSUME NEW v \in Range(VerdictsOf(p, piped)) PROVE IsPart(v, p, piped)
      OBVIOUS
    <2>1. v \in Range(s1) \/ v \in Range(s2) \/ v \in Range(s3) \/ v \in Range(s4)
      BY <1>7, <1>8, <1>9, <1>10
    <2> QED BY <1>3, <1>4, <1>5, <1>6, <2>1 DEF IsPart
  <1> QED BY <1>3, <1>4, <1>5, <1>6, <1>7, <1>8, <1>9, <1>10, <1>11, <1>12, <1>13

(* The verdict on a line, for any parse: it is as bad as its worst command   *)
(* and its worst redirection, no worse than one of its parts, Critical when  *)
(* a download is piped into a shell; a construct that could not be read is   *)
(* reported, and whatever is reported as unknown or as an impact is at least *)
(* Medium. This is what WorstSegmentWins and UnreadableIsNotSafe say of      *)
(* classify once a line is parsed (risk.rs classify, classify_segment).      *)
THEOREM WorstPartDecides ==
    ASSUME NEW p \in ParserState
    PROVE  LET a == AssessParsed(p)
               piped == PipesDownloadIntoShell(p.segments)
           IN /\ \A k \in DOMAIN p.segments : ClassifySegment(p.segments[k]).tier <= a.tier
              /\ \A k \in DOMAIN p.targets :
                    ClassifyTarget(PathOf(p.targets[k]), IsProtected(p.targets[k])).tier <= a.tier
              /\ a.tier = Safe \/ \E v \in Range(VerdictsOf(p, piped)) : a.tier = v.tier
              /\ piped => a.tier = Critical
              /\ p.opaque => a.unknown
              /\ a.unknown \/ a.impact => a.tier >= Medium
  <1>1. PICK piped \in BOOLEAN : piped = PipesDownloadIntoShell(p.segments)
    BY DEF PipesDownloadIntoShell
  <1>2. PICK V : V = Range(VerdictsOf(p, piped))
    OBVIOUS
  <1>3. PICK a : a = AssessParsed(p)
    OBVIOUS
  <1> DEFINE S == {Safe} \cup {v.tier : v \in V}
  <1>4. /\ a.tier = Max(S)
        /\ a.impact = \E v \in V : v.impact
        /\ a.unknown = \E v \in V : v.unknown
    BY <1>1, <1>2, <1>3 DEF AssessParsed, Assess, Summarize, VerdictsOf, Worst
  <1>5. /\ \A v \in V : Warns(v)
        /\ p.opaque => Verdict(Medium, TRUE, FALSE, TRUE) \in V
        /\ piped => Harms(Critical) \in V
        /\ \A k \in DOMAIN p.segments : ClassifySegment(p.segments[k]) \in V
        /\ \A k \in DOMAIN p.targets :
              ClassifyTarget(PathOf(p.targets[k]), IsProtected(p.targets[k])) \in V
    BY <1>2, VerdictsFact
  <1>6. S \in SUBSET RiskTier /\ S # {}
    BY <1>5, TiersAreTiers DEF Warns, VerdictRecord
  <1>7. a.tier \in S /\ \A t \in S : t <= a.tier
    BY <1>4, <1>6, HighestTier
  <1>8. a.tier \in RiskTier /\ \A v \in V : v.tier <= a.tier
    BY <1>6, <1>7
  <1>9. a.tier = Safe \/ \E v \in V : a.tier = v.tier
    BY <1>7
  <1>10. piped => a.tier = Critical
    <2>1. Harms(Critical).tier = Critical
      BY DEF Harms, Verdict
    <2> QED BY <1>5, <1>8, <2>1 DEF RiskTier, Critical
  <1>11. p.opaque => a.unknown
    <2>1. Verdict(Medium, TRUE, FALSE, TRUE).unknown
      BY DEF Verdict
    <2> QED BY <1>4, <1>5, <2>1
  <1>12. a.unknown \/ a.impact => a.tier >= Medium
    <2> SUFFICES ASSUME NEW v \in V, v.unknown \/ v.impact
                 PROVE  a.tier >= Medium
      BY <1>4
    <2>1. v.tier >= Medium /\ v.tier \in RiskTier
      BY <1>5 DEF Warns, VerdictRecord
    <2>2. v.tier <= a.tier
      BY <1>8
    <2> QED BY <1>8, <2>1, <2>2 DEF RiskTier, Medium
  <1> HIDE DEF S
  <1> QED BY <1>1, <1>2, <1>3, <1>5, <1>8, <1>9, <1>10, <1>11, <1>12

(* What cannot be read is not called harmless, whatever the line: classify    *)
(* reports every substitution that the shell would perform outside single    *)
(* quotes and unescaped, and what it reports is at least Medium (risk.rs      *)
(* parse, classify).                                                         *)
THEOREM UnreadableStaysUnsafe == ClassifierSpec => []UnreadableIsNotSafe
  <1>1. ASSUME NEW x \in Word
        PROVE  \E l \in {Trim(x)}, a \in {Classify(x)} :
                  /\ a.unknown \/ a.impact => a.tier >= Medium
                  /\ \A k \in 1..Len(l) : Substitutes(l, k) => a.unknown
    <2>1. PICK l \in Word : l = Trim(x)
      BY TrimIsWord
    <2>2. PICK a : a = Classify(x)
      OBVIOUS
    <2>3. CASE l = <<>>
      <3>1. a = EmptyCommand
        BY <2>1, <2>2, <2>3 DEF Classify
      <3>2. ~a.unknown /\ ~a.impact
        BY <3>1 DEF EmptyCommand
      <3>3. Len(l) = 0
        BY <2>3
      <3>4. \A k \in 1..Len(l) : FALSE
        BY <3>3
      <3> QED BY <2>1, <2>2, <3>2, <3>4
    <2>4. CASE l # <<>>
      <3>1. PICK p \in ParserState : p = Parse(l) /\ \A k \in 1..Len(l) : Substitutes(l, k) => p.opaque
        BY ParseSeesSubstitutions
      <3>2. a = AssessParsed(p)
        BY <2>1, <2>2, <2>4, <3>1 DEF Classify
      <3>3. (a.unknown \/ a.impact => a.tier >= Medium) /\ (p.opaque => a.unknown)
        BY <3>2, WorstPartDecides
      <3> QED BY <2>1, <2>2, <3>1, <3>3
    <2> QED BY <2>3, <2>4
  <1>2. ClassifierInv => UnreadableIsNotSafe
    <2> SUFFICES ASSUME line \in Word PROVE UnreadableIsNotSafe
      BY DEF ClassifierInv
    <2>1. PICK l \in Word : l = Trim(line)
      BY TrimIsWord
    <2>2. PICK a, ctx : a = Classify(line) /\ ctx = Contexts(l)
      OBVIOUS
    <2>3. /\ a.unknown \/ a.impact => a.tier >= Medium
          /\ \A k \in 1..Len(l) : Substitutes(l, k) => a.unknown
      BY <1>1, <2>1, <2>2
    <2>4. DOMAIN l = 1..Len(l)
      BY LineFacts
    <2>5. \A k \in DOMAIN l :
              \/ l[k] = "$" /\ k < Len(l) /\ l[k + 1] = "(" /\ ctx[k] \in {"plain", "double"}
              \/ l[k] = Backtick /\ ctx[k] = "plain"
              => a.unknown
      BY <2>2, <2>3, <2>4 DEF Substitutes
    <2>6. l \in {Trim(line)} /\ a \in {Classify(line)} /\ ctx \in {Contexts(l)}
      BY <2>1, <2>2
    <2> QED BY <2>3, <2>5, <2>6 DEF UnreadableIsNotSafe
  <1> QED BY <1>2, ClassifierInvariant, PTL

-----------------------------------------------------------------------------
(* What Cmd renders is what it was given: parse reads every quoted word back *)
(* as it was, and build_segment takes off nothing but sudo.                  *)

(* The states parse goes through on a line.                                  *)
Reached(st, l) == {st[t] : t \in 0..Len(l)}

(* Where it gets, it goes on from...                                         *)
LEMMA ReachNext ==
    ASSUME NEW l \in Word, NEW st, IsParse(st, l), NEW p \in Reached(st, l)
    PROVE  /\ p \in ParserState
           /\ p.i <= Len(l) => ParseStep(l, p) \in Reached(st, l)
  <1>0. PICK n \in Nat : n = Len(l)
    BY LineFacts
  <1> n \in Nat
    BY <1>0
  <1>1. PICK t \in 0..n : p = st[t]
    BY <1>0 DEF Reached
  <1>2. \A k \in 0..n : st[k] \in ParserState /\ st[k].i > k
    BY <1>0, ParseEnds
  <1>3. p \in ParserState /\ p.i > t /\ p.i \in Nat
    BY <1>1, <1>2 DEF ParserState
  <1>4. ASSUME p.i <= n
        PROVE  ParseStep(l, p) \in Reached(st, l)
    <2>1. t + 1 \in 1..n /\ t + 1 \in 0..n /\ t + 1 - 1 = t
      BY <1>3, <1>4
    <2>2. st[t + 1] = ParseStep(l, st[t])
      BY <1>0, <2>1 DEF IsParse
    <2> QED BY <1>0, <1>1, <2>1, <2>2 DEF Reached
  <1> QED BY <1>0, <1>3, <1>4

(* ... and beyond the end it stays.                                          *)
LEMMA ReachEnd ==
    ASSUME NEW l \in Word, NEW st, IsParse(st, l), NEW p \in Reached(st, l), p.i > Len(l)
    PROVE  st[Len(l)] = p
  <1>0. PICK n \in Nat : n = Len(l)
    BY LineFacts
  <1> n \in Nat
    BY <1>0
  <1>1. PICK t \in 0..n : p = st[t]
    BY <1>0 DEF Reached
  <1>2. t \in Nat /\ p \in ParserState
    BY <1>1, ReachNext
  <1> DEFINE P == {k \in t..n : st[k] = p}
  <1>3. t \in P
    BY <1>1, <1>2
  <1>4. ASSUME NEW k \in (t + 1)..n, k - 1 \in P
        PROVE  k \in P
    <2>1. k \in 1..n /\ k \in t..n
      BY <1>2
    <2>2. st[k] = ParseStep(l, p)
      BY <1>0, <1>4, <2>1 DEF IsParse
    <2>3. ParseStep(l, p) = p
      BY <1>2, ParseStepFact
    <2> QED BY <2>1, <2>2, <2>3
  <1>5. n \in P
    <2>1. n \in t..n
      BY <1>2
    <2> HIDE DEF P
    <2> QED BY <1>2, <1>3, <1>4, <2>1, Between
  <1> QED BY <1>0, <1>5

(* Laws of sequences...                                                      *)
LEMMA SequenceLaws ==
    ASSUME NEW S
    PROVE  /\ \A a, b, c \in Seq(S) : (a \o b) \o c = a \o (b \o c)
           /\ \A s \in Seq(S) : SubSeq(s, 1, 0) = <<>> /\ SubSeq(s, 1, Len(s)) = s
           /\ \A s \in Seq(S) : \A x \in 1..Len(s) : SubSeq(s, 1, x) = SubSeq(s, 1, x - 1) \o <<s[x]>>
           /\ \A s \in Seq(S) : \A y \in 0..Len(s) : \A x \in 0..y :
                 SubSeq(s, 1, x) \o SubSeq(s, x + 1, y) = SubSeq(s, 1, y)
           /\ \A s \in Seq(S) : <<>> \o s = s /\ s \o <<>> = s
           /\ \A s \in Seq(S) : s # <<>> => Len(s) >= 1
           /\ \A s, t \in Seq(S) : Len(s) = Len(t) /\ (\A x \in 1..Len(s) : s[x] = t[x]) => s = t
  <1>1. \A a, b, c \in Seq(S) : (a \o b) \o c = a \o (b \o c)
    BY ConcatAssociative
  <1>2. \A s \in Seq(S) : SubSeq(s, 1, 0) = <<>> /\ SubSeq(s, 1, Len(s)) = s
    BY SubSeqFull, SubSeqEmpty
  <1>3. \A s \in Seq(S) : \A x \in 1..Len(s) : SubSeq(s, 1, x) = SubSeq(s, 1, x - 1) \o <<s[x]>>
    <2> SUFFICES ASSUME NEW s \in Seq(S), NEW x \in 1..Len(s)
                 PROVE  SubSeq(s, 1, x) = SubSeq(s, 1, x - 1) \o <<s[x]>>
      OBVIOUS
    <2>1. 1 \in 1..Len(s) /\ x \in 1..Len(s)
      OBVIOUS
    <2> QED BY <2>1, SubSeqRecursiveSecond
  <1>4. \A s \in Seq(S) : \A y \in 0..Len(s) : \A x \in 0..y :
                 SubSeq(s, 1, x) \o SubSeq(s, x + 1, y) = SubSeq(s, 1, y)
    <2> SUFFICES ASSUME NEW s \in Seq(S), NEW y \in 0..Len(s), NEW x \in 0..y
                 PROVE  SubSeq(s, 1, x) \o SubSeq(s, x + 1, y) = SubSeq(s, 1, y)
      OBVIOUS
    <2>1. Len(s) \in Nat
      OBVIOUS
    <2>2. 1 \in 1..(Len(s) + 1) /\ x \in (1 - 1)..Len(s) /\ y \in x..Len(s)
      BY <2>1
    <2> QED BY <2>2, ConcatAdjacentSubSeq
  <1>5. \A s \in Seq(S) : <<>> \o s = s /\ s \o <<>> = s
    BY ConcatEmptySeq
  <1>6. \A s \in Seq(S) : s # <<>> => Len(s) >= 1
    BY EmptySeq
  <1>7. \A s, t \in Seq(S) : Len(s) = Len(t) /\ (\A x \in 1..Len(s) : s[x] = t[x]) => s = t
    BY SeqEqual
  <1> QED BY <1>1, <1>2, <1>3, <1>4, <1>5, <1>6, <1>7

(* ... which words are.                                                      *)
LEMMA WordLaws ==
    /\ \A a, b, c \in Word : (a \o b) \o c = a \o (b \o c)
    /\ \A s \in Word : SubSeq(s, 1, 0) = <<>> /\ SubSeq(s, 1, Len(s)) = s
    /\ \A s \in Word : \A x \in 1..Len(s) : SubSeq(s, 1, x) = SubSeq(s, 1, x - 1) \o <<s[x]>>
    /\ \A s \in Word : \A y \in 0..Len(s) : \A x \in 0..y :
          SubSeq(s, 1, x) \o SubSeq(s, x + 1, y) = SubSeq(s, 1, y)
    /\ \A s \in Word : <<>> \o s = s /\ s \o <<>> = s
    /\ \A s \in Word : s # <<>> => Len(s) >= 1
    /\ \A s, t \in Word : Len(s) = Len(t) /\ (\A x \in 1..Len(s) : s[x] = t[x]) => s = t
  BY SequenceLaws, Zenon DEF Word

(* Two takes are one.                                                        *)
LEMMA TakeTwice ==
    ASSUME NEW p \in ParserState, NEW a \in Word, NEW b \in Word, NEW i, NEW j
    PROVE  Take(Take(p, a, i), b, j) = Take(p, a \o b, j)
  <1>1. p.current \in Word
    BY DEF ParserState
  <1>2. PICK c : c = p.current \o a
    OBVIOUS
  <1>3. Take(p, a, i) = [p EXCEPT !.has = TRUE, !.current = c, !.i = i] /\ Take(p, a, i).current = c
    BY <1>2 DEF Take, ParserState
  <1>4. PICK d : d = c \o b
    OBVIOUS
  <1>5. d = p.current \o (a \o b)
    BY <1>1, <1>2, <1>4, WordLaws
  <1>6. PICK q : q = [p EXCEPT !.has = TRUE, !.current = c, !.i = i]
    OBVIOUS
  <1>7. Take(q, b, j) = [q EXCEPT !.has = TRUE, !.current = d, !.i = j]
    BY <1>4, <1>6 DEF Take, ParserState
  <1>8. [q EXCEPT !.has = TRUE, !.current = d, !.i = j] = [p EXCEPT !.has = TRUE, !.current = d, !.i = j]
    BY <1>6 DEF ParserState
  <1>9. Take(p, a \o b, j) = [p EXCEPT !.has = TRUE, !.current = d, !.i = j]
    BY <1>5 DEF Take, ParserState
  <1> QED BY <1>3, <1>6, <1>7, <1>8, <1>9

(* The arms that reading a rendered command takes.                           *)
LEMMA RenderedArms ==
    ASSUME NEW l \in Word, NEW p \in ParserState, p.i \in 1..Len(l)
    PROVE  /\ l[p.i] \notin Special => ParseStep(l, p) = Take(p, <<l[p.i]>>, p.i + 1)
           /\ l[p.i] = SingleQuote => ParseStep(l, p) = SingleQuoted(l, p)
           /\ l[p.i] = Backslash /\ p.i < Len(l) => ParseStep(l, p) = Take(p, <<l[p.i + 1]>>, p.i + 2)
           /\ l[p.i] = Blank => ParseStep(l, p) = [PushWord(p) EXCEPT !.i = @ + 1]
  <1>1. PICK c, next, q : c = l[p.i] /\ next = Following(l, p.i) /\ q = ParseStep(l, p)
    OBVIOUS
  <1>2. Arm(l, p, c, next, q)
    BY <1>1, ParseArms
  <1> USE DEF Separators, Special, SingleQuote, DoubleQuote, Backslash, Backtick, Blank
  <1>3. c \notin Special => q = Take(p, <<c>>, p.i + 1)
    BY <1>2 DEF Arm
  <1>4. c = SingleQuote => q = SingleQuoted(l, p)
    BY <1>2 DEF Arm
  <1>5. c = Backslash /\ next # <<>> => q = Take(p, next, p.i + 2)
    BY <1>2 DEF Arm
  <1>6. c = Blank => q = [PushWord(p) EXCEPT !.i = @ + 1]
    BY <1>2 DEF Arm
  <1>7. p.i < Len(l) => next = <<l[p.i + 1]>> /\ next # <<>>
    BY <1>1 DEF Following
  <1> QED BY <1>1, <1>3, <1>4, <1>5, <1>6, <1>7

(* A sequence of pieces that stands in a line behind its first o pieces.     *)
Found(l, o, q) == o + Len(q) <= Len(l) /\ \A x \in 1..Len(q) : l[o + x] = q[x]

(* A word without quotes is read piece by piece.                             *)
LEMMA BareRead ==
    ASSUME NEW l \in Word, NEW st, IsParse(st, l), NEW p \in Reached(st, l),
           NEW o \in Nat, p.i = o + 1, NEW w \in Word, w # <<>>, Found(l, o, w),
           \A x \in 1..Len(w) : w[x] \notin Special
    PROVE  Take(p, w, o + 1 + Len(w)) \in Reached(st, l)
  <1>0. PICK n, m : n \in Nat /\ m \in Nat /\ n = Len(l) /\ m = Len(w)
    BY LineFacts
  <1>1. n \in Nat /\ m \in Nat /\ m >= 1
    BY <1>0, WordLaws
  <1>2. \A x \in 1..m : o + x \in 1..n /\ l[o + x] = w[x] /\ w[x] \notin Special /\ <<w[x]>> \in Word
    BY <1>0, <1>1, LineFacts DEF Found
  <1>3. p \in ParserState
    BY ReachNext
  <1> DEFINE P == {x \in 1..m : Take(p, SubSeq(w, 1, x), o + 1 + x) \in Reached(st, l)}
  <1>4. 1 \in P
    <2>0. 1 \in 1..m
      BY <1>1
    <2>1. p.i \in 1..n /\ p.i <= n /\ p.i = o + 1 /\ l[p.i] = w[1] /\ l[p.i] \notin Special
      <3>1. o + 1 \in 1..n /\ l[o + 1] = w[1] /\ w[1] \notin Special
        BY <1>2, <2>0
      <3> QED BY <1>1, <3>1
    <2>2. ParseStep(l, p) = Take(p, <<w[1]>>, o + 1 + 1)
      <3>1. ParseStep(l, p) = Take(p, <<l[p.i]>>, p.i + 1)
        BY <1>0, <1>3, <2>1, RenderedArms
      <3> QED BY <2>1, <3>1
    <2>3. ParseStep(l, p) \in Reached(st, l)
      BY <1>0, <2>1, ReachNext
    <2>4. SubSeq(w, 1, 1) = <<w[1]>>
      <3>1. SubSeq(w, 1, 1) = SubSeq(w, 1, 1 - 1) \o <<w[1]>>
        BY <1>0, <2>0, WordLaws
      <3>2. 1 - 1 = 0 /\ SubSeq(w, 1, 0) = <<>> /\ <<>> \o <<w[1]>> = <<w[1]>>
        BY <1>2, <2>0, WordLaws
      <3> QED BY <3>1, <3>2
    <2> QED BY <2>0, <2>2, <2>3, <2>4
  <1>5. ASSUME NEW x \in 2..m, x - 1 \in P
        PROVE  x \in P
    <2>1. x \in 1..m /\ x - 1 \in 1..m /\ o + 1 + (x - 1) = o + x /\ o + x + 1 = o + 1 + x
      BY <1>1
    <2>2. PICK a : a = SubSeq(w, 1, x - 1)
      OBVIOUS
    <2>3. PICK q : q = Take(p, a, o + x)
      OBVIOUS
    <2>4. a \in Word
      <3>1. 1 \in 1..(Len(w) + 1) /\ x - 1 \in 0..Len(w)
        BY <1>0, <1>1, <2>1
      <3> QED BY <2>2, <3>1, SliceIsWord
    <2>5. q \in Reached(st, l)
      BY <1>5, <2>1, <2>2, <2>3
    <2>6. o + x \in Nat \ {0}
      BY <1>1
    <2>7. q \in ParserState /\ q.i = o + x
      BY <1>3, <2>3, <2>4, <2>6, TakeFact
    <2>8. ParseStep(l, q) = Take(q, <<w[x]>>, o + x + 1) /\ ParseStep(l, q) \in Reached(st, l)
      <3>0. o + x \in 1..n /\ l[o + x] = w[x] /\ w[x] \notin Special
        BY <1>2, <2>1
      <3>1. q.i \in 1..Len(l) /\ q.i <= Len(l) /\ l[q.i] = w[x] /\ l[q.i] \notin Special
        BY <1>0, <1>1, <2>7, <3>0
      <3> QED BY <2>5, <2>7, <3>1, RenderedArms, ReachNext
    <2>9. Take(q, <<w[x]>>, o + x + 1) = Take(p, a \o <<w[x]>>, o + x + 1)
      BY <1>2, <1>3, <2>1, <2>3, <2>4, TakeTwice
    <2>10. a \o <<w[x]>> = SubSeq(w, 1, x)
      <3>1. 1 \in 1..Len(w) /\ x \in 1..Len(w)
        BY <1>0, <1>1, <2>1
      <3> QED BY <2>2, <3>1, WordLaws
    <2> QED BY <2>1, <2>8, <2>9, <2>10
  <1>6. m \in P
    <2>1. 1 \in Nat /\ m \in 1..m /\ \A x \in (1 + 1)..m : x \in 2..m
      BY <1>1
    <2> HIDE DEF P
    <2> QED BY <1>1, <1>4, <1>5, <2>1, Between
  <1>7. SubSeq(w, 1, m) = w
    BY <1>0, WordLaws
  <1> QED BY <1>0, <1>6, <1>7

(* A quoted word in a line: its opening quote is at place b, and what stands *)
(* for piece k ends off[k] places after it.                                  *)
InQuotes(l, b, w, off) ==
    /\ off \in [0..Len(w) -> Nat] /\ off[0] = 0
    /\ b \in 1..Len(l) /\ b + off[Len(w)] + 1 <= Len(l)
    /\ l[b] = SingleQuote /\ l[b + off[Len(w)] + 1] = SingleQuote
    /\ \A k \in 1..Len(w) :
          /\ off[k] <= off[Len(w)]
          /\ w[k] # SingleQuote => off[k] = off[k - 1] + 1 /\ l[b + off[k - 1] + 1] = w[k]
          /\ w[k] = SingleQuote =>
                /\ off[k] = off[k - 1] + 4
                /\ l[b + off[k - 1] + 1] = SingleQuote /\ l[b + off[k - 1] + 2] = Backslash
                /\ l[b + off[k - 1] + 3] = SingleQuote /\ l[b + off[k - 1] + 4] = SingleQuote

(* From one single quote of the word to the next, or to its end.             *)
IsNext(w, r, s) ==
    /\ s \in (r + 1)..(Len(w) + 1)
    /\ s <= Len(w) => w[s] = SingleQuote
    /\ \A x \in (r + 1)..(s - 1) : w[x] # SingleQuote

(* The quote that closes a stretch is the next one there is...               *)
LEMMA NextQuote ==
    ASSUME NEW w \in Word, NEW r \in 0..Len(w)
    PROVE  \E s : IsNext(w, r, s)
  <1>1. PICK m \in Nat : m = Len(w)
    BY LineFacts
  <1>2. PICK S : S = {j \in (r + 1)..m : w[j] = SingleQuote} \cup {m + 1}
    OBVIOUS
  <1>3. m + 1 \in Nat /\ S \in SUBSET (0..(m + 1)) /\ m + 1 \in S /\ S # {}
        /\ \A x \in S : x \in (r + 1)..(m + 1)
    BY <1>1, <1>2
  <1>4. PICK s : s = Min(S)
    OBVIOUS
  <1>5. s \in S /\ \A x \in S : s <= x
    BY <1>3, <1>4, Indices
  <1>7. s \in (r + 1)..(m + 1) /\ (s <= m => w[s] = SingleQuote)
    BY <1>1, <1>2, <1>3, <1>5
  <1>8. \A x \in (r + 1)..(s - 1) : w[x] # SingleQuote
    BY <1>1, <1>2, <1>5, <1>7
  <1> QED BY <1>1, <1>7, <1>8 DEF IsNext

(* Between them the pieces stand as they are.                                *)
AsTheyAre(l, b, w, off, r, s) ==
    /\ off[r] \in Nat /\ off[s - 1] \in Nat
    /\ off[s - 1] = off[r] + (s - 1 - r)
    /\ \A t \in 1..(s - 1 - r) : l[b + off[r] + t] = w[r + t]
    /\ b + off[s - 1] + 1 <= Len(l) /\ l[b + off[s - 1] + 1] = SingleQuote

(* ... and what stands before it is read as it is.                           *)
LEMMA Stretch ==
    ASSUME NEW l \in Word, NEW b, NEW w \in Word, NEW off, InQuotes(l, b, w, off),
           NEW r \in 0..Len(w), NEW s, IsNext(w, r, s)
    PROVE  AsTheyAre(l, b, w, off, r, s)
  <1> USE DEF AsTheyAre, IsNext
  <1>0. PICK n, m : n \in Nat /\ m \in Nat /\ n = Len(l) /\ m = Len(w)
    BY LineFacts
  <1>1. n \in Nat /\ m \in Nat /\ r \in 0..m /\ s \in (r + 1)..(m + 1) /\ r \in Nat /\ s - 1 \in Nat
        /\ b \in Nat
    BY <1>0 DEF InQuotes
  <1>2. \A k \in 0..m : off[k] \in Nat
    BY <1>0 DEF InQuotes
  <1> DEFINE P == {x \in r..(s - 1) : off[x] = off[r] + (x - r)}
  <1>3. r \in P
    <2>1. r \in r..(s - 1) /\ off[r] \in Nat
      BY <1>1, <1>2
    <2> QED BY <1>1, <2>1
  <1>4. ASSUME NEW x \in (r + 1)..(s - 1)
        PROVE  /\ x \in 1..m /\ x - 1 \in 0..m
               /\ off[x] = off[x - 1] + 1 /\ l[b + off[x - 1] + 1] = w[x]
    <2>1. x \in 1..m /\ x - 1 \in 0..m
      BY <1>1
    <2>2. w[x] # SingleQuote
      OBVIOUS
    <2> QED BY <1>0, <2>1, <2>2 DEF InQuotes
  <1>5. ASSUME NEW x \in (r + 1)..(s - 1), x - 1 \in P
        PROVE  x \in P
    <2>1. x \in r..(s - 1)
      BY <1>1
    <2>2. off[x] = off[x - 1] + 1 /\ off[x - 1] = off[r] + (x - 1 - r)
      BY <1>4, <1>5
    <2>3. off[r] \in Nat
      BY <1>1, <1>2
    <2>4. off[x] = off[r] + (x - r)
      <3>1. PICK f, g, h : f = off[x] /\ g = off[x - 1] /\ h = off[r]
        OBVIOUS
      <3>2. f = g + 1 /\ g = h + (x - 1 - r) /\ h \in Nat
        BY <2>2, <2>3, <3>1
      <3>3. f = h + (x - r)
        BY <1>1, <3>2
      <3> QED BY <3>1, <3>3
    <2> QED BY <2>1, <2>4
  <1>6. \A x \in r..(s - 1) : x \in P
    <2> HIDE DEF P
    <2> QED BY <1>1, <1>3, <1>5, Between
  <1>7. off[r] \in Nat /\ off[s - 1] \in Nat /\ off[s - 1] = off[r] + (s - 1 - r)
    <2>1. r \in 0..m /\ s - 1 \in 0..m /\ s - 1 \in r..(s - 1)
      BY <1>1
    <2> QED BY <1>2, <1>6, <2>1
  <1>8. ASSUME NEW t \in 1..(s - 1 - r)
        PROVE  l[b + off[r] + t] = w[r + t]
    <2>1. PICK x \in (r + 1)..(s - 1) : x = r + t
      BY <1>1
    <2>2. l[b + off[x - 1] + 1] = w[x]
      BY <1>4
    <2>3. x - 1 \in r..(s - 1)
      BY <1>1, <2>1
    <2>4. off[x - 1] = off[r] + (x - 1 - r)
      BY <1>6, <2>3
    <2>5. b + off[x - 1] + 1 = b + off[r] + t
      BY <1>1, <1>7, <2>1, <2>4
    <2> QED BY <2>1, <2>2, <2>5
  <1>9. CASE s = m + 1
    <2>1. s - 1 = m
      BY <1>1, <1>9
    <2> QED BY <1>0, <1>7, <1>8, <2>1 DEF InQuotes
  <1>10. CASE s # m + 1
    <2>1. s \in 1..m /\ s <= m
      BY <1>1, <1>10
    <2>2. w[s] = SingleQuote
      BY <1>0, <2>1
    <2>3. off[s] <= off[m] /\ off[s] = off[s - 1] + 4 /\ l[b + off[s - 1] + 1] = SingleQuote
          /\ b + off[m] + 1 <= n
      BY <1>0, <2>1, <2>2 DEF InQuotes
    <2>4. off[m] \in Nat
      BY <1>1, <1>2
    <2>5. b + off[s - 1] + 1 <= n
      <3>1. PICK f, g, h : f = off[s] /\ g = off[s - 1] /\ h = off[m]
        OBVIOUS
      <3>2. f <= h /\ f = g + 4 /\ b + h + 1 <= n /\ g \in Nat /\ h \in Nat
        BY <1>7, <2>3, <2>4, <3>1
      <3>3. b + g + 1 <= n
        BY <1>1, <3>2
      <3> QED BY <3>1, <3>3
    <2> QED BY <1>0, <1>7, <1>8, <2>3, <2>5
  <1> QED BY <1>9, <1>10

(* Words with the same pieces are the same.                                  *)
LEMMA SameWord ==
    ASSUME NEW c \in Word, NEW d \in Word, NEW e \in Nat, Len(c) = e, Len(d) = e,
           \A t \in 1..e : d[t] = c[t]
    PROVE  c = d
  <1>1. Len(c) = Len(d) /\ \A t \in 1..Len(c) : c[t] = d[t]
    OBVIOUS
  <1> QED BY <1>1, WordLaws, Zenon

(* A slice of a line.                                                        *)
LEMMA SliceFacts ==
    ASSUME NEW l \in Word, NEW a \in 1..(Len(l) + 1), NEW b \in 0..Len(l), b >= a - 1
    PROVE  /\ Len(SubSeq(l, a, b)) = b - a + 1
           /\ \A t \in 1..(b - a + 1) : SubSeq(l, a, b)[t] = l[a + t - 1]
  <1>1. \A m \in a..b : l[m] \in STRING
    <2>1. \A m \in a..b : m \in 1..Len(l)
      BY LineFacts
    <2> QED BY <2>1, LineFacts
  <1>2. a \in Int /\ b \in Int
    BY LineFacts
  <1>3. /\ Len(SubSeq(l, a, b)) = IF a <= b THEN b - a + 1 ELSE 0
        /\ \A t \in 1..(b - a + 1) : SubSeq(l, a, b)[t] = l[a + t - 1]
    BY <1>1, <1>2, SubSeqProperties
  <1> QED BY <1>2, <1>3

(* What taking from q amounts to, seen from p: a has been taken already.     *)
Took(p, q, a) == \A c \in Word : \A j : Take(q, c, j) = Take(p, a \o c, j)

(* The arm for a single quote reads to the next one.                         *)
LEMMA QuoteToQuote ==
    ASSUME NEW l \in Word, NEW st, IsParse(st, l), NEW p \in ParserState,
           NEW b, NEW w \in Word, NEW off, InQuotes(l, b, w, off),
           NEW r \in 0..Len(w), r = 0 \/ w[r] = SingleQuote,
           NEW q \in Reached(st, l), q.i = b + off[r], Took(p, q, SubSeq(w, 1, r)),
           NEW s, IsNext(w, r, s)
    PROVE  Take(p, SubSeq(w, 1, s - 1), b + off[s - 1] + 2) \in Reached(st, l)
  <1>0. PICK n, m : n \in Nat /\ m \in Nat /\ n = Len(l) /\ m = Len(w)
    BY LineFacts
  <1>1. n \in Nat /\ m \in Nat /\ r \in 0..m /\ s \in (r + 1)..(m + 1) /\ r \in Nat /\ s \in Nat
        /\ b \in Nat /\ b >= 1
    BY <1>0 DEF InQuotes, IsNext
  <1>2. PICK i, j : i = b + off[r] /\ j = b + off[s - 1] + 1
    OBVIOUS
  <1>3. /\ off[r] \in Nat /\ off[s - 1] \in Nat
        /\ off[s - 1] = off[r] + (s - 1 - r)
        /\ \A t \in 1..(s - 1 - r) : l[b + off[r] + t] = w[r + t]
        /\ b + off[s - 1] + 1 <= Len(l) /\ l[b + off[s - 1] + 1] = SingleQuote
    <2>1. AsTheyAre(l, b, w, off, r, s)
      BY Stretch
    <2> QED BY <2>1 DEF AsTheyAre
  <1>4. i \in 1..n /\ j \in (i + 1)..n /\ l[j] = SingleQuote /\ j = i + (s - r)
    <2>1. PICK x, y : x = off[r] /\ y = off[s - 1]
      OBVIOUS
    <2>2. x \in Nat /\ y \in Nat /\ y = x + (s - 1 - r) /\ b + y + 1 <= n /\ i = b + x /\ j = b + y + 1
      BY <1>0, <1>2, <1>3, <2>1
    <2>3. i \in 1..n /\ j \in (i + 1)..n /\ j = i + (s - r)
      BY <1>1, <2>2
    <2> QED BY <1>2, <1>3, <2>3
  <1>5. \A t \in 1..(s - 1 - r) : l[i + t] = w[r + t]
    BY <1>2, <1>3
  <1>6. l[i] = SingleQuote
    <2>1. CASE r = 0
      BY <1>1, <1>2, <2>1 DEF InQuotes
    <2>2. CASE r # 0
      <3>1. r \in 1..m /\ r - 1 \in 0..m
        BY <1>1, <2>2
      <3>2. w[r] = SingleQuote
        BY <2>2
      <3>3. off[r] = off[r - 1] + 4 /\ l[b + off[r - 1] + 4] = SingleQuote /\ off[r - 1] \in Nat
        BY <1>0, <3>1, <3>2 DEF InQuotes
      <3>4. i = b + off[r - 1] + 4
        BY <1>1, <1>2, <3>3
      <3> QED BY <3>3, <3>4
    <2> QED BY <2>1, <2>2
  <1>7. Closing(l, i, SingleQuote) = j
    <2>1. PICK c : c = Closing(l, i, SingleQuote)
      OBVIOUS
    <2>2. c \in (i + 1)..(n + 1) /\ (c <= n => l[c] = SingleQuote)
          /\ \A y \in (i + 1)..(c - 1) : l[y] # SingleQuote
      BY <1>0, <1>4, <2>1, ClosingFact
    <2>3. ~(j < c)
      BY <1>1, <1>4, <2>2
    <2>4. ~(c < j)
      <3> SUFFICES ASSUME c < j PROVE FALSE
        OBVIOUS
      <3>1. c <= n /\ c - i \in 1..(s - 1 - r) /\ i + (c - i) = c
        BY <1>1, <1>4, <2>2
      <3>2. PICK t \in 1..(s - 1 - r) : c = i + t
        BY <3>1
      <3>3. l[c] = w[r + t]
        BY <1>5, <3>2
      <3>4. r + t \in (r + 1)..(s - 1)
        BY <1>1, <3>2
      <3> QED BY <2>2, <3>1, <3>3, <3>4 DEF IsNext
    <2> QED BY <1>1, <1>4, <2>1, <2>2, <2>3, <2>4
  <1>8. PICK c \in Word : c = SubSeq(w, r + 1, s - 1)
    <2>1. r + 1 \in 1..(Len(w) + 1) /\ s - 1 \in 0..Len(w)
      BY <1>0, <1>1
    <2> QED BY <2>1, SliceIsWord
  <1>9. SubSeq(l, i + 1, j - 1) = c
    <2>1. i + 1 \in 1..(Len(l) + 1) /\ j - 1 \in 0..Len(l) /\ i + 1 \in Int /\ j - 1 \in Int
          /\ r + 1 \in Int /\ s - 1 \in Int
      BY <1>0, <1>1, <1>4
    <2>2. PICK d \in Word : d = SubSeq(l, i + 1, j - 1)
      BY <2>1, SliceIsWord
    <2>3. PICK e \in Nat : e = s - 1 - r /\ e = (j - 1) - (i + 1) + 1 /\ e = (s - 1) - (r + 1) + 1
      BY <1>1, <1>4
    <2>4. Len(d) = e /\ \A t \in 1..e : d[t] = l[i + 1 + t - 1]
      <3>1. j - 1 >= (i + 1) - 1
        BY <1>1, <1>4
      <3>2. Len(d) = (j - 1) - (i + 1) + 1
            /\ \A t \in 1..((j - 1) - (i + 1) + 1) : d[t] = l[i + 1 + t - 1]
        BY <2>1, <2>2, <3>1, SliceFacts
      <3> QED BY <2>3, <3>2, Zenon
    <2>5. Len(c) = e /\ \A t \in 1..e : c[t] = w[r + 1 + t - 1]
      <3>1. s - 1 >= (r + 1) - 1 /\ r + 1 \in 1..(Len(w) + 1) /\ s - 1 \in 0..Len(w)
        BY <1>0, <1>1
      <3>2. Len(c) = (s - 1) - (r + 1) + 1
            /\ \A t \in 1..((s - 1) - (r + 1) + 1) : c[t] = w[r + 1 + t - 1]
        BY <1>8, <3>1, SliceFacts
      <3> QED BY <2>3, <3>2, Zenon
    <2>6. \A t \in 1..e : d[t] = c[t]
      <3> SUFFICES ASSUME NEW t \in 1..e PROVE d[t] = c[t]
        OBVIOUS
      <3>1. i + 1 + t - 1 = i + t /\ r + 1 + t - 1 = r + t /\ t \in 1..(s - 1 - r)
        BY <1>1, <1>4, <2>3
      <3> QED BY <1>5, <2>4, <2>5, <3>1
    <2>7. c = d
      BY <1>8, <2>2, <2>4, <2>5, <2>6, SameWord
    <2> QED BY <2>2, <2>7
  <1>10. q \in ParserState /\ q.i = i
    BY <1>2, ReachNext
  <1>11. ParseStep(l, q) = Take(q, c, j + 1) /\ ParseStep(l, q) \in Reached(st, l)
    <2>1. q.i \in 1..Len(l) /\ q.i <= Len(l) /\ l[q.i] = SingleQuote
      BY <1>0, <1>4, <1>6, <1>10
    <2>2. ParseStep(l, q) = SingleQuoted(l, q)
      BY <1>10, <2>1, RenderedArms
    <2>3. SingleQuoted(l, q) = Take(q, c, j + 1)
      BY <1>7, <1>9, <1>10 DEF SingleQuoted
    <2> QED BY <2>1, <2>2, <2>3, ReachNext
  <1>12. Take(q, c, j + 1) = Take(p, SubSeq(w, 1, r) \o c, j + 1)
    BY <1>8 DEF Took
  <1>13. SubSeq(w, 1, r) \o c = SubSeq(w, 1, s - 1)
    <2>1. s - 1 \in 0..Len(w) /\ r \in 0..(s - 1)
      BY <1>0, <1>1
    <2> QED BY <1>8, <2>1, WordLaws
  <1>14. j + 1 = b + off[s - 1] + 2
    BY <1>1, <1>2, <1>3
  <1> QED BY <1>11, <1>12, <1>13, <1>14

(* A quoted word is read as the word, however many quotes are in it.         *)
LEMMA QuotedRead ==
    ASSUME NEW l \in Word, NEW st, IsParse(st, l), NEW p \in Reached(st, l),
           NEW b, NEW w \in Word, NEW off, InQuotes(l, b, w, off), p.i = b
    PROVE  Take(p, w, b + off[Len(w)] + 2) \in Reached(st, l)
  <1>0. PICK n, m : n \in Nat /\ m \in Nat /\ n = Len(l) /\ m = Len(w)
    BY LineFacts
  <1>1. n \in Nat /\ m \in Nat /\ b \in Nat /\ b >= 1 /\ off[0] = 0 /\ \A k \in 0..m : off[k] \in Nat
    BY <1>0 DEF InQuotes
  <1>2. p \in ParserState
    BY ReachNext
  <1> DEFINE Spot(r) == \E q \in Reached(st, l) : q.i = b + off[r] /\ Took(p, q, SubSeq(w, 1, r))
             O == {r \in 0..m : (r = 0 \/ w[r] = SingleQuote) /\ Spot(r)}
  <1>3. 0 \in O
    <2>1. b + off[0] = b /\ 0 \in 0..m
      BY <1>1
    <2>2. Took(p, p, SubSeq(w, 1, 0))
      BY WordLaws DEF Took
    <2>3. Spot(0)
      BY <2>1, <2>2
    <2> HIDE DEF Spot
    <2> QED BY <2>1, <2>3
  <1>4. PICK r : r \in O /\ \A x \in O : x <= r
    <2>1. O \in SUBSET (0..m) /\ O # {}
      BY <1>3
    <2> HIDE DEF O
    <2> QED BY <1>1, <2>1, Indices
  <1>5. r \in 0..m /\ (r = 0 \/ w[r] = SingleQuote)
    BY <1>4
  <1>6. PICK q \in Reached(st, l) : q.i = b + off[r] /\ Took(p, q, SubSeq(w, 1, r))
    BY <1>4
  <1>7. PICK s : IsNext(w, r, s)
    BY <1>0, <1>5, NextQuote
  <1>8. s \in (r + 1)..(m + 1) /\ (s <= m => w[s] = SingleQuote) /\ s \in Nat /\ s - 1 \in 0..m /\ s > r
    BY <1>0, <1>1, <1>5, <1>7 DEF IsNext
  <1>9. PICK a, d : a = SubSeq(w, 1, s - 1) /\ d = off[s - 1] /\ a \in Word /\ d \in Nat
    <2>1. 1 \in 1..(Len(w) + 1) /\ s - 1 \in 0..Len(w)
      BY <1>0, <1>1, <1>8
    <2>2. SubSeq(w, 1, s - 1) \in Word
      BY <2>1, SliceIsWord
    <2> QED BY <1>1, <1>8, <2>2
  <1>10. Take(p, a, b + d + 2) \in Reached(st, l)
    <2>1. r \in 0..Len(w)
      BY <1>0, <1>5
    <2> QED BY <1>2, <1>5, <1>6, <1>7, <1>9, <2>1, QuoteToQuote
  <1>11. CASE s = m + 1
    <2>1. s - 1 = m
      BY <1>1, <1>11
    <2>2. a = w /\ d = off[Len(w)]
      BY <1>0, <1>9, <2>1, WordLaws
    <2> QED BY <1>10, <2>2
  <1>12. CASE s # m + 1
    <2>1. s \in 1..m /\ s \in 0..m
      BY <1>1, <1>8, <1>12
    <2>2. w[s] = SingleQuote
      BY <1>1, <1>8, <1>12
    <2>3. off[s] = d + 4 /\ l[b + d + 2] = Backslash /\ l[b + d + 3] = SingleQuote
          /\ off[s] <= off[m] /\ b + off[m] + 1 <= n
      BY <1>0, <1>9, <2>1, <2>2 DEF InQuotes
    <2>4. PICK q2 : q2 = Take(p, a, b + d + 2)
      OBVIOUS
    <2>5. b + d + 2 \in Nat \ {0} /\ b + d + 4 \in Nat \ {0}
      BY <1>1, <1>9
    <2>6. q2 \in ParserState /\ q2.i = b + d + 2 /\ q2 \in Reached(st, l)
      <3>1. PICK x \in Nat \ {0} : x = b + d + 2
        BY <2>5
      <3>2. q2 = Take(p, a, x) /\ q2 \in Reached(st, l)
        BY <1>10, <2>4, <3>1
      <3>3. q2 \in ParserState /\ q2.i = x
        BY <1>2, <1>9, <3>2, TakeFact
      <3> QED BY <3>1, <3>2, <3>3
    <2>7. q2.i \in 1..Len(l) /\ q2.i < Len(l) /\ q2.i <= Len(l) /\ q2.i + 1 = b + d + 3 /\ q2.i + 2 = b + d + 4
      <3>1. PICK i, f : i = q2.i /\ f = off[m]
        OBVIOUS
      <3>2. /\ f \in Nat /\ b \in Nat /\ d \in Nat /\ n \in Nat
            /\ i = b + d + 2 /\ d + 4 <= f /\ b + f + 1 <= n
        <4>1. f \in Nat
          BY <1>1, <3>1
        <4> QED BY <1>1, <1>9, <2>3, <2>6, <3>1, <4>1
      <3>3. i \in 1..n /\ i < n /\ i <= n /\ i + 1 = b + d + 3 /\ i + 2 = b + d + 4
        BY <3>2
      <3> QED BY <1>0, <3>1, <3>3
    <2>8. PICK q3 : q3 = ParseStep(l, q2)
      OBVIOUS
    <2>9. q3 = Take(q2, <<SingleQuote>>, b + d + 4) /\ q3 \in Reached(st, l)
      <3>1. l[q2.i] = Backslash /\ l[q2.i + 1] = SingleQuote
        BY <2>3, <2>6, <2>7
      <3>2. q3 = Take(q2, <<l[q2.i + 1]>>, q2.i + 2)
        BY <2>6, <2>7, <2>8, <3>1, RenderedArms
      <3>3. q3 \in Reached(st, l)
        BY <2>6, <2>7, <2>8, ReachNext
      <3> QED BY <2>7, <3>1, <3>2, <3>3
    <2>10. PICK c \in Word : c = a \o <<SingleQuote>>
      BY <1>9, WordPieces
    <2>11. q3 = Take(p, c, b + d + 4)
      BY <1>2, <1>9, <2>4, <2>9, <2>10, TakeTwice, WordPieces
    <2>12. c = SubSeq(w, 1, s)
      BY <1>0, <1>9, <2>1, <2>2, <2>10, WordLaws
    <2>13. q3.i = b + off[s]
      <3>1. q3.i = b + d + 4
        BY <1>2, <2>5, <2>10, <2>11, TakeFact
      <3> QED BY <1>1, <1>9, <2>3, <3>1
    <2>14. Took(p, q3, c)
      BY <1>2, <2>10, <2>11, TakeTwice DEF Took
    <2>15. Spot(s)
      BY <2>9, <2>12, <2>13, <2>14
    <2>16. s \in O
      <3> HIDE DEF Spot
      <3> QED BY <2>1, <2>2, <2>15
    <2> HIDE DEF O
    <2>17. s <= r
      BY <1>4, <2>16
    <2> QED BY <1>1, <1>5, <1>8, <2>17
  <1> QED BY <1>11, <1>12

(* What quote writes around a word, and for each of its pieces.              *)
Escaped(w) ==
    [k \in DOMAIN w |->
       IF w[k] = SingleQuote THEN <<SingleQuote, Backslash, SingleQuote, SingleQuote>> ELSE <<w[k]>>]

(* What quote writes for a word, piece by piece.                             *)
LEMMA EscapedFact ==
    ASSUME NEW w \in Word
    PROVE  /\ Escaped(w) \in Seq(Seq(STRING)) /\ Len(Escaped(w)) = Len(w)
           /\ \A k \in 1..Len(w) :
                 /\ w[k] # SingleQuote => Len(Escaped(w)[k]) = 1 /\ Escaped(w)[k][1] = w[k]
                 /\ w[k] = SingleQuote =>
                       /\ Len(Escaped(w)[k]) = 4
                       /\ Escaped(w)[k][1] = SingleQuote /\ Escaped(w)[k][2] = Backslash
                       /\ Escaped(w)[k][3] = SingleQuote /\ Escaped(w)[k][4] = SingleQuote
  <1>1. DOMAIN w = 1..Len(w) /\ Len(w) \in Nat
    BY LineFacts
  <1>2. PICK four : four = <<SingleQuote, Backslash, SingleQuote, SingleQuote>>
    OBVIOUS
  <1>3. four \in Word /\ Len(four) = 4 /\ four[1] = SingleQuote /\ four[2] = Backslash
        /\ four[3] = SingleQuote /\ four[4] = SingleQuote
    BY <1>2, WordPieces
  <1>4. Escaped(w) = [k \in 1..Len(w) |-> IF w[k] = SingleQuote THEN four ELSE <<w[k]>>]
    BY <1>1, <1>2 DEF Escaped
  <1>5. \A k \in 1..Len(w) : <<w[k]>> \in Word
    BY LineFacts
  <1>6. PICK e : e = Escaped(w)
    OBVIOUS
  <1>7. \A k \in 1..Len(w) : e[k] = IF w[k] = SingleQuote THEN four ELSE <<w[k]>>
    BY <1>4, <1>6
  <1>8. e \in Seq(Word) /\ Len(e) = Len(w)
    <2>1. e \in [1..Len(w) -> Word]
      BY <1>3, <1>4, <1>5, <1>6
    <2> QED BY <1>1, <2>1
  <1>9. e \in Seq(Seq(STRING))
    BY <1>8 DEF Word
  <1>10. \A k \in 1..Len(w) : Len(<<w[k]>>) = 1 /\ <<w[k]>>[1] = w[k]
    OBVIOUS
  <1> QED BY <1>3, <1>6, <1>7, <1>8, <1>9, <1>10

(* A sequence between two pieces.                                            *)
LEMMA Wrapped ==
    ASSUME NEW S, NEW x \in S, NEW f \in Seq(S)
    PROVE  LET q == <<x>> \o f \o <<x>>
           IN /\ Len(q) = Len(f) + 2 /\ q[1] = x /\ q[Len(f) + 2] = x
              /\ \A y \in 1..Len(f) : q[y + 1] = f[y]
  OBVIOUS

(* A quoted word that stands in a line stands there in quotes.               *)
LEMMA FoundQuoted ==
    ASSUME NEW l \in Word, NEW o \in Nat, NEW w \in Word, ~NeedsNoQuotes(w), Found(l, o, Quote(w))
    PROVE  \E off : InQuotes(l, o + 1, w, off) /\ Len(Quote(w)) = off[Len(w)] + 2
  <1>0. PICK n, m : n \in Nat /\ m \in Nat /\ n = Len(l) /\ m = Len(w)
    BY LineFacts
  <1>1. PICK e : e = Escaped(w)
    OBVIOUS
  <1>2. PICK flat : flat = FlattenSeq(e)
    OBVIOUS
  <1>3. e \in Seq(Seq(STRING)) /\ Len(e) = m
    BY <1>0, <1>1, EscapedFact
  <1>4. flat \in Word /\ \E off : IsLayout(off, e, flat)
    BY <1>2, <1>3, FlattenLayout DEF Word
  <1>5. PICK off : IsLayout(off, e, flat)
    BY <1>4
  <1>6. /\ off \in [0..m -> Nat] /\ off[0] = 0 /\ Len(flat) = off[m]
        /\ \A k \in 1..m : off[k] = off[k - 1] + Len(e[k])
        /\ \A k \in 1..m : \A j \in 1..Len(e[k]) : flat[off[k - 1] + j] = e[k][j]
    BY <1>3, <1>5 DEF IsLayout
  <1>7. PICK q : q = Quote(w)
    OBVIOUS
  <1>8. /\ Len(q) = off[m] + 2 /\ q[1] = SingleQuote /\ q[off[m] + 2] = SingleQuote
        /\ \A y \in 1..off[m] : q[y + 1] = flat[y]
    <2>1. q = <<SingleQuote>> \o flat \o <<SingleQuote>>
      BY <1>1, <1>2, <1>7 DEF Quote, Escaped
    <2>2. PICK S : S = STRING
      OBVIOUS
    <2>3. SingleQuote \in S
      BY <2>2, WrittenAssumption DEF Written
    <2>4. flat \in Seq(S)
      BY <1>4, <2>2, Zenon DEF Word
    <2>5. /\ Len(q) = Len(flat) + 2 /\ q[1] = SingleQuote /\ q[Len(flat) + 2] = SingleQuote
          /\ \A y \in 1..Len(flat) : q[y + 1] = flat[y]
      BY <2>1, <2>3, <2>4, Wrapped
    <2> QED BY <1>6, <2>5
  <1>9. n \in Nat /\ m \in Nat /\ \A k \in 0..m : off[k] \in Nat
    BY <1>0, <1>6
  <1>10. o + off[m] + 2 <= n /\ \A x \in 1..(off[m] + 2) : l[o + x] = q[x]
    <2>1. off[m] \in Nat
      BY <1>9
    <2>2. o + (off[m] + 2) <= n /\ \A x \in 1..(off[m] + 2) : l[o + x] = q[x]
      BY <1>0, <1>7, <1>8 DEF Found
    <2> QED BY <2>1, <2>2
  <1>11. \A k \in 0..m : off[k] <= off[m]
    <2> SUFFICES ASSUME NEW k \in 0..m PROVE off[k] <= off[m]
      OBVIOUS
    <2> DEFINE P == {x \in k..m : off[k] <= off[x]}
    <2>1. k \in P
      BY <1>9
    <2>2. ASSUME NEW x \in (k + 1)..m, x - 1 \in P
          PROVE  x \in P
      <3>1. x \in 1..m /\ x - 1 \in 0..m /\ x \in k..m /\ x \in 0..m
        BY <1>9
      <3>2. off[x] = off[x - 1] + Len(e[x]) /\ off[k] <= off[x - 1]
        BY <1>6, <2>2, <3>1
      <3>3. Len(e[x]) \in Nat
        BY <1>0, <1>1, <3>1, EscapedFact
      <3>4. off[k] \in Nat /\ off[x - 1] \in Nat
        BY <1>9, <3>1
      <3>5. off[k] <= off[x]
        BY <3>2, <3>3, <3>4
      <3> QED BY <3>1, <3>5
    <2>3. m \in P
      <3>1. m \in k..m /\ k \in Nat
        BY <1>9
      <3> HIDE DEF P
      <3> QED BY <1>9, <2>1, <2>2, <3>1, Between
    <2> QED BY <2>3
  <1>12. ASSUME NEW k \in 1..m, NEW y \in 1..4, off[k - 1] + y <= off[m]
         PROVE  l[o + 1 + off[k - 1] + y] = flat[off[k - 1] + y]
    <2>1. k - 1 \in 0..m
      BY <1>9
    <2>2. PICK a, f \in Nat : a = off[k - 1] /\ f = off[m]
      BY <1>9, <2>1
    <2>3. a + y \in 1..f /\ a + y + 1 \in 1..(f + 2) /\ o + (a + y + 1) = o + 1 + a + y
      BY <1>12, <2>2
    <2>4. l[o + (a + y + 1)] = q[a + y + 1] /\ q[a + y + 1] = flat[a + y]
      BY <1>8, <1>10, <2>2, <2>3
    <2> QED BY <2>2, <2>3, <2>4
  <1>13. ASSUME NEW k \in 1..m
         PROVE  /\ off[k] <= off[m]
                /\ w[k] # SingleQuote => off[k] = off[k - 1] + 1 /\ l[o + 1 + off[k - 1] + 1] = w[k]
                /\ w[k] = SingleQuote =>
                      /\ off[k] = off[k - 1] + 4
                      /\ l[o + 1 + off[k - 1] + 1] = SingleQuote /\ l[o + 1 + off[k - 1] + 2] = Backslash
                      /\ l[o + 1 + off[k - 1] + 3] = SingleQuote /\ l[o + 1 + off[k - 1] + 4] = SingleQuote
    <2>1. k \in 0..m /\ k - 1 \in 0..m
      BY <1>9
    <2>2. off[k] <= off[m] /\ off[k] = off[k - 1] + Len(e[k])
      BY <1>6, <1>11, <2>1
    <2>3. off[k - 1] \in Nat /\ off[m] \in Nat
      BY <1>9, <2>1
    <2>4. CASE w[k] # SingleQuote
      <3>1. Len(e[k]) = 1 /\ e[k][1] = w[k]
        BY <1>0, <1>1, <2>4, EscapedFact
      <3>2. off[k - 1] + 1 <= off[m]
        BY <2>2, <2>3, <3>1
      <3>3. l[o + 1 + off[k - 1] + 1] = flat[off[k - 1] + 1] /\ flat[off[k - 1] + 1] = e[k][1]
        BY <1>6, <1>12, <3>1, <3>2
      <3> QED BY <2>2, <2>4, <3>1, <3>3
    <2>5. CASE w[k] = SingleQuote
      <3>1. Len(e[k]) = 4 /\ e[k][1] = SingleQuote /\ e[k][2] = Backslash
            /\ e[k][3] = SingleQuote /\ e[k][4] = SingleQuote
        BY <1>0, <1>1, <2>5, EscapedFact
      <3>2. \A y \in 1..4 : off[k - 1] + y <= off[m]
        BY <2>2, <2>3, <3>1
      <3>3. \A y \in 1..4 : l[o + 1 + off[k - 1] + y] = e[k][y]
        <4> SUFFICES ASSUME NEW y \in 1..4 PROVE l[o + 1 + off[k - 1] + y] = e[k][y]
          OBVIOUS
        <4>1. l[o + 1 + off[k - 1] + y] = flat[off[k - 1] + y]
          BY <1>12, <3>2
        <4>2. flat[off[k - 1] + y] = e[k][y]
          BY <1>6, <3>1
        <4> QED BY <4>1, <4>2
      <3>4. 1 \in 1..4 /\ 2 \in 1..4 /\ 3 \in 1..4 /\ 4 \in 1..4
        OBVIOUS
      <3> QED BY <2>2, <2>5, <3>1, <3>3, <3>4
    <2> QED BY <2>4, <2>5
  <1>14. /\ o + 1 \in 1..n /\ o + 1 + off[m] + 1 <= n
         /\ l[o + 1] = SingleQuote /\ l[o + 1 + off[m] + 1] = SingleQuote
    <2>1. PICK f \in Nat : f = off[m]
      BY <1>9
    <2>2. o + 1 \in 1..n /\ o + 1 + f + 1 <= n /\ 1 \in 1..(f + 2) /\ f + 2 \in 1..(f + 2)
          /\ o + (f + 2) = o + 1 + f + 1
      BY <1>9, <1>10, <2>1
    <2> QED BY <1>8, <1>10, <2>1, <2>2
  <1>15. InQuotes(l, o + 1, w, off)
    BY <1>0, <1>6, <1>13, <1>14 DEF InQuotes
  <1> QED BY <1>0, <1>7, <1>8, <1>15

(* So every word is read back as it was before quote.                        *)
LEMMA WordRead ==
    ASSUME NEW l \in Word, NEW st, IsParse(st, l), NEW p \in Reached(st, l),
           NEW o \in Nat, p.i = o + 1, NEW w \in Word, Found(l, o, Quote(w))
    PROVE  Take(p, w, o + 1 + Len(Quote(w))) \in Reached(st, l)
  <1>1. CASE NeedsNoQuotes(w)
    <2>1. Quote(w) = w /\ w # <<>> /\ \A x \in 1..Len(w) : w[x] \notin Special
      <3>1. \A x \in 1..Len(w) : w[x] \in Range(w)
        BY LineFacts DEF Range
      <3> QED BY <1>1, <3>1 DEF Quote, NeedsNoQuotes
    <2> QED BY <2>1, BareRead
  <1>2. CASE ~NeedsNoQuotes(w)
    <2>1. PICK off : InQuotes(l, o + 1, w, off) /\ Len(Quote(w)) = off[Len(w)] + 2
      BY <1>2, FoundQuoted
    <2>2. Take(p, w, o + 1 + off[Len(w)] + 2) \in Reached(st, l)
      BY <2>1, QuotedRead
    <2>3. off[Len(w)] \in Nat
      <3>1. Len(w) \in 0..Len(w)
        BY LineFacts
      <3> QED BY <2>1, <3>1 DEF InQuotes
    <2>4. o + 1 + Len(Quote(w)) = o + 1 + off[Len(w)] + 2
      BY <2>1, <2>3
    <2> QED BY <2>2, <2>4
  <1> QED BY <1>1, <1>2

(* Reading a line of plain words: behind a blank...                          *)
AfterBlank(i, words) ==
    [i |-> i, current |-> <<>>, has |-> FALSE, words |-> words, readsPipe |-> FALSE,
     pending |-> FALSE, segments |-> <<>>, opaque |-> FALSE, targets |-> <<>>]

(* ... and behind a word.                                                    *)
AfterWord(i, current, words) ==
    [i |-> i, current |-> current, has |-> TRUE, words |-> words, readsPipe |-> FALSE,
     pending |-> FALSE, segments |-> <<>>, opaque |-> FALSE, targets |-> <<>>]

(* A word is taken, and a blank hands it over...                             *)
LEMMA ReadingFacts ==
    ASSUME NEW i, NEW ws \in Words, NEW w \in Word, NEW j
    PROVE  /\ Take(AfterBlank(i, ws), w, j) = AfterWord(j, w, ws)
           /\ PushWord(AfterWord(i, w, ws)) = AfterBlank(i, Append(ws, w))
           /\ Start = AfterBlank(1, <<>>)
  <1>1. Take(AfterBlank(i, ws), w, j) = AfterWord(j, w, ws)
    <2>1. PICK c : c = <<>> \o w
      OBVIOUS
    <2>2. c = w
      BY <2>1, WordLaws
    <2>3. Take(AfterBlank(i, ws), w, j)
             = [AfterBlank(i, ws) EXCEPT !.has = TRUE, !.current = c, !.i = j]
      BY <2>1 DEF Take, AfterBlank
    <2> QED BY <2>2, <2>3 DEF AfterBlank, AfterWord
  <1>2. PushWord(AfterWord(i, w, ws)) = AfterBlank(i, Append(ws, w))
    <2>1. PICK v : v = Append(ws, w)
      OBVIOUS
    <2>2. PushWord(AfterWord(i, w, ws))
             = [AfterWord(i, w, ws) EXCEPT !.words = v, !.current = <<>>, !.has = FALSE]
      BY <2>1 DEF PushWord, AfterWord
    <2> QED BY <2>1, <2>2 DEF AfterBlank, AfterWord
  <1>3. Start = AfterBlank(1, <<>>)
    BY DEF Start, AfterBlank
  <1> QED BY <1>1, <1>2, <1>3

(* ... and is passed.                                                        *)
LEMMA ReadingMoves ==
    ASSUME NEW i, NEW ws \in Words
    PROVE  /\ AfterBlank(i, ws).i = i
           /\ [AfterBlank(i, ws) EXCEPT !.i = @ + 1] = AfterBlank(i + 1, ws)
  <1>1. PICK k : k = i + 1
    OBVIOUS
  <1>2. AfterBlank(i, ws).i = i
    BY DEF AfterBlank, AfterWord
  <1>3. PICK r : r = [AfterBlank(i, ws) EXCEPT !.i = k]
    OBVIOUS
  <1>4. r = AfterBlank(k, ws)
    BY <1>3 DEF AfterBlank, AfterWord
  <1> QED BY <1>1, <1>2, <1>3, <1>4

(* The words of a line one after the other, each behind a blank but the      *)
(* first.                                                                    *)
LEMMA WordsFound ==
    ASSUME NEW ws \in Words, NEW l \in Word, NEW off,
           IsLayout(off, [k \in 1..Len(ws) |-> IF k = 1 THEN Quote(ws[k]) ELSE <<Blank>> \o Quote(ws[k])], l)
    PROVE  /\ \A k \in 0..Len(ws) : off[k] \in Nat
           /\ off[0] = 0 /\ off[Len(ws)] = Len(l)
           /\ ws # <<>> => Found(l, 0, Quote(ws[1])) /\ off[1] = Len(Quote(ws[1]))
           /\ \A k \in 2..Len(ws) :
                 /\ off[k - 1] + 1 <= Len(l) /\ l[off[k - 1] + 1] = Blank
                 /\ Found(l, off[k - 1] + 1, Quote(ws[k]))
                 /\ off[k] = off[k - 1] + 1 + Len(Quote(ws[k]))
  <1>0. PICK m, n : m \in Nat /\ n \in Nat /\ m = Len(ws) /\ n = Len(l)
    <2>1. Len(ws) \in Nat
      BY LenProperties DEF Words
    <2> QED BY <2>1, LineFacts
  <1>1. PICK e : e = [k \in 1..m |-> IF k = 1 THEN Quote(ws[k]) ELSE <<Blank>> \o Quote(ws[k])]
    OBVIOUS
  <1>2. \A k \in 1..m : ws[k] \in Word /\ Quote(ws[k]) \in Word /\ Len(Quote(ws[k])) \in Nat
    <2>1. \A k \in 1..m : ws[k] \in Word
      BY <1>0, ElementOfSeq DEF Words, Word
    <2> QED BY <2>1, QuoteIsWord, LineFacts
  <1>3. \A k \in 1..m : e[k] \in Word
    <2>1. \A k \in 1..m : <<Blank>> \o Quote(ws[k]) \in Word
      BY <1>2, WordPieces
    <2> QED BY <1>1, <1>2, <2>1
  <1>4. Len(e) = m
    <2>1. e \in [1..m -> Word]
      BY <1>1, <1>3
    <2> QED BY <1>0, <2>1
  <1>5. /\ off \in [0..m -> Nat] /\ off[0] = 0 /\ n = off[m]
        /\ \A k \in 1..m : off[k] = off[k - 1] + Len(e[k])
        /\ \A k \in 1..m : \A j \in 1..Len(e[k]) : l[off[k - 1] + j] = e[k][j]
    <2>1. IsLayout(off, e, l)
      BY <1>0, <1>1
    <2> QED BY <1>0, <1>4, <2>1 DEF IsLayout
  <1>6. n \in Nat /\ m \in Nat /\ \A k \in 0..m : off[k] \in Nat
    BY <1>0, <1>5
  <1>7. \A k \in 0..m : off[k] <= n
    <2> SUFFICES ASSUME NEW k \in 0..m PROVE off[k] <= off[m]
      BY <1>5
    <2> DEFINE P == {x \in k..m : off[k] <= off[x]}
    <2>1. k \in P
      BY <1>6
    <2>2. ASSUME NEW x \in (k + 1)..m, x - 1 \in P
          PROVE  x \in P
      <3>1. x \in 1..m /\ x - 1 \in 0..m /\ x \in k..m /\ x \in 0..m
        BY <1>6
      <3>2. off[x] = off[x - 1] + Len(e[x]) /\ off[k] <= off[x - 1]
        BY <1>5, <2>2, <3>1
      <3>3. Len(e[x]) \in Nat
        BY <1>3, <3>1, LineFacts
      <3>4. off[k] \in Nat /\ off[x - 1] \in Nat
        BY <1>6, <3>1
      <3>5. off[k] <= off[x]
        BY <3>2, <3>3, <3>4
      <3> QED BY <3>1, <3>5
    <2>3. m \in P
      <3>1. m \in k..m /\ k \in Nat
        BY <1>6
      <3> HIDE DEF P
      <3> QED BY <1>6, <2>1, <2>2, <3>1, Between
    <2> QED BY <2>3
  <1>8. ASSUME ws # <<>>
        PROVE  Found(l, 0, Quote(ws[1])) /\ off[1] = Len(Quote(ws[1]))
    <2>1. m >= 1
      BY <1>0, <1>8, EmptySeq DEF Words
    <2>2. 1 \in 1..m /\ 1 \in 0..m /\ 1 - 1 = 0
      BY <1>6, <2>1
    <2>3. PICK q \in Word : q = Quote(ws[1]) /\ e[1] = q /\ Len(q) \in Nat
      BY <1>1, <1>2, <2>2
    <2>4. off[1] = off[0] + Len(q) /\ (\A j \in 1..Len(q) : l[off[0] + j] = q[j]) /\ off[1] <= n
      BY <1>5, <1>7, <2>2, <2>3
    <2>5. off[1] = Len(q) /\ 0 + Len(q) <= n /\ \A j \in 1..Len(q) : l[0 + j] = q[j]
      BY <1>5, <2>3, <2>4
    <2> QED BY <1>0, <2>3, <2>5 DEF Found
  <1>9. ASSUME NEW k \in 2..m
        PROVE  /\ off[k - 1] + 1 <= n /\ l[off[k - 1] + 1] = Blank
               /\ Found(l, off[k - 1] + 1, Quote(ws[k]))
               /\ off[k] = off[k - 1] + 1 + Len(Quote(ws[k]))
    <2>1. k \in 1..m /\ k \in 0..m /\ k # 1 /\ k - 1 \in 0..m
      BY <1>6
    <2>2. PICK q \in Word : q = Quote(ws[k]) /\ e[k] = <<Blank>> \o q /\ Len(q) \in Nat
      BY <1>1, <1>2, <2>1
    <2>3. Len(e[k]) = 1 + Len(q) /\ e[k][1] = Blank /\ \A x \in 1..Len(q) : e[k][1 + x] = q[x]
      <3>1. PICK S : S = STRING
        OBVIOUS
      <3>2. Blank \in S
        BY <3>1, WrittenAssumption DEF Written
      <3>3. q \in Seq(S)
        BY <2>2, <3>1, Zenon DEF Word
      <3>4. <<Blank>> \in Seq(S) /\ Len(<<Blank>>) = 1 /\ <<Blank>>[1] = Blank
        BY <3>2
      <3> QED BY <2>2, <3>2, <3>3, <3>4
    <2>4. PICK a, b \in Nat : a = off[k - 1] /\ b = off[k]
      BY <1>6, <2>1
    <2>5. b = a + (1 + Len(q)) /\ b <= n
      BY <1>5, <1>7, <2>1, <2>3, <2>4
    <2>6. \A j \in 1..(1 + Len(q)) : l[a + j] = e[k][j]
      BY <1>5, <2>1, <2>3, <2>4
    <2>7. a \in Nat /\ a + 1 <= n /\ b = a + 1 + Len(q) /\ a + 1 + Len(q) <= n /\ 1 \in 1..(1 + Len(q))
      <3>1. PICK z \in Nat : z = Len(q)
        BY <2>2
      <3>2. b = a + (1 + z) /\ b <= n /\ a \in Nat /\ z \in Nat /\ n \in Nat
        BY <1>6, <2>4, <2>5, <3>1
      <3>3. a + 1 <= n /\ b = a + 1 + z /\ a + 1 + z <= n /\ 1 \in 1..(1 + z)
        BY <3>2
      <3> QED BY <3>1, <3>2, <3>3
    <2>8. l[a + 1] = Blank
      BY <2>3, <2>6, <2>7
    <2>9. ASSUME NEW x \in 1..Len(q)
          PROVE  l[a + 1 + x] = q[x]
      <3>1. 1 + x \in 1..(1 + Len(q)) /\ a + 1 + x = a + (1 + x)
        BY <2>2, <2>7
      <3> QED BY <2>3, <2>6, <3>1
    <2>10. Found(l, a + 1, q)
      BY <1>0, <2>7, <2>9 DEF Found
    <2> QED BY <2>2, <2>4, <2>7, <2>8, <2>10
  <1> QED BY <1>0, <1>5, <1>6, <1>8, <1>9

(* A line that joins quoted words is read as those words.                    *)
QuotedLine(ws) == Joined([k \in 1..Len(ws) |-> Quote(ws[k])])

(* Where its words stand.                                                    *)
LEMMA QuotedLineLayout ==
    ASSUME NEW ws \in Words
    PROVE  /\ QuotedLine(ws) \in Word
           /\ \E off : IsLayout(off, [k \in 1..Len(ws) |->
                 IF k = 1 THEN Quote(ws[k]) ELSE <<Blank>> \o Quote(ws[k])], QuotedLine(ws))
  <1>0. PICK m \in Nat : m = Len(ws)
    BY LenProperties DEF Words
  <1> m \in Nat
    BY <1>0
  <1>1. \A k \in 1..m : Quote(ws[k]) \in Word
    <2>1. \A k \in 1..m : ws[k] \in Word
      BY <1>0, ElementOfSeq DEF Words, Word
    <2> QED BY <2>1, QuoteIsWord
  <1>2. PICK parts : parts = [k \in 1..m |-> Quote(ws[k])]
    OBVIOUS
  <1>3. parts \in Seq(Word) /\ DOMAIN parts = 1..m /\ \A k \in 1..m : parts[k] = Quote(ws[k])
    BY <1>1, <1>2
  <1>4. QuotedLine(ws) = Joined(parts) /\ parts \in Words
    BY <1>0, <1>2, <1>3 DEF QuotedLine, Words, Word
  <1>5. PICK e : e = [k \in 1..m |-> IF k = 1 THEN Quote(ws[k]) ELSE <<Blank>> \o Quote(ws[k])]
    OBVIOUS
  <1>6. e = [k \in DOMAIN parts |-> IF k = 1 THEN parts[k] ELSE <<Blank>> \o parts[k]]
    BY <1>3, <1>5
  <1>7. e \in Seq(Word)
    <2>1. \A k \in 1..m : <<Blank>> \o Quote(ws[k]) \in Word
      BY <1>1, WordPieces
    <2> QED BY <1>1, <1>5, <2>1
  <1>8. \E off : IsLayout(off, e, FlattenSeq(e))
    <2>1. e \in Seq(Seq(STRING))
      BY <1>7 DEF Word
    <2> QED BY <2>1, FlattenLayout
  <1>9. QuotedLine(ws) = FlattenSeq(e)
    BY <1>4, <1>6 DEF Joined
  <1> QED BY <1>0, <1>4, <1>5, <1>8, <1>9, JoinedIsLine

(* The first words of a sequence of words.                                   *)
LEMMA FirstWords ==
    ASSUME NEW ws \in Words
    PROVE  /\ SubSeq(ws, 1, 0) = <<>> /\ <<>> \in Words
           /\ SubSeq(ws, 1, Len(ws)) = ws
           /\ \A k \in 1..Len(ws) : /\ ws[k] \in Word /\ SubSeq(ws, 1, k - 1) \in Words
                                    /\ SubSeq(ws, 1, k) = Append(SubSeq(ws, 1, k - 1), ws[k])
  <1>1. PICK W : W = Word
    OBVIOUS
  <1>2. ws \in Seq(W) /\ Words = Seq(W)
    BY <1>1 DEF Words, Word
  <1>3. \A k \in 1..Len(ws) : ws[k] \in W /\ SubSeq(ws, 1, k - 1) \in Seq(W)
    BY <1>2
  <1>4. \A s \in Seq(W) : \A x \in W : Append(s, x) = s \o <<x>>
    BY AppendIsConcat
  <1>5. \A k \in 1..Len(ws) : SubSeq(ws, 1, k) = SubSeq(ws, 1, k - 1) \o <<ws[k]>>
    BY <1>2, SequenceLaws
  <1>6. SubSeq(ws, 1, 0) = <<>> /\ SubSeq(ws, 1, Len(ws)) = ws
    BY <1>2, SequenceLaws
  <1>7. \A k \in 1..Len(ws) : SubSeq(ws, 1, k) = Append(SubSeq(ws, 1, k - 1), ws[k])
    BY <1>3, <1>4, <1>5
  <1>8. <<>> \in Seq(W)
    OBVIOUS
  <1> QED BY <1>1, <1>2, <1>3, <1>6, <1>7, <1>8

(* parse has read all the words but the last and is about to hand that one   *)
(* over.                                                                     *)
LEMMA QuotedLineRead ==
    ASSUME NEW ws \in Words, ws # <<>>, NEW l \in Word, NEW st, IsParse(st, l), NEW off,
           IsLayout(off, [k \in 1..Len(ws) |-> IF k = 1 THEN Quote(ws[k]) ELSE <<Blank>> \o Quote(ws[k])], l)
    PROVE  st[Len(l)] = AfterWord(Len(l) + 1, ws[Len(ws)], SubSeq(ws, 1, Len(ws) - 1))
  <1>0. PICK m, n : m \in Nat /\ n \in Nat /\ m = Len(ws) /\ n = Len(l)
    <2>1. Len(ws) \in Nat
      BY LenProperties DEF Words
    <2> QED BY <2>1, LineFacts
  <1>1. m \in Nat /\ n \in Nat /\ m >= 1
    BY <1>0, EmptySeq DEF Words
  <1>2. /\ \A k \in 0..m : off[k] \in Nat
        /\ off[m] = n /\ Found(l, 0, Quote(ws[1])) /\ off[1] = Len(Quote(ws[1]))
        /\ \A k \in 2..m :
              /\ off[k - 1] + 1 <= n /\ l[off[k - 1] + 1] = Blank
              /\ Found(l, off[k - 1] + 1, Quote(ws[k]))
              /\ off[k] = off[k - 1] + 1 + Len(Quote(ws[k]))
    <2>1. /\ \A k \in 0..Len(ws) : off[k] \in Nat
          /\ off[Len(ws)] = Len(l) /\ Found(l, 0, Quote(ws[1])) /\ off[1] = Len(Quote(ws[1]))
          /\ \A k \in 2..Len(ws) :
                /\ off[k - 1] + 1 <= Len(l) /\ l[off[k - 1] + 1] = Blank
                /\ Found(l, off[k - 1] + 1, Quote(ws[k]))
                /\ off[k] = off[k - 1] + 1 + Len(Quote(ws[k]))
      BY WordsFound
    <2> QED BY <1>0, <2>1
  <1>3. /\ <<>> \in Words /\ SubSeq(ws, 1, 0) = <<>>
        /\ \A k \in 1..m : /\ ws[k] \in Word /\ SubSeq(ws, 1, k - 1) \in Words
                           /\ SubSeq(ws, 1, k) = Append(SubSeq(ws, 1, k - 1), ws[k])
    BY <1>0, FirstWords
  <1> DEFINE P == {k \in 1..m : AfterWord(off[k] + 1, ws[k], SubSeq(ws, 1, k - 1)) \in Reached(st, l)}
  <1>4. 1 \in P
    <2>1. 1 \in 1..m /\ 1 - 1 = 0 /\ 0 \in 0..n
      BY <1>1
    <2>2. Start \in Reached(st, l)
      BY <1>0, <2>1 DEF Reached, IsParse
    <2>3. ws[1] \in Word /\ Start.i = 0 + 1
      BY <1>3, <2>1 DEF Start
    <2>4. Take(Start, ws[1], 0 + 1 + Len(Quote(ws[1]))) \in Reached(st, l)
      BY <1>2, <2>2, <2>3, WordRead
    <2>5. PICK b \in Nat : b = off[1]
      BY <1>1, <1>2
    <2>6. 0 + 1 + Len(Quote(ws[1])) = off[1] + 1
      <3>1. b = Len(Quote(ws[1])) /\ b \in Nat
        BY <1>2, <2>5
      <3> QED BY <2>5, <3>1
    <2>7. Take(Start, ws[1], off[1] + 1) = AfterWord(off[1] + 1, ws[1], <<>>)
      <3>1. PICK j : j = off[1] + 1
        OBVIOUS
      <3>2. Start = AfterBlank(1, <<>>)
        BY <1>3, <2>3, ReadingFacts
      <3>3. PICK i, e : i = 1 /\ e = <<>>
        OBVIOUS
      <3>4. Take(AfterBlank(i, e), ws[1], j) = AfterWord(j, ws[1], e)
        <4>1. e \in Words /\ ws[1] \in Word
          BY <1>3, <2>3, <3>3
        <4> QED BY <4>1, ReadingFacts
      <3> QED BY <3>1, <3>2, <3>3, <3>4
    <2>8. AfterWord(off[1] + 1, ws[1], SubSeq(ws, 1, 1 - 1)) \in Reached(st, l)
      BY <1>3, <2>1, <2>4, <2>6, <2>7
    <2> QED BY <2>1, <2>8
  <1>5. ASSUME NEW k \in (1 + 1)..m, k - 1 \in P
        PROVE  k \in P
    <2>1. k \in 2..m /\ k \in 1..m /\ k - 1 \in 1..m /\ k - 1 \in 0..m
      BY <1>1
    <2>2. PICK a, v, u, ws0, ws1 :
             /\ a = off[k - 1] /\ v = ws[k - 1] /\ u = ws[k]
             /\ ws0 = SubSeq(ws, 1, k - 1 - 1) /\ ws1 = SubSeq(ws, 1, k - 1)
      OBVIOUS
    <2>3. /\ a \in Nat /\ v \in Word /\ u \in Word /\ ws0 \in Words /\ ws1 \in Words
          /\ ws1 = Append(ws0, v) /\ a + 1 <= n /\ l[a + 1] = Blank
          /\ Found(l, a + 1, Quote(u)) /\ off[k] = a + 1 + Len(Quote(u))
      BY <1>2, <1>3, <2>1, <2>2
    <2>4. AfterWord(a + 1, v, ws0) \in Reached(st, l)
      BY <1>5, <2>2
    <2>5. PICK p : p = AfterWord(a + 1, v, ws0)
      OBVIOUS
    <2>6. p \in ParserState /\ p.i = a + 1 /\ (p.i <= n => ParseStep(l, p) \in Reached(st, l))
      <3>1. p.i = a + 1
        BY <2>5 DEF AfterBlank, AfterWord
      <3> QED BY <1>0, <2>4, <2>5, <3>1, ReachNext
    <2>7. a + 1 \in 1..n /\ a + 1 \in Nat
      BY <1>1, <2>3
    <2>8. ParseStep(l, p) = [PushWord(p) EXCEPT !.i = @ + 1]
      BY <1>0, <2>3, <2>6, <2>7, RenderedArms
    <2>9. PushWord(p) = AfterBlank(a + 1, ws1)
      BY <2>3, <2>5, ReadingFacts
    <2>10. PICK q : q = AfterBlank(a + 1 + 1, ws1)
      OBVIOUS
    <2>11. ParseStep(l, p) = q
      BY <2>3, <2>8, <2>9, <2>10, ReadingMoves
    <2>12. q \in Reached(st, l) /\ q.i = (a + 1) + 1
      <3>1. q.i = (a + 1) + 1
        BY <2>10 DEF AfterBlank, AfterWord
      <3>2. p.i <= n
        BY <2>3, <2>6
      <3> QED BY <2>6, <2>11, <3>1, <3>2
    <2>13. Take(q, u, (a + 1) + 1 + Len(Quote(u))) \in Reached(st, l)
      BY <2>3, <2>7, <2>12, WordRead
    <2>14. (a + 1) + 1 + Len(Quote(u)) = off[k] + 1
      <3>1. PICK z \in Nat : z = Len(Quote(u))
        BY <2>3, QuoteIsWord, LineFacts
      <3>2. off[k] = a + 1 + z /\ a \in Nat /\ z \in Nat
        BY <2>3, <3>1
      <3>3. (a + 1) + 1 + z = off[k] + 1
        BY <3>2
      <3> QED BY <3>1, <3>3
    <2>15. Take(q, u, off[k] + 1) = AfterWord(off[k] + 1, u, ws1)
      <3>1. PICK i, j : i = a + 1 + 1 /\ j = off[k] + 1
        OBVIOUS
      <3>2. Take(AfterBlank(i, ws1), u, j) = AfterWord(j, u, ws1)
        BY <2>3, ReadingFacts
      <3> QED BY <2>10, <3>1, <3>2
    <2> QED BY <2>1, <2>2, <2>13, <2>14, <2>15
  <1>6. m \in P
    <2>1. m \in 1..m /\ 1 \in Nat
      BY <1>1
    <2> HIDE DEF P
    <2> QED BY <1>1, <1>4, <1>5, <2>1, Between
  <1>7. PICK p : p = AfterWord(n + 1, ws[m], SubSeq(ws, 1, m - 1))
    OBVIOUS
  <1>8. p \in Reached(st, l) /\ p.i > n
    <2>1. p.i = n + 1
      BY <1>7 DEF AfterBlank, AfterWord
    <2>2. p \in Reached(st, l)
      BY <1>2, <1>6, <1>7
    <2>3. n + 1 > n
      BY <1>1
    <2> QED BY <2>1, <2>2, <2>3
  <1> QED BY <1>0, <1>7, <1>8, ReachEnd

(* So it is one segment, of exactly those words.                             *)
LEMMA QuotedLineParsed ==
    ASSUME NEW ws \in Words, ws # <<>>
    PROVE  /\ Parse(QuotedLine(ws)).segments = <<BuildSegment(ws, FALSE)>>
           /\ ~Parse(QuotedLine(ws)).opaque /\ Parse(QuotedLine(ws)).targets = <<>>
           /\ QuotedLine(ws) # <<>>
  <1>1. PICK l \in Word : l = QuotedLine(ws)
    BY QuotedLineLayout
  <1>2. PICK off : IsLayout(off, [k \in 1..Len(ws) |->
             IF k = 1 THEN Quote(ws[k]) ELSE <<Blank>> \o Quote(ws[k])], l)
    BY <1>1, QuotedLineLayout
  <1>3. PICK st : IsParse(st, l) /\ Parse(l) = EndSegment(PushWord(st[Len(l)]), FALSE)
    BY ParseTurns
  <1>4. PICK n : n = Len(l) + 1
    OBVIOUS
  <1>5. PICK v, w : v = SubSeq(ws, 1, Len(ws) - 1) /\ w = ws[Len(ws)]
    OBVIOUS
  <1>6. v \in Words /\ w \in Word /\ Append(v, w) = ws
    <2>1. Len(ws) \in 1..Len(ws)
      BY EmptySeq, LenProperties DEF Words
    <2> QED BY <1>5, <2>1, FirstWords
  <1>7. st[Len(l)] = AfterWord(n, w, v)
    BY <1>2, <1>3, <1>4, <1>5, QuotedLineRead
  <1>8. PushWord(st[Len(l)]) = AfterBlank(n, ws)
    BY <1>6, <1>7, ReadingFacts
  <1>9. PICK p : p = EndSegment(AfterBlank(n, ws), FALSE)
    OBVIOUS
  <1>10. p.segments = <<BuildSegment(ws, FALSE)>> /\ ~p.opaque /\ p.targets = <<>>
    <2>1. PICK s : s = BuildSegment(ws, FALSE)
      OBVIOUS
    <2>2. PICK r : r = AfterBlank(n, ws)
      OBVIOUS
    <2>3. r.words = ws /\ r.readsPipe = FALSE /\ r.segments = <<>> /\ r.opaque = FALSE /\ r.targets = <<>>
      BY <2>2 DEF AfterBlank, AfterWord
    <2>4. DOMAIN r = {"i", "current", "has", "words", "readsPipe", "pending", "segments", "opaque", "targets"}
      BY <2>2 DEF AfterBlank, AfterWord
    <2>5. p = [r EXCEPT !.segments = <<s>>, !.words = <<>>, !.readsPipe = FALSE]
      <3>1. Append(<<>>, s) = <<s>>
        OBVIOUS
      <3> QED BY <1>9, <2>1, <2>2, <2>3, <3>1 DEF EndSegment
    <2> QED BY <2>1, <2>3, <2>4, <2>5
  <1>11. Parse(l) = p
    BY <1>3, <1>8, <1>9
  <1>12. l # <<>>
    <2> SUFFICES ASSUME l = <<>> PROVE FALSE
      OBVIOUS
    <2>1. st[0] = Start /\ Len(l) = 0
      BY <1>3 DEF IsParse
    <2>2. Start.has = FALSE
      BY DEF Start
    <2>3. AfterWord(n, w, v).has = TRUE
      BY DEF AfterBlank, AfterWord
    <2> QED BY <1>7, <2>1, <2>2, <2>3
  <1> QED BY <1>1, <1>10, <1>11, <1>12

(* What every turn leaves alone stays to the end, ...                        *)
LEMMA HistorySettles ==
    ASSUME NEW n \in Nat, NEW V, NEW base \in V, NEW H, NEW st, IsHistory(st, n, V, base, H),
           NEW j \in 0..n, NEW y, st[j] = y, \A k \in 1..n : H[k][y] = y
    PROVE  st[n] = y
  <1> DEFINE P == {k \in j..n : st[k] = y}
  <1>1. j \in P /\ j \in Nat /\ n \in j..n
    OBVIOUS
  <1>2. ASSUME NEW k \in (j + 1)..n, k - 1 \in P
        PROVE  k \in P
    <2>1. k \in 1..n /\ k \in j..n
      BY <1>1
    <2>2. st[k] = H[k][st[k - 1]]
      BY <2>1 DEF IsHistory
    <2> QED BY <1>2, <2>1, <2>2
  <1>3. n \in P
    <2> HIDE DEF P
    <2> QED BY <1>1, <1>2, Between
  <1> QED BY <1>3

(* A program that is none of the wrappers, nor an assignment or an option.   *)
Proper(w) ==
    /\ NeedsNoQuotes(w) /\ ~IsOption(w) /\ Name(w) \notin {"-u", "--user"}
    /\ Base(w) \notin Wrappers \cup {"sudo", "doas", "env"}

(* A word without an assignment in it is none.                               *)
LEMMA ProperIsNoAssignment ==
    ASSUME NEW w \in Word, Range(w) \cap Assignments = {}
    PROVE  ~IsAssignment(w)
  <1>1. \A k \in DOMAIN w : w[k] \in Range(w)
    BY DEF Range
  <1> QED BY <1>1 DEF IsAssignment

(* The words of a command in a segment.                                      *)
LEMMA CommandWords ==
    ASSUME NEW w \in Word, NEW args \in Words
    PROVE  /\ <<w>> \o args \in Words /\ <<w>> \o args # <<>> /\ (<<w>> \o args)[1] = w
           /\ Tail(<<w>> \o args) = args /\ Len(<<w>> \o args) = Len(args) + 1
  <1>1. PICK W : W = Word
    OBVIOUS
  <1>2. Words = Seq(W) /\ w \in W /\ args \in Seq(W)
    BY <1>1 DEF Words, Word
  <1>3. <<w>> \o args \in Seq(W) /\ Len(<<w>> \o args) = Len(args) + 1 /\ (<<w>> \o args)[1] = w
    BY <1>2
  <1>4. <<w>> \o args # <<>>
    BY <1>2, <1>3, EmptySeq
  <1>5. Tail(<<w>> \o args) = args
    <2>1. PICK s \in Seq(W) : s = <<w>> \o args
      BY <1>3
    <2>2. Len(s) = Len(args) + 1 /\ \A k \in 1..Len(args) : s[k + 1] = args[k]
      BY <1>2, <2>1
    <2>3. Tail(s) \in Seq(W) /\ Len(Tail(s)) = Len(args) /\ \A k \in 1..Len(args) : Tail(s)[k] = s[k + 1]
      BY <1>2, <2>1, <2>2
    <2> QED BY <1>2, <2>1, <2>2, <2>3, SeqEqual
  <1> QED BY <1>2, <1>3, <1>4, <1>5

(* build_segment takes nothing off before a proper program.                  *)
LEMMA UnwrapLeavesProper ==
    ASSUME NEW seg \in Segment, seg.words # <<>>, seg.words[1] \in Word, Proper(seg.words[1])
    PROVE  Unwrap(seg) = seg
  <1>1. PICK w \in Word : w = seg.words[1] /\ Proper(w)
    OBVIOUS
  <1>2. Range(w) \cap Assignments = {}
    BY <1>1 DEF Proper, NeedsNoQuotes
  <1>3. ~IsAssignment(w)
    BY <1>2, ProperIsNoAssignment
  <1>4. Unwrap(seg) = UnwrapAt(seg, Tail(seg.words), Base(w))
    BY <1>1, <1>3 DEF Unwrap
  <1>5. PICK b : b = Base(w)
    OBVIOUS
  <1>6. b \notin {"sudo", "doas"} /\ b \notin Wrappers /\ b # "env"
    BY <1>1, <1>5 DEF Proper
  <1> QED BY <1>4, <1>5, <1>6 DEF UnwrapAt

(* The words of a Cmd, before they are quoted.                               *)
CommandLine(cmd) == <<cmd.program>> \o cmd.args
ToRead(cmd) == IF cmd.sudo THEN <<<<"sudo">>>> \o (<<<<"-n">>>> \o CommandLine(cmd)) ELSE CommandLine(cmd)

(* What render puts in front is read as what it is.                          *)
LEMMA SudoIsBare ==
    /\ Quote(<<"sudo">>) = <<"sudo">> /\ Quote(<<"-n">>) = <<"-n">>
    /\ Base(<<"sudo">>) = "sudo" /\ ~IsAssignment(<<"sudo">>)
    /\ IsOption(<<"-n">>) /\ Name(<<"-n">>) = "-n"
  <1>1. PICK a, b : a = "sudo" /\ b = "-n"
    OBVIOUS
  <1>2. Range(<<a>>) = {a} /\ Range(<<b>>) = {b} /\ <<a>> # <<>> /\ <<b>> # <<>>
    <2> SUFFICES ASSUME NEW c PROVE Range(<<c>>) = {c} /\ <<c>> # <<>>
      OBVIOUS
    <2>1. DOMAIN <<c>> = 1..1 /\ <<c>>[1] = c /\ Len(<<c>>) = 1
      OBVIOUS
    <2>2. 1..1 = {1}
      OBVIOUS
    <2>3. PICK s : s = <<c>>
      OBVIOUS
    <2>4. DOMAIN s = {1} /\ s[1] = c /\ Len(s) = 1
      BY <2>1, <2>2, <2>3
    <2>5. Range(s) = {c}
      BY <2>4 DEF Range
    <2>6. Len(<<>>) = 0
      OBVIOUS
    <2>7. s # <<>>
      BY <2>4, <2>6
    <2> QED BY <2>3, <2>5, <2>7
  <1>3. a \notin Special \cup Assignments \cup {"*"} /\ b \notin Special \cup Assignments \cup {"*"}
    BY <1>1, SudoAssumption DEF Special, Separators, Blank, SingleQuote, DoubleQuote, Backslash, Backtick
  <1>4. NeedsNoQuotes(<<a>>) /\ NeedsNoQuotes(<<b>>)
    BY <1>2, <1>3 DEF NeedsNoQuotes
  <1>5. Quote(<<a>>) = <<a>> /\ Quote(<<b>>) = <<b>>
    BY <1>4 DEF Quote
  <1>6. Name(<<a>>) = a /\ Name(<<b>>) = b
    BY <1>2 DEF Name
  <1>7. Last(<<a>>) = a
    BY DEF Last
  <1>8. Base(<<a>>) = a
    BY <1>1, <1>6, <1>7, SudoAssumption DEF Base
  <1>9. IsOption(<<b>>)
    BY <1>1, <1>2, SudoAssumption DEF IsOption
  <1>10. ~IsAssignment(<<a>>)
    BY <1>1, SudoAssumption DEF IsAssignment
  <1> QED BY <1>1, <1>5, <1>6, <1>8, <1>9, <1>10

(* These are words, and there are some.                                      *)
LEMMA ToReadIsWords ==
    ASSUME NEW cmd \in Built
    PROVE  /\ CommandLine(cmd) \in Words /\ CommandLine(cmd) # <<>> /\ CommandLine(cmd)[1] = cmd.program
           /\ <<<<"-n">>>> \o CommandLine(cmd) \in Words
           /\ ToRead(cmd) \in Words /\ ToRead(cmd) # <<>>
  <1>1. cmd.program \in Word /\ cmd.args \in Words
    BY DEF Built, Word, Words
  <1>2. PICK w \in Word, args \in Words : w = cmd.program /\ args = cmd.args
    BY <1>1
  <1>3. PICK c : c = CommandLine(cmd)
    OBVIOUS
  <1>4. c \in Words /\ c # <<>> /\ c[1] = cmd.program
    BY <1>2, <1>3, CommandWords DEF CommandLine
  <1>5. PICK a, b \in Word : a = <<"sudo">> /\ b = <<"-n">>
    BY WordPieces
  <1>6. <<b>> \o c \in Words
    BY <1>4, CommandWords
  <1>7. <<a>> \o (<<b>> \o c) \in Words /\ <<a>> \o (<<b>> \o c) # <<>>
    BY <1>6, CommandWords
  <1> QED BY <1>3, <1>4, <1>5, <1>6, <1>7 DEF ToRead

(* Quoting word by word is quoting the parts.                                *)
LEMMA RenderQuotes ==
    ASSUME NEW cmd \in Built
    PROVE  Render(cmd) = QuotedLine(ToRead(cmd))
  <1>1. cmd.program \in Word /\ cmd.args \in Seq(Word)
    BY DEF Built, Word
  <1>2. PICK W : W = Word
    OBVIOUS
  <1>3. PICK w, args, n : w = cmd.program /\ args = cmd.args /\ n = Len(cmd.args)
    OBVIOUS
  <1>4. w \in W /\ args \in Seq(W) /\ n \in Nat /\ DOMAIN args = 1..n /\ Len(args) = n
    BY <1>1, <1>2, <1>3, LenProperties
  <1>5. PICK f : f = [x \in W |-> Quote(x)]
    OBVIOUS
  <1>6. f \in [W -> W] /\ \A x \in W : f[x] = Quote(x)
    BY <1>2, <1>5, QuoteIsWord
  <1>7. PICK q : q = [k \in DOMAIN args |-> f[args[k]]]
    OBVIOUS
  <1>8. q = [k \in DOMAIN cmd.args |-> Quote(cmd.args[k])]
    BY <1>3, <1>4, <1>6, <1>7
  <1>9. PICK a, b \in W : a = <<"sudo">> /\ b = <<"-n">> /\ f[a] = a /\ f[b] = b
    BY <1>2, <1>6, WordPieces, SudoIsBare
  <1>10. q \in Seq(W) /\ Len(q) = n /\ \A k \in 1..n : q[k] = f[args[k]]
    BY <1>4, <1>6, <1>7
  <1>11. CASE cmd.sudo
    <2>1. PICK r : r = <<a>> \o (<<b>> \o (<<w>> \o args))
      OBVIOUS
    <2>2. r \in Seq(W) /\ Len(r) = n + 3 /\ r[1] = a /\ r[2] = b /\ r[3] = w
          /\ \A k \in 1..n : r[k + 3] = args[k]
      BY <1>4, <1>9, <2>1
    <2>3. PICK t : t = (<<a, b>> \o <<f[w]>>) \o q
      OBVIOUS
    <2>4. f[w] \in W
      BY <1>4, <1>6
    <2>5. t \in Seq(W) /\ Len(t) = n + 3 /\ t[1] = a /\ t[2] = b /\ t[3] = f[w]
          /\ \A k \in 1..n : t[k + 3] = q[k]
      BY <1>9, <1>10, <2>3, <2>4
    <2>6. \A k \in 1..(n + 3) : t[k] = f[r[k]]
      <3> SUFFICES ASSUME NEW k \in 1..(n + 3) PROVE t[k] = f[r[k]]
        OBVIOUS
      <3>1. CASE k \in 1..3
        <4>1. k = 1 \/ k = 2 \/ k = 3
          BY <3>1
        <4> QED BY <1>9, <2>2, <2>5, <4>1
      <3>2. CASE k > 3
        <4>1. PICK j \in 1..n : k = j + 3
          <5>1. k - 3 \in 1..n /\ k = (k - 3) + 3
            BY <1>4, <3>2
          <5> QED BY <5>1
        <4> QED BY <1>10, <2>2, <2>5, <4>1
      <3> QED BY <1>4, <3>1, <3>2
    <2>7. t = [k \in 1..Len(r) |-> f[r[k]]]
      BY <1>4, <2>2, <2>5, <2>6
    <2>8. t = [k \in 1..Len(r) |-> Quote(r[k])]
      <3>1. \A k \in 1..Len(r) : r[k] \in W
        BY <2>2
      <3> QED BY <1>6, <2>7, <3>1
    <2>9. ToRead(cmd) = r
      BY <1>3, <1>9, <1>11, <2>1 DEF ToRead, CommandLine
    <2>10. RenderedParts(cmd) = t
      <3>1. f[w] = Quote(cmd.program)
        BY <1>3, <1>4, <1>6
      <3> QED BY <1>8, <1>9, <1>11, <2>3, <3>1 DEF RenderedParts
    <2>11. Render(cmd) = Joined(t)
      BY <2>10, RenderIsLine
    <2> QED BY <2>8, <2>9, <2>11 DEF QuotedLine
  <1>12. CASE ~cmd.sudo
    <2>1. PICK r : r = <<w>> \o args
      OBVIOUS
    <2>2. r \in Seq(W) /\ Len(r) = n + 1 /\ r[1] = w /\ \A k \in 1..n : r[k + 1] = args[k]
      BY <1>4, <2>1
    <2>3. PICK t : t = (<<>> \o <<f[w]>>) \o q
      OBVIOUS
    <2>4. f[w] \in W
      BY <1>4, <1>6
    <2>5. t \in Seq(W) /\ Len(t) = n + 1 /\ t[1] = f[w] /\ \A k \in 1..n : t[k + 1] = q[k]
      <3>1. PICK z \in Seq(W) : z = <<f[w]>>
        <4>1. PICK v \in W : v = f[w]
          BY <2>4
        <4>2. <<v>> \in Seq(W)
          BY <4>1
        <4> QED BY <4>1, <4>2
      <3>2. <<>> \o z = z
        BY <3>1, SequenceLaws
      <3>3. t = <<f[w]>> \o q
        BY <2>3, <3>1, <3>2
      <3> QED BY <1>10, <2>4, <3>3
    <2>6. \A k \in 1..(n + 1) : t[k] = f[r[k]]
      <3> SUFFICES ASSUME NEW k \in 1..(n + 1) PROVE t[k] = f[r[k]]
        OBVIOUS
      <3>1. CASE k = 1
        BY <2>2, <2>5, <3>1
      <3>2. CASE k > 1
        <4>1. PICK j \in 1..n : k = j + 1
          <5>1. k - 1 \in 1..n /\ k = (k - 1) + 1
            BY <1>4, <3>2
          <5> QED BY <5>1
        <4> QED BY <1>10, <2>2, <2>5, <4>1
      <3> QED BY <1>4, <3>1, <3>2
    <2>7. t = [k \in 1..Len(r) |-> f[r[k]]]
      BY <1>4, <2>2, <2>5, <2>6
    <2>8. t = [k \in 1..Len(r) |-> Quote(r[k])]
      <3>1. \A k \in 1..Len(r) : r[k] \in W
        BY <2>2
      <3> QED BY <1>6, <2>7, <3>1
    <2>9. ToRead(cmd) = r
      BY <1>3, <1>12, <2>1 DEF ToRead, CommandLine
    <2>10. RenderedParts(cmd) = t
      <3>1. f[w] = Quote(cmd.program)
        BY <1>3, <1>4, <1>6
      <3> QED BY <1>8, <1>12, <2>3, <3>1 DEF RenderedParts
    <2>11. Render(cmd) = Joined(t)
      BY <2>10, RenderIsLine
    <2> QED BY <2>8, <2>9, <2>11 DEF QuotedLine
  <1> QED BY <1>11, <1>12

(* A segment that begins with the program is finished.                       *)
LEMMA SimpleStays ==
    ASSUME NEW cmd \in Built, Proper(cmd.program), NEW e \in BOOLEAN,
           NEW seg, seg = [words |-> CommandLine(cmd), elevated |-> e, readsPipe |-> FALSE]
    PROVE  seg \in Segment /\ Unwrap(seg) = seg
  <1>1. PICK c \in Words : c = CommandLine(cmd) /\ c # <<>> /\ c[1] = cmd.program
    BY ToReadIsWords
  <1>2. seg \in Segment /\ seg.words = c
    BY <1>1 DEF Segment, Words
  <1>3. cmd.program \in Word
    BY DEF Built, Word
  <1> QED BY <1>1, <1>2, <1>3, UnwrapLeavesProper

(* The loop of build_segment leaves a simple command alone, ...              *)
LEMMA SegmentStays ==
    ASSUME NEW seg \in Segment, Unwrap(seg) = seg, NEW n \in Nat
    PROVE  Repeat(Unwrap, seg, n) = seg
  <1>1. PICK H : H = [k \in 1..n |-> [y \in Segment |-> Unwrap(y)]]
    OBVIOUS
  <1>2. PICK st : IsHistory(st, n, Segment, seg, H) /\ Repeat(Unwrap, seg, n) = st[n]
    BY <1>1, UnwrapTurns
  <1>3. \A k \in 1..n : H[k][seg] = seg
    BY <1>1
  <1>4. 0 \in 0..n /\ st[0] = seg
    BY <1>2 DEF IsHistory
  <1>5. st[n] = seg
    BY <1>2, <1>3, <1>4, HistorySettles
  <1> QED BY <1>2, <1>5

(* ... and takes sudo -n off its front.                                      *)
LEMMA SudoDropped ==
    ASSUME NEW cmd \in Built, Proper(cmd.program), NEW rest, rest = <<<<"-n">>>> \o CommandLine(cmd)
    PROVE  Repeat(DropSudoOption, rest, Len(rest)) = CommandLine(cmd)
  <1>1. PICK c \in Words : c = CommandLine(cmd) /\ c # <<>> /\ c[1] = cmd.program
    BY ToReadIsWords
  <1>2. PICK b \in Word : b = <<"-n">>
    BY WordPieces
  <1>3. rest \in Words /\ rest # <<>> /\ rest[1] = b /\ Tail(rest) = c /\ Len(rest) = Len(c) + 1
    BY <1>1, <1>2, CommandWords
  <1>4. PICK n : n = Len(rest)
    OBVIOUS
  <1>5. n \in Nat /\ n >= 1
    <2>1. Len(c) \in Nat
      BY <1>1, LenProperties DEF Words
    <2> QED BY <1>3, <1>4, <2>1
  <1>6. DropSudoOption(rest) = c
    <2>1. IsOption(b) /\ Name(b) \notin {"-u", "--user"}
      BY <1>2, SudoIsBare
    <2>2. DropSudoOption(rest) = Rest(rest, 1)
      BY <1>3, <2>1 DEF DropSudoOption
    <2>3. Rest(rest, 1) = Tail(rest)
      <3>1. PICK W : W = Word
        OBVIOUS
      <3>2. rest \in Seq(W)
        BY <1>3, <3>1 DEF Words, Word
      <3>3. SubSeq(rest, 2, Len(rest)) = Tail(rest)
        BY <1>3, <3>2, TailIsSubSeq
      <3>4. 1 + 1 = 2
        OBVIOUS
      <3> QED BY <3>3, <3>4 DEF Rest
    <2> QED BY <1>3, <2>2, <2>3
  <1>7. DropSudoOption(c) = c
    BY <1>1 DEF DropSudoOption, Proper
  <1>8. PICK H : H = [k \in 1..n |-> [y \in Words |-> DropSudoOption(y)]]
    OBVIOUS
  <1>9. PICK st : IsHistory(st, n, Words, rest, H) /\ Repeat(DropSudoOption, rest, n) = st[n]
    BY <1>3, <1>5, <1>8, SudoTurns
  <1>10. 1 \in 1..n /\ 1 \in 0..n /\ 1 - 1 = 0
    BY <1>5
  <1>11. st[1] = c
    <2>1. st[1] = H[1][st[1 - 1]] /\ st[0] = rest
      BY <1>9, <1>10 DEF IsHistory
    <2>2. H[1][rest] = DropSudoOption(rest)
      BY <1>3, <1>8, <1>10
    <2> QED BY <1>6, <1>10, <2>1, <2>2
  <1>12. \A k \in 1..n : H[k][c] = c
    BY <1>1, <1>7, <1>8
  <1>13. st[n] = c
    <2> n \in Nat
      BY <1>5
    <2>1. PICK j \in 0..n : j = 1
      BY <1>10
    <2>2. st[j] = c
      BY <1>11, <2>1
    <2>3. PICK V : V = Words
      OBVIOUS
    <2>4. rest \in V /\ IsHistory(st, n, V, rest, H)
      BY <1>3, <1>9, <2>3
    <2> QED BY <1>12, <2>1, <2>2, <2>4, HistorySettles
  <1> QED BY <1>1, <1>4, <1>9, <1>13

(* So the segment of a Cmd is its program and arguments, elevated when it    *)
(* asked for sudo.                                                           *)
LEMMA BuiltSegment ==
    ASSUME NEW cmd \in Built, Proper(cmd.program)
    PROVE  BuildSegment(ToRead(cmd), FALSE)
              = [words |-> CommandLine(cmd), elevated |-> cmd.sudo, readsPipe |-> FALSE]
  <1>0. PICK raw \in Words : raw = ToRead(cmd) /\ raw # <<>>
    BY ToReadIsWords
  <1>1. PICK n \in Nat : n = Len(raw) /\ n >= 1
    BY <1>0, EmptySeq, LenProperties DEF Words
  <1> n \in Nat
    BY <1>1
  <1>2. PICK seg : seg = [words |-> raw, elevated |-> FALSE, readsPipe |-> FALSE]
    OBVIOUS
  <1>3. seg \in Segment /\ seg.words = raw
    BY <1>0, <1>2 DEF Segment, Words
  <1>4. BuildSegment(raw, FALSE) = Repeat(Unwrap, seg, n)
    BY <1>1, <1>2 DEF BuildSegment
  <1>5. CASE ~cmd.sudo
    <2>1. cmd.sudo = FALSE
      BY <1>5 DEF Built
    <2>2. raw = CommandLine(cmd)
      BY <1>0, <1>5 DEF ToRead
    <2>3. seg = [words |-> CommandLine(cmd), elevated |-> FALSE, readsPipe |-> FALSE]
      BY <1>2, <2>2
    <2>4. Unwrap(seg) = seg
      BY <2>3, SimpleStays
    <2>5. Repeat(Unwrap, seg, n) = seg
      BY <1>3, <2>4, SegmentStays
    <2> QED BY <1>0, <1>4, <2>1, <2>3, <2>5
  <1>6. CASE cmd.sudo
    <2>1. cmd.sudo = TRUE
      BY <1>6 DEF Built
    <2>2. PICK rest \in Words : rest = <<<<"-n">>>> \o CommandLine(cmd)
      BY ToReadIsWords
    <2>3. PICK a \in Word : a = <<"sudo">>
      BY WordPieces
    <2>4. raw = <<a>> \o rest
      BY <1>0, <1>6, <2>2, <2>3 DEF ToRead
    <2>5. raw[1] = a /\ Tail(raw) = rest
      BY <2>4, CommandWords
    <2>6. Unwrap(seg) = UnwrapAt(seg, rest, "sudo")
      <3>1. Base(a) = "sudo" /\ ~IsAssignment(a)
        BY <2>3, SudoIsBare
      <3> QED BY <1>0, <1>3, <2>5, <3>1 DEF Unwrap
    <2>7. PICK c : c = CommandLine(cmd)
      OBVIOUS
    <2>8. Repeat(DropSudoOption, rest, Len(rest)) = c
      BY <2>2, <2>7, SudoDropped
    <2>9. PICK done : done = [words |-> c, elevated |-> TRUE, readsPipe |-> FALSE]
      OBVIOUS
    <2>10. Unwrap(seg) = done
      <3>1. UnwrapAt(seg, rest, "sudo") = [seg EXCEPT !.elevated = TRUE, !.words = c]
        <4>1. PICK b : b = "sudo"
          OBVIOUS
        <4>2. b \in {"sudo", "doas"} /\ b \notin Wrappers /\ b # "env"
          BY <4>1 DEF Wrappers
        <4>3. UnwrapAt(seg, rest, b)
                 = [seg EXCEPT !.elevated = TRUE, !.words = Repeat(DropSudoOption, rest, Len(rest))]
          BY <4>2 DEF UnwrapAt
        <4> QED BY <2>8, <4>1, <4>3
      <3>2. PICK r : r = [seg EXCEPT !.elevated = TRUE, !.words = c]
        OBVIOUS
      <3>3. r = done
        <4>1. PICK t : t = TRUE
          OBVIOUS
        <4>2. r = [[words |-> raw, elevated |-> FALSE, readsPipe |-> FALSE] EXCEPT !.elevated = t, !.words = c]
          BY <1>2, <3>2, <4>1
        <4>3. r = [words |-> c, elevated |-> t, readsPipe |-> FALSE]
          BY <4>2
        <4> QED BY <2>9, <4>1, <4>3
      <3> QED BY <2>6, <3>1, <3>2, <3>3
    <2>11. done \in Segment /\ Unwrap(done) = done
      <3>1. TRUE \in BOOLEAN
        OBVIOUS
      <3> QED BY <2>7, <2>9, <3>1, SimpleStays
    <2>12. PICK H : H = [k \in 1..n |-> [y \in Segment |-> Unwrap(y)]]
      OBVIOUS
    <2>13. PICK st : IsHistory(st, n, Segment, seg, H) /\ Repeat(Unwrap, seg, n) = st[n]
      BY <1>3, <2>12, UnwrapTurns
    <2>14. 1 \in 1..n /\ 1 \in 0..n /\ 1 - 1 = 0
      BY <1>1
    <2>15. st[1] = done
      <3>1. st[1] = H[1][st[1 - 1]] /\ st[0] = seg
        BY <2>13, <2>14 DEF IsHistory
      <3>2. H[1][seg] = Unwrap(seg)
        BY <1>3, <2>12, <2>14
      <3> QED BY <2>10, <2>14, <3>1, <3>2
    <2>16. \A k \in 1..n : H[k][done] = done
      BY <2>11, <2>12
    <2>17. st[n] = done
      BY <1>3, <2>13, <2>14, <2>15, <2>16, HistorySettles
    <2> QED BY <1>0, <1>4, <2>1, <2>7, <2>9, <2>13, <2>17
  <1> QED BY <1>5, <1>6

(* So what Cmd renders is read back as what it was given.                    *)
LEMMA RenderedRead ==
    ASSUME NEW cmd \in Built, Proper(cmd.program)
    PROVE  /\ Render(cmd) # <<>>
           /\ Parse(Render(cmd)).segments
                 = <<[words |-> <<cmd.program>> \o cmd.args, elevated |-> cmd.sudo, readsPipe |-> FALSE]>>
           /\ ~Parse(Render(cmd)).opaque /\ Parse(Render(cmd)).targets = <<>>
  <1>1. PICK raw \in Words : raw = ToRead(cmd) /\ raw # <<>>
    BY ToReadIsWords
  <1>2. Render(cmd) = QuotedLine(raw)
    BY <1>1, RenderQuotes
  <1>3. PICK p : p = Parse(QuotedLine(raw))
    OBVIOUS
  <1>4. p.segments = <<BuildSegment(raw, FALSE)>> /\ ~p.opaque /\ p.targets = <<>> /\ QuotedLine(raw) # <<>>
    BY <1>1, <1>3, QuotedLineParsed
  <1>5. PICK s : s = [words |-> <<cmd.program>> \o cmd.args, elevated |-> cmd.sudo, readsPipe |-> FALSE]
    OBVIOUS
  <1>6. BuildSegment(raw, FALSE) = s
    BY <1>1, <1>5, BuiltSegment DEF CommandLine
  <1> QED BY <1>2, <1>3, <1>4, <1>5, <1>6

(* What the line is while a Cmd is assessed: its rendering.                  *)
RenderedLine == built # NoCmd => built \in BuiltCmds /\ line = Render(built)

(* The commands that are assembled.                                          *)
LEMMA BuiltAreProper ==
    ASSUME NEW cmd \in BuiltCmds
    PROVE  cmd \in Built /\ Proper(cmd.program)
  BY ClassifierAssumption, BuiltAssumption DEF Built, Proper

(* It stays the rendering: nothing is typed into it, and it is never empty.  *)
LEMMA RenderedStays == ClassifierSpec => []RenderedLine
  <1>1. ClassifierInit => RenderedLine
    BY DEF ClassifierInit, RenderedLine
  <1>2. RenderedLine /\ [ClassifierNext]_classifierVars => RenderedLine'
    <2> SUFFICES ASSUME RenderedLine, [ClassifierNext]_classifierVars PROVE RenderedLine'
      OBVIOUS
    <2>1. ASSUME built # NoCmd, line = <<>>
          PROVE  FALSE
      <3>1. built \in BuiltCmds /\ Render(built) = <<>>
        BY <2>1 DEF RenderedLine
      <3> QED BY <3>1, BuiltAreProper, RenderedRead
    <2>2. ASSUME NEW piece \in Alphabet, Type(piece)
          PROVE  RenderedLine'
      BY <2>2 DEF Type, RenderedLine
    <2>3. ASSUME NEW command \in Commands, Enter(command)
          PROVE  RenderedLine'
      BY <2>1, <2>3 DEF Enter, RenderedLine
    <2>4. ASSUME NEW cmd \in BuiltCmds, Build(cmd)
          PROVE  RenderedLine'
      BY <2>4 DEF Build, RenderedLine
    <2>5. CASE UNCHANGED classifierVars
      BY <2>5 DEF RenderedLine, classifierVars
    <2> QED BY <2>2, <2>3, <2>4, <2>5 DEF ClassifierNext
  <1> QED BY <1>1, <1>2, PTL DEF ClassifierSpec

(* A command assembled by Cmd is read back as one simple command, whatever   *)
(* its arguments contain and however many there are: quote and render        *)
(* (shell.rs) are undone by parse and build_segment (risk.rs).               *)
THEOREM RenderedStaysOneCommand == ClassifierSpec => []RenderedIsOneCommand
  <1>1. RenderedLine => RenderedIsOneCommand
    <2> SUFFICES ASSUME RenderedLine, built # NoCmd PROVE RenderedIsOneCommand
      BY DEF RenderedIsOneCommand
    <2>1. PICK cmd, l : cmd = built /\ l = line
      OBVIOUS
    <2>2. cmd \in Built /\ Proper(cmd.program) /\ l = Render(cmd)
      BY <2>1, BuiltAreProper DEF RenderedLine
    <2>3. PICK p : p = Parse(l)
      OBVIOUS
    <2>4. PICK s : s = <<[words |-> <<cmd.program>> \o cmd.args, elevated |-> cmd.sudo, readsPipe |-> FALSE]>>
      OBVIOUS
    <2>5. p.segments = s /\ ~p.opaque /\ p.targets = <<>>
      BY <2>2, <2>3, <2>4, RenderedRead
    <2> QED BY <2>1, <2>3, <2>4, <2>5 DEF RenderedIsOneCommand
  <1> QED BY <1>1, RenderedStays, PTL

-----------------------------------------------------------------------------
(* A separator cuts a line in two that parse reads as it reads them alone:   *)
(* the left side because nothing before the separator looks beyond it, the   *)
(* right side because nothing read before it is left over. What is found in  *)
(* the line is then what is found in its two sides, and so is its tier.      *)

(* r is the part of a line that follows its first d pieces, or the first of  *)
(* these.                                                                    *)
Window(l, r, d) ==
    d \in Nat /\ d + Len(r) <= Len(l) /\ \A x \in 1..Len(r) : r[x] = l[d + x]

(* What is found in the line is found in the window: where the window ends   *)
(* with the line, or what is found lies within it.                           *)
Within(l, r, d, y) == d + Len(r) = Len(l) \/ y <= d + Len(r)

(* The closing piece.                                                        *)
LEMMA ClosingInWindow ==
    ASSUME NEW l \in Word, NEW r \in Word, NEW d, Window(l, r, d), NEW x \in 1..Len(r),
           NEW piece, Within(l, r, d, Closing(l, d + x, piece))
    PROVE  Closing(l, d + x, piece) = d + Closing(r, x, piece)
  <1>0. PICK n, m : n \in Nat /\ m \in Nat /\ n = Len(l) /\ m = Len(r)
    BY LineFacts
  <1>1. n \in Nat /\ m \in Nat /\ d \in Nat /\ d + m <= n /\ x \in 1..m /\ x \in Nat
        /\ (\A y \in 1..m : r[y] = l[d + y])
    BY <1>0 DEF Window
  <1>2. d + x \in 1..Len(l) /\ d + x \in Nat
    BY <1>0, <1>1
  <1>3. PICK a, b : a = Closing(l, d + x, piece) /\ b = Closing(r, x, piece)
    OBVIOUS
  <1>4. a \in (d + x + 1)..(n + 1) /\ (a <= n => l[a] = piece)
        /\ \A y \in (d + x + 1)..(a - 1) : l[y] # piece
    BY <1>0, <1>2, <1>3, ClosingFact
  <1>5. b \in (x + 1)..(m + 1) /\ (b <= m => r[b] = piece)
        /\ \A y \in (x + 1)..(b - 1) : r[y] # piece
    BY <1>0, <1>3, ClosingFact
  <1>6. d + m = n \/ a <= d + m
    BY <1>0, <1>3 DEF Within
  <1>7. ~(a < d + b)
    <2> SUFFICES ASSUME a < d + b PROVE FALSE
      OBVIOUS
    <2>1. PICK y \in (x + 1)..(b - 1) : a = d + y
      <3>1. a - d \in (x + 1)..(b - 1) /\ a = d + (a - d)
        BY <1>1, <1>4, <1>5
      <3> QED BY <3>1
    <2>2. y \in 1..m /\ a <= n
      BY <1>1, <1>5, <2>1
    <2>3. r[y] = l[a]
      BY <1>1, <2>1, <2>2
    <2> QED BY <1>4, <1>5, <2>1, <2>2, <2>3
  <1>8. ~(d + b < a)
    <2> SUFFICES ASSUME d + b < a PROVE FALSE
      OBVIOUS
    <2>1. b <= m /\ b \in 1..m /\ d + b \in (d + x + 1)..(a - 1)
      BY <1>1, <1>4, <1>5, <1>6
    <2>2. r[b] = l[d + b]
      BY <1>1, <2>1
    <2> QED BY <1>4, <1>5, <2>1, <2>2
  <1>9. a = d + b
    BY <1>1, <1>4, <1>5, <1>7, <1>8
  <1> QED BY <1>3, <1>9

(* What a backslash hides.                                                   *)
LEMMA HiddenInWindow ==
    ASSUME NEW l \in Word, NEW r \in Word, NEW d, Window(l, r, d), NEW x \in 1..Len(r),
           NEW k \in (x + 1)..(Len(r) + 1)
    PROVE  Hidden(l, d + x, d + k) <=> Hidden(r, x, k)
  <1>0. PICK n, m : n \in Nat /\ m \in Nat /\ n = Len(l) /\ m = Len(r)
    BY LineFacts
  <1>1. n \in Nat /\ m \in Nat /\ d \in Nat /\ d + m <= n /\ x \in 1..m /\ x \in Nat
        /\ k \in (x + 1)..(m + 1) /\ k \in Nat
    BY <1>0 DEF Window
  <1>2. \A y \in 1..m : r[y] = l[d + y]
    BY <1>0 DEF Window
  <1>3. PICK u, v : u = d + x /\ v = d + k
    OBVIOUS
  <1>4. PICK S : S = 0..(k - x - 1)
    OBVIOUS
  <1>5. ASSUME NEW q \in S
        PROVE  (\A y \in (v - q)..(v - 1) : l[y] = Backslash)
               <=> (\A y \in (k - q)..(k - 1) : r[y] = Backslash)
    <2>1. ASSUME \A y \in (v - q)..(v - 1) : l[y] = Backslash, NEW y \in (k - q)..(k - 1)
          PROVE  r[y] = Backslash
      <3>1. y \in 1..m /\ d + y \in (v - q)..(v - 1)
        BY <1>1, <1>3, <1>4
      <3> QED BY <1>2, <2>1, <3>1
    <2>2. ASSUME \A y \in (k - q)..(k - 1) : r[y] = Backslash, NEW y \in (v - q)..(v - 1)
          PROVE  l[y] = Backslash
      <3>1. y - d \in 1..m /\ y - d \in (k - q)..(k - 1) /\ d + (y - d) = y
        BY <1>1, <1>3, <1>4
      <3> QED BY <1>2, <2>2, <3>1
    <2> QED BY <2>1, <2>2
  <1>6. Runs(l, u, v) = Runs(r, x, k)
    <2>1. v - u - 1 = k - x - 1
      BY <1>1, <1>3
    <2>2. Runs(l, u, v) = {q \in S : \A y \in (v - q)..(v - 1) : l[y] = Backslash}
      BY <1>4, <2>1 DEF Runs
    <2>3. Runs(r, x, k) = {q \in S : \A y \in (k - q)..(k - 1) : r[y] = Backslash}
      BY <1>4 DEF Runs
    <2> QED BY <1>5, <2>2, <2>3
  <1>7. Hidden(l, u, v) <=> Max(Runs(l, u, v)) % 2 = 1
    BY DEF Hidden, Runs
  <1>8. Hidden(r, x, k) <=> Max(Runs(r, x, k)) % 2 = 1
    BY DEF Hidden, Runs
  <1> QED BY <1>3, <1>6, <1>7, <1>8

(* The closing double quote.                                                 *)
LEMMA DoubleEndInWindow ==
    ASSUME NEW l \in Word, NEW r \in Word, NEW d, Window(l, r, d), NEW x \in 1..Len(r),
           Within(l, r, d, DoubleEnd(l, d + x))
    PROVE  DoubleEnd(l, d + x) = d + DoubleEnd(r, x)
  <1>0. PICK n, m : n \in Nat /\ m \in Nat /\ n = Len(l) /\ m = Len(r)
    BY LineFacts
  <1>1. n \in Nat /\ m \in Nat /\ d \in Nat /\ d + m <= n /\ x \in 1..m /\ x \in Nat
    BY <1>0 DEF Window
  <1>2. d + x \in 1..Len(l) /\ d + x \in Nat
    BY <1>0, <1>1
  <1>3. PICK a, b : a = DoubleEnd(l, d + x) /\ b = DoubleEnd(r, x)
    OBVIOUS
  <1> DEFINE At1(y) == l[y] = DoubleQuote /\ ~Hidden(l, d + x, y)
             At2(y) == r[y] = DoubleQuote /\ ~Hidden(r, x, y)
  <1>4. a \in (d + x + 1)..(n + 1) /\ (a <= n => At1(a))
        /\ \A y \in (d + x + 1)..(a - 1) : ~At1(y)
    BY <1>0, <1>2, <1>3, DoubleEndFact
  <1>5. b \in (x + 1)..(m + 1) /\ (b <= m => At2(b))
        /\ \A y \in (x + 1)..(b - 1) : ~At2(y)
    BY <1>0, <1>3, DoubleEndFact
  <1>s. ASSUME NEW y \in (x + 1)..m
        PROVE  At1(d + y) <=> At2(y)
    <2>1. y \in 1..m /\ y \in (x + 1)..(Len(r) + 1)
      BY <1>0, <1>1
    <2>2. r[y] = l[d + y]
      BY <1>0, <2>1 DEF Window
    <2>3. Hidden(l, d + x, d + y) <=> Hidden(r, x, y)
      BY <2>1, HiddenInWindow
    <2> QED BY <2>2, <2>3
  <1> HIDE DEF At1, At2
  <1>6. d + m = n \/ a <= d + m
    BY <1>0, <1>3 DEF Within
  <1>7. ~(a < d + b)
    <2> SUFFICES ASSUME a < d + b PROVE FALSE
      OBVIOUS
    <2>1. PICK y \in (x + 1)..(b - 1) : a = d + y
      <3>1. a - d \in (x + 1)..(b - 1) /\ a = d + (a - d)
        BY <1>1, <1>4, <1>5
      <3> QED BY <3>1
    <2>2. y \in (x + 1)..m /\ a <= n
      BY <1>1, <1>5, <2>1
    <2> QED BY <1>4, <1>5, <1>s, <2>1, <2>2
  <1>8. ~(d + b < a)
    <2> SUFFICES ASSUME d + b < a PROVE FALSE
      OBVIOUS
    <2>1. b <= m /\ b \in (x + 1)..m /\ d + b \in (d + x + 1)..(a - 1)
      BY <1>1, <1>4, <1>5, <1>6
    <2> QED BY <1>4, <1>5, <1>s, <2>1
  <1>9. a = d + b
    BY <1>1, <1>4, <1>5, <1>7, <1>8
  <1> QED BY <1>3, <1>9

(* What is read between double quotes, piece by piece.                       *)
Keeps(l, i, k) == l[k] # Backslash \/ Hidden(l, i, k) \/ k = Len(l)
Adds(l, i, v, k) == IF Keeps(l, i, k) THEN Append(v, l[k]) ELSE v
IsUnescaping(st, l, i, n) ==
    /\ st[0] = <<>> /\ \A k \in 0..n : st[k] \in Word
    /\ \A k \in 1..n : st[k] = Adds(l, i, st[k - 1], i + k)

(* The loop over a double-quoted string runs through such a history.         *)
LEMMA UnescapedTurns ==
    ASSUME NEW l \in Word, NEW i \in 1..Len(l), NEW j \in (i + 1)..(Len(l) + 1),
           NEW n, n = j - 1 - i
    PROVE  \E st : IsUnescaping(st, l, i, n) /\ Unescaped(l, i, j) = st[n]
  <1>0. Len(l) \in Nat /\ i \in Nat /\ j \in Nat
    BY DEF Word
  <1>1. n \in Nat
    BY <1>0
  <1> n \in Nat /\ i \in Nat
    BY <1>0, <1>1
  <1> DEFINE Add(v, k) == Adds(l, i, v, k)
             H == [k \in 1..n |-> [v \in Word |-> Add(v, i + k)]]
             F(f) == [k \in i..(j - 1) |-> IF k = i THEN <<>> ELSE Add(f[k - 1], k)]
             g == CHOOSE f : f = F(f)
  <1>2. \A v \in Word : \A k \in 1..n : Add(v, i + k) \in Word
    <2>1. \A k \in 1..n : l[i + k] \in STRING
      <3>1. \A k \in 1..n : i + k \in 1..Len(l)
        BY <1>0, <1>1
      <3> QED BY <3>1, ElementOfSeq DEF Word
    <2> QED BY <2>1, WordPieces DEF Adds
  <1>3. Unescaped(l, i, j) = g[j - 1]
    BY DEF Unescaped, Adds, Keeps
  <1> HIDE DEF Add
  <1>4. H \in [1..n -> [Word -> Word]]
    BY <1>2
  <1>5. PICK st : IsHistory(st, n, Word, <<>>, H)
    <2> HIDE DEF H
    <2> QED BY <1>4, WordPieces, HistoryExists
  <1>6. /\ st[0] = <<>> /\ \A k \in 0..n : st[k] \in Word
        /\ \A k \in 1..n : st[k] = Add(st[k - 1], i + k)
    <2>1. ASSUME NEW k \in 1..n
          PROVE  st[k] = Add(st[k - 1], i + k)
      <3>1. st[k - 1] \in Word /\ st[k] = H[k][st[k - 1]]
        <4> HIDE DEF H
        <4> QED BY <1>5 DEF IsHistory
      <3> QED BY <3>1
    <2> HIDE DEF H
    <2> QED BY <1>5, <2>1 DEF IsHistory
  <1> DEFINE h == [k \in i..(j - 1) |-> st[k - i]]
  <1> HIDE DEF H
  <1>7. h = F(h)
    <2>1. h[i] = <<>>
      <3>1. i \in i..(j - 1) /\ i - i = 0
        BY <1>0
      <3> QED BY <1>6, <3>1
    <2>2. ASSUME NEW k \in i..(j - 1), k # i
          PROVE  h[k] = Add(h[k - 1], k)
      <3>1. k - 1 \in i..(j - 1) /\ k - i \in 1..n /\ i + (k - i) = k /\ k - 1 - i = (k - i) - 1
        BY <1>0, <1>1, <2>2
      <3>2. PICK m \in 1..n : m = k - i
        BY <3>1
      <3>3. h[k] = st[m] /\ h[k - 1] = st[m - 1] /\ i + m = k
        BY <3>1, <3>2
      <3>4. st[m] = Add(st[m - 1], i + m)
        BY <1>6, <3>2
      <3> QED BY <3>3, <3>4
    <2>3. h = [k \in i..(j - 1) |-> h[k]]
      OBVIOUS
    <2> HIDE DEF h
    <2> QED BY <2>1, <2>2, <2>3
  <1>8. g = F(g)
    <2> HIDE DEF F, h
    <2> QED BY <1>7
  <1> HIDE DEF g, h
  <1>9. g[i] = <<>> /\ \A k \in 1..n : g[i + k] = Add(g[i + (k - 1)], i + k)
    <2>1. i \in i..(j - 1)
      BY <1>0
    <2>2. ASSUME NEW k \in 1..n
          PROVE  g[i + k] = Add(g[i + (k - 1)], i + k)
      <3>1. i + k \in i..(j - 1) /\ i + k # i /\ i + k - 1 = i + (k - 1)
        BY <1>0, <1>1
      <3>2. g[i + k] = Add(g[i + k - 1], i + k)
        BY <1>8, <3>1
      <3> QED BY <3>1, <3>2
    <2> QED BY <1>8, <2>1, <2>2
  <1> HIDE DEF F
  <1> DEFINE P == {k \in 0..n : g[i + k] = st[k]}
  <1>10. 0 \in P
    <2>1. i + 0 = i
      OBVIOUS
    <2> QED BY <1>6, <1>9, <2>1
  <1>11. ASSUME NEW k \in 1..n, k - 1 \in P
         PROVE  k \in P
    BY <1>6, <1>9, <1>11
  <1>12. n \in P
    <2>1. n \in 0..n
      OBVIOUS
    <2> HIDE DEF P
    <2> QED BY <1>10, <1>11, <2>1, UpTo
  <1>13. i + n = j - 1
    BY <1>0, <1>1
  <1>14. IsUnescaping(st, l, i, n)
    BY <1>6 DEF IsUnescaping, Add
  <1> QED BY <1>3, <1>12, <1>13, <1>14

(* What stands between double quotes is unescaped alike in a window.         *)
LEMMA UnescapedInWindow ==
    ASSUME NEW l \in Word, NEW r \in Word, NEW d, Window(l, r, d), NEW x \in 1..Len(r),
           NEW j \in (x + 1)..(Len(r) + 1), Within(l, r, d, d + j)
    PROVE  Unescaped(l, d + x, d + j) = Unescaped(r, x, j)
  <1>0. PICK n, m : n \in Nat /\ m \in Nat /\ n = Len(l) /\ m = Len(r)
    BY LineFacts
  <1>1. n \in Nat /\ m \in Nat /\ d \in Nat /\ d + m <= n /\ x \in 1..m /\ x \in Nat
        /\ j \in (x + 1)..(m + 1) /\ j \in Nat /\ (d + m = n \/ d + j <= d + m)
    BY <1>0 DEF Window, Within
  <1>2. PICK e \in Nat : e = j - 1 - x /\ e = d + j - 1 - (d + x)
    BY <1>1
  <1> e \in Nat
    BY <1>2
  <1>3. PICK s : IsUnescaping(s, l, d + x, e) /\ Unescaped(l, d + x, d + j) = s[e]
    <2>1. d + x \in 1..Len(l) /\ d + j \in (d + x + 1)..(Len(l) + 1)
      BY <1>0, <1>1
    <2>2. PICK u, v : u = d + x /\ v = d + j
      OBVIOUS
    <2>3. u \in 1..Len(l) /\ v \in (u + 1)..(Len(l) + 1) /\ e = v - 1 - u
      <3>1. e = v - 1 - u
        BY <1>1, <1>2, <2>2
      <3>2. u \in 1..n /\ v \in (u + 1)..(n + 1)
        BY <1>1, <2>2
      <3> QED BY <1>0, <3>1, <3>2
    <2>4. \E s : IsUnescaping(s, l, u, e) /\ Unescaped(l, u, v) = s[e]
      BY <2>3, UnescapedTurns
    <2> QED BY <2>2, <2>4
  <1>4. PICK t : IsUnescaping(t, r, x, e) /\ Unescaped(r, x, j) = t[e]
    BY <1>2, UnescapedTurns
  <1>5. ASSUME NEW k \in 1..e, NEW v
        PROVE  Adds(l, d + x, v, d + x + k) = Adds(r, x, v, x + k)
    <2>1. PICK y : y = x + k /\ y \in (x + 1)..(Len(r) + 1) /\ y \in 1..m /\ d + x + k = d + y
                   /\ (d + y = n <=> y = m)
      BY <1>0, <1>1, <1>2
    <2>2. r[y] = l[d + y]
      BY <1>0, <2>1 DEF Window
    <2>3. Hidden(l, d + x, d + y) <=> Hidden(r, x, y)
      BY <2>1, HiddenInWindow
    <2> QED BY <1>0, <2>1, <2>2, <2>3 DEF Adds, Keeps
  <1> DEFINE P == {k \in 0..e : s[k] = t[k]}
  <1>6. 0 \in P
    BY <1>3, <1>4 DEF IsUnescaping
  <1>7. ASSUME NEW k \in 1..e, k - 1 \in P
        PROVE  k \in P
    <2>1. s[k] = Adds(l, d + x, s[k - 1], d + x + k)
      BY <1>3 DEF IsUnescaping
    <2>2. t[k] = Adds(r, x, t[k - 1], x + k)
      BY <1>4 DEF IsUnescaping
    <2> QED BY <1>5, <1>7, <2>1, <2>2
  <1>8. e \in P
    <2>1. e \in 0..e
      OBVIOUS
    <2> HIDE DEF P
    <2> QED BY <1>6, <1>7, <2>1, UpTo
  <1> QED BY <1>3, <1>4, <1>8

(* As many of a piece.                                                       *)
HowMany(l, i, k, piece) == Cardinality({m \in i..k : l[m] = piece})

(* Pieces are counted alike...                                               *)
LEMMA CountInWindow ==
    ASSUME NEW l \in Word, NEW r \in Word, NEW d, Window(l, r, d), NEW x \in 1..Len(r),
           NEW k \in x..Len(r), NEW piece
    PROVE  HowMany(l, d + x, d + k, piece) = HowMany(r, x, k, piece)
  <1>0. PICK n, m : n \in Nat /\ m \in Nat /\ n = Len(l) /\ m = Len(r)
    BY LineFacts
  <1>1. n \in Nat /\ m \in Nat /\ d \in Nat /\ d + m <= n /\ x \in 1..m /\ x \in Nat
        /\ k \in x..m /\ k \in Nat
    BY <1>0 DEF Window
  <1>2. \A y \in x..k : r[y] = l[d + y]
    <2>1. \A y \in x..k : y \in 1..m
      BY <1>1
    <2> QED BY <1>0, <2>1 DEF Window
  <1> DEFINE S == {y \in x..k : r[y] = piece}
             T == {y \in (d + x)..(d + k) : l[y] = piece}
             f == [y \in S |-> d + y]
  <1>3. IsFiniteSet(S)
    <2>1. IsFiniteSet(x..k)
      BY <1>1, FS_Interval
    <2> QED BY <2>1, FS_Subset
  <1>4. \A y \in S : d + y \in T
    BY <1>1, <1>2
  <1>5. \A y \in T : y - d \in S /\ d + (y - d) = y
    <2> SUFFICES ASSUME NEW y \in T PROVE y - d \in S /\ d + (y - d) = y
      OBVIOUS
    <2>1. y \in (d + x)..(d + k) /\ l[y] = piece
      OBVIOUS
    <2>2. y - d \in x..k /\ d + (y - d) = y
      BY <1>1, <2>1
    <2> QED BY <1>2, <2>1, <2>2
  <1>6. \A y, z \in S : d + y = d + z => y = z
    BY <1>1
  <1> HIDE DEF S, T
  <1>7. f \in Bijection(S, T)
    BY <1>4, <1>5, <1>6 DEF Bijection, Injection, Surjection, IsInjective
  <1>8. ExistsBijection(S, T)
    BY <1>7 DEF ExistsBijection
  <1>9. Cardinality(T) = Cardinality(S)
    BY <1>3, <1>8, FS_Bijection
  <1> QED BY <1>9 DEF S, T, HowMany

(* Where the parentheses of $( may close.                                    *)
Closers(l, i) ==
    {k \in (i + 1)..Len(l) : l[k] = ")" /\ HowMany(l, i, k, "(") = HowMany(l, i, k, ")")}

(* The end of a substitution is the first place that closes it, or the last  *)
(* of the line.                                                              *)
LEMMA SubstitutionEndIs ==
    ASSUME NEW l \in Word, NEW i \in 1..(Len(l) - 1)
    PROVE  LET y == SubstitutionEnd(l, i)
           IN /\ y \in (i + 1)..Len(l)
              /\ y \in Closers(l, i) \/ y = Len(l)
              /\ \A z \in Closers(l, i) : y <= z
  <1>1. PICK n \in Nat : n = Len(l) /\ i \in 1..(n - 1)
    BY DEF Word
  <1>2. PICK C : C = Closers(l, i)
    OBVIOUS
  <1>3. \A z \in C : z \in (i + 1)..n
    BY <1>1, <1>2 DEF Closers
  <1>4. PICK S : S = C \cup {n}
    OBVIOUS
  <1>5. S \in SUBSET (0..n) /\ S # {} /\ \A x \in S : x \in (i + 1)..n
    BY <1>1, <1>3, <1>4
  <1>6. Min(S) \in S /\ \A x \in S : Min(S) <= x
    BY <1>1, <1>5, Indices
  <1>7. SubstitutionEnd(l, i) = Min(S)
    BY <1>1, <1>2, <1>4 DEF SubstitutionEnd, Closers, HowMany
  <1> QED BY <1>1, <1>2, <1>4, <1>5, <1>6, <1>7

(* ... so a substitution that lies within a window ends where it does in the *)
(* line.                                                                     *)
LEMMA SubstitutionEndInWindow ==
    ASSUME NEW l \in Word, NEW r \in Word, NEW d, Window(l, r, d), NEW x \in 1..(Len(r) - 1),
           Within(l, r, d, SubstitutionEnd(l, d + x))
    PROVE  SubstitutionEnd(l, d + x) = d + SubstitutionEnd(r, x)
  <1>0. PICK n, m : n \in Nat /\ m \in Nat /\ n = Len(l) /\ m = Len(r)
    BY LineFacts
  <1>1. n \in Nat /\ m \in Nat /\ d \in Nat /\ d + m <= n /\ x \in 1..(m - 1) /\ x \in Nat
    BY <1>0 DEF Window
  <1>2. d + x \in 1..(Len(l) - 1) /\ d + x \in Nat /\ x \in 1..Len(r)
    BY <1>0, <1>1
  <1>3. PICK a, b : a = SubstitutionEnd(l, d + x) /\ b = SubstitutionEnd(r, x)
    OBVIOUS
  <1>4. PICK A, B : A = Closers(l, d + x) /\ B = Closers(r, x)
    OBVIOUS
  <1>5. a \in (d + x + 1)..n /\ (a \in A \/ a = n) /\ \A z \in A : a <= z
    BY <1>0, <1>2, <1>3, <1>4, SubstitutionEndIs
  <1>6. b \in (x + 1)..m /\ (b \in B \/ b = m) /\ \A z \in B : b <= z
    BY <1>0, <1>3, <1>4, SubstitutionEndIs
  <1>7. ASSUME NEW y \in (x + 1)..m
        PROVE  d + y \in A <=> y \in B
    <2>1. y \in x..Len(r) /\ y \in 1..Len(r) /\ d + y \in (d + x + 1)..n
      BY <1>0, <1>1
    <2>2. r[y] = l[d + y]
      BY <2>1 DEF Window
    <2>3. HowMany(l, d + x, d + y, "(") = HowMany(r, x, y, "(")
      BY <1>2, <2>1, CountInWindow
    <2>4. HowMany(l, d + x, d + y, ")") = HowMany(r, x, y, ")")
      BY <1>2, <2>1, CountInWindow
    <2>5. d + y \in A <=> l[d + y] = ")" /\ HowMany(l, d + x, d + y, "(") = HowMany(l, d + x, d + y, ")")
      BY <1>0, <1>4, <2>1 DEF Closers
    <2>6. y \in B <=> r[y] = ")" /\ HowMany(r, x, y, "(") = HowMany(r, x, y, ")")
      BY <1>0, <1>4 DEF Closers
    <2> QED BY <2>2, <2>3, <2>4, <2>5, <2>6
  <1>8. d + m = n \/ a <= d + m
    BY <1>0, <1>3 DEF Within
  <1>9. PICK y \in (x + 1)..m : a = d + y
    <2>1. a - d \in (x + 1)..m /\ a = d + (a - d)
      BY <1>1, <1>5, <1>8
    <2> QED BY <2>1
  <1>10. b <= y
    <2>1. CASE a \in A
      BY <1>6, <1>7, <1>9, <2>1
    <2>2. CASE a = n
      BY <1>1, <1>6, <1>9, <2>2
    <2> QED BY <1>5, <2>1, <2>2
  <1>11. y <= b
    <2>1. CASE b \in B
      <3>1. d + b \in A
        BY <1>6, <1>7, <2>1
      <3>2. a <= d + b
        BY <1>5, <3>1
      <3> QED BY <1>1, <1>6, <1>9, <3>2
    <2>2. CASE b = m
      BY <1>1, <1>9, <2>2
    <2> QED BY <1>6, <2>1, <2>2
  <1>12. a = d + b
    BY <1>1, <1>6, <1>9, <1>10, <1>11
  <1> QED BY <1>3, <1>12

(* A turn that takes pieces w from s places, of which some may be opaque.    *)
Taken(p, q, w, o, s) ==
    /\ q \in ParserState
    /\ q.i = p.i + s /\ q.current = p.current \o w /\ q.has /\ q.opaque = (p.opaque \/ o)
    /\ q.words = p.words /\ q.readsPipe = p.readsPipe /\ q.pending = p.pending
    /\ q.segments = p.segments /\ q.targets = p.targets

(* The two ways in which the source writes that.                             *)
TakeOpaque(p, w, e) == [Take(p, w, e) EXCEPT !.opaque = TRUE]
TakeSeeing(p, w, e, o) == [Take(p, w, e) EXCEPT !.opaque = @ \/ o]

(* take_quoted and its like take so.                                         *)
LEMMA TakenBy ==
    ASSUME NEW p \in ParserState, NEW w \in Word, NEW e \in Nat, NEW s \in Nat \ {0}, e = p.i + s,
           NEW o \in BOOLEAN
    PROVE  /\ ~o => Taken(p, Take(p, w, e), w, o, s)
           /\ o => Taken(p, TakeOpaque(p, w, e), w, o, s)
           /\ Taken(p, TakeSeeing(p, w, e, o), w, o, s)
  <1>1. PICK c \in Word : c = p.current \o w
    BY WordPieces DEF ParserState
  <1>2. e \in Nat \ {0}
    BY DEF ParserState
  <1>3. PICK q : q = [p EXCEPT !.has = TRUE, !.current = c, !.i = e]
    OBVIOUS
  <1>4. Take(p, w, e) = q
    BY <1>1, <1>3 DEF Take, ParserState
  <1>5. q \in ParserState
    BY <1>1, <1>2, <1>3 DEF ParserState
  <1>6. /\ q.i = p.i + s /\ q.current = p.current \o w /\ q.has /\ q.opaque = p.opaque
        /\ q.words = p.words /\ q.readsPipe = p.readsPipe /\ q.pending = p.pending
        /\ q.segments = p.segments /\ q.targets = p.targets
    BY <1>1, <1>3 DEF ParserState
  <1>7. ~o => Taken(p, q, w, o, s)
    BY <1>5, <1>6 DEF Taken, ParserState
  <1>8. ASSUME NEW t \in BOOLEAN, t = (q.opaque \/ o)
        PROVE  Taken(p, [q EXCEPT !.opaque = t], w, o, s)
    <2>1. PICK z : z = [q EXCEPT !.opaque = t]
      OBVIOUS
    <2>2. z \in ParserState
      BY <1>5, <2>1 DEF ParserState
    <2>3. /\ z.i = q.i /\ z.current = q.current /\ z.has = q.has /\ z.opaque = t
          /\ z.words = q.words /\ z.readsPipe = q.readsPipe /\ z.pending = q.pending
          /\ z.segments = q.segments /\ z.targets = q.targets
      BY <1>5, <2>1 DEF ParserState
    <2>4. Taken(p, z, w, o, s)
      BY <1>6, <1>8, <2>2, <2>3 DEF Taken
    <2> QED BY <2>1, <2>4
  <1>9. o => Taken(p, [q EXCEPT !.opaque = TRUE], w, o, s)
    <2> SUFFICES ASSUME o PROVE Taken(p, [q EXCEPT !.opaque = TRUE], w, o, s)
      OBVIOUS
    <2>1. PICK t \in BOOLEAN : t = TRUE
      OBVIOUS
    <2>2. t = (q.opaque \/ o)
      BY <1>5, <2>1 DEF ParserState
    <2>3. Taken(p, [q EXCEPT !.opaque = t], w, o, s)
      BY <1>8, <2>2
    <2> QED BY <2>1, <2>3
  <1>10. Taken(p, [q EXCEPT !.opaque = @ \/ o], w, o, s)
    <2>1. PICK t \in BOOLEAN : t = (q.opaque \/ o)
      OBVIOUS
    <2>2. Taken(p, [q EXCEPT !.opaque = t], w, o, s)
      BY <1>8, <2>1
    <2>3. [q EXCEPT !.opaque = @ \/ o] = [q EXCEPT !.opaque = t]
      BY <1>5, <2>1 DEF ParserState
    <2> QED BY <2>2, <2>3
  <1>11. /\ TakeOpaque(p, w, e) = [q EXCEPT !.opaque = TRUE]
         /\ TakeSeeing(p, w, e, o) = [q EXCEPT !.opaque = @ \/ o]
    BY <1>4 DEF TakeOpaque, TakeSeeing
  <1> QED BY <1>4, <1>7, <1>9, <1>10, <1>11

(* Two parses take the same pieces.                                          *)
TakenAlike(p, q, p2, q2) ==
    \E w \in Word, o \in BOOLEAN, s \in Nat \ {0} : Taken(p, p2, w, o, s) /\ Taken(q, q2, w, o, s)

(* What a blank does.                                                        *)
Blanked(p) == [PushWord(p) EXCEPT !.i = @ + 1]

(* Two parses do the same.                                                   *)
SameAct(p, q, p2, q2) ==
    \/ TakenAlike(p, q, p2, q2)
    \/ p2 = Blanked(p) /\ q2 = Blanked(q)
    \/ \E c \in Separators, b \in BOOLEAN : p2 = Operator(p, c, b) /\ q2 = Operator(q, c, b)
    \/ \E c \in {">", "<"}, b \in BOOLEAN : p2 = Redirection(p, c, b) /\ q2 = Redirection(q, c, b)

(* Places in a line and in a window of it.                                   *)
Facing(l, r, d, p, q) ==
    /\ l \in Word /\ r \in Word /\ Window(l, r, d) /\ p \in ParserState /\ q \in ParserState
    /\ p.i = d + q.i /\ q.i \in 1..Len(r)

(* They hold the same piece.                                                 *)
LEMMA FacingFacts ==
    ASSUME NEW l, NEW r, NEW d, NEW p, NEW q, Facing(l, r, d, p, q)
    PROVE  /\ l \in Word /\ r \in Word /\ Window(l, r, d) /\ p \in ParserState /\ q \in ParserState
           /\ d \in Nat /\ Len(l) \in Nat /\ Len(r) \in Nat /\ d + Len(r) <= Len(l)
           /\ p.i \in 1..Len(l) /\ q.i \in 1..Len(r) /\ p.i = d + q.i /\ p.i \in Nat /\ q.i \in Nat
           /\ l[p.i] = r[q.i]
  <1>1. PICK n, m : n \in Nat /\ m \in Nat /\ n = Len(l) /\ m = Len(r)
    BY LineFacts DEF Facing
  <1>2. PICK i, j : i = p.i /\ j = q.i
    OBVIOUS
  <1>3. d \in Nat /\ d + m <= n /\ i = d + j /\ j \in 1..m
    BY <1>1, <1>2 DEF Facing, Window
  <1>4. i \in 1..n /\ i \in Nat /\ j \in Nat
    BY <1>1, <1>3
  <1>5. l[i] = r[j]
    BY <1>1, <1>3 DEF Facing, Window
  <1> QED BY <1>1, <1>2, <1>3, <1>4, <1>5 DEF Facing

(* A slice of the line that lies within the window is a slice of the window. *)
LEMMA SliceInWindow ==
    ASSUME NEW l \in Word, NEW r \in Word, NEW d, Window(l, r, d), NEW a \in 1..(Len(r) + 1),
           NEW b \in 0..Len(r), b >= a - 1
    PROVE  SubSeq(l, d + a, d + b) = SubSeq(r, a, b) /\ SubSeq(r, a, b) \in Word
  <1>0. PICK n, m : n \in Nat /\ m \in Nat /\ n = Len(l) /\ m = Len(r)
    BY LineFacts
  <1>1. n \in Nat /\ m \in Nat /\ d \in Nat /\ d + m <= n /\ a \in 1..(m + 1) /\ b \in 0..m
        /\ a \in Nat /\ b \in Nat /\ (\A y \in 1..m : r[y] = l[d + y])
    BY <1>0 DEF Window
  <1>2. PICK u, v : u = d + a /\ v = d + b
    OBVIOUS
  <1>3. u \in 1..(Len(l) + 1) /\ v \in 0..Len(l) /\ v >= u - 1
    <2>1. u \in 1..(n + 1) /\ v \in 0..n /\ v >= u - 1
      BY <1>1, <1>2
    <2> QED BY <1>0, <2>1
  <1>4. PICK s, t : s = SubSeq(l, u, v) /\ t = SubSeq(r, a, b) /\ s \in Word /\ t \in Word
    BY <1>3, SliceIsWord
  <1>5. Len(s) = v - u + 1 /\ \A x \in 1..(v - u + 1) : s[x] = l[u + x - 1]
    BY <1>3, <1>4, SliceFacts
  <1>6. Len(t) = b - a + 1 /\ \A x \in 1..(b - a + 1) : t[x] = r[a + x - 1]
    BY <1>4, SliceFacts
  <1>7. PICK e \in Nat : e = v - u + 1 /\ e = b - a + 1
    BY <1>1, <1>2
  <1>8. \A x \in 1..e : s[x] = t[x]
    <2> SUFFICES ASSUME NEW x \in 1..e PROVE s[x] = t[x]
      OBVIOUS
    <2>1. PICK y : y = a + x - 1 /\ y \in 1..m /\ u + x - 1 = d + y
      BY <1>1, <1>2, <1>7
    <2> QED BY <1>1, <1>5, <1>6, <1>7, <2>1
  <1>9. s = t
    <2>1. Len(s) = e /\ Len(t) = e /\ \A x \in 1..e : t[x] = s[x]
      BY <1>5, <1>6, <1>7, <1>8
    <2> QED BY <1>4, <2>1, SameWord
  <1> QED BY <1>2, <1>4, <1>9

(* So a single-quoted string is taken alike...                               *)
LEMMA SingleInWindow ==
    ASSUME NEW l, NEW r, NEW d, NEW p, NEW q, Facing(l, r, d, p, q),
           Within(l, r, d, Closing(l, p.i, SingleQuote))
    PROVE  TakenAlike(p, q, SingleQuoted(l, p), SingleQuoted(r, q))
  <1>0. /\ l \in Word /\ r \in Word /\ Window(l, r, d) /\ p \in ParserState /\ q \in ParserState
        /\ d \in Nat /\ Len(r) \in Nat /\ q.i \in 1..Len(r) /\ p.i = d + q.i
    BY FacingFacts
  <1>1. PICK x \in 1..Len(r) : x = q.i /\ p.i = d + x
    BY <1>0
  <1>2. PICK j : j = Closing(r, x, SingleQuote)
    OBVIOUS
  <1>3. PICK y : y = Closing(l, p.i, SingleQuote) /\ y = d + j
    BY <1>0, <1>1, <1>2, ClosingInWindow
  <1>4. j \in (x + 1)..(Len(r) + 1)
    BY <1>0, <1>1, <1>2, ClosingFact
  <1>5. x \in Nat /\ j \in Nat /\ x + 1 \in 1..(Len(r) + 1) /\ j - 1 \in 0..Len(r) /\ j - 1 >= x + 1 - 1
    BY <1>0, <1>1, <1>4
  <1>6. PICK w \in Word : w = SubSeq(r, x + 1, j - 1) /\ w = SubSeq(l, d + (x + 1), d + (j - 1))
    <2>1. PICK a, b : a = x + 1 /\ b = j - 1
      OBVIOUS
    <2>2. a \in 1..(Len(r) + 1) /\ b \in 0..Len(r) /\ b >= a - 1
      BY <1>5, <2>1
    <2>3. SubSeq(l, d + a, d + b) = SubSeq(r, a, b) /\ SubSeq(r, a, b) \in Word
      BY <1>0, <2>2, SliceInWindow
    <2> QED BY <2>1, <2>3
  <1>7. SubSeq(l, p.i + 1, y - 1) = w
    <2>1. d + (x + 1) = p.i + 1 /\ d + (j - 1) = y - 1
      BY <1>0, <1>1, <1>3, <1>5
    <2> QED BY <1>6, <2>1
  <1>8. PICK s \in Nat \ {0} : s = j + 1 - x
    BY <1>4, <1>5
  <1>9. PICK e, f \in Nat : e = y + 1 /\ f = j + 1 /\ e = p.i + s /\ f = q.i + s
    <2>1. y + 1 \in Nat /\ j + 1 \in Nat
      BY <1>0, <1>3, <1>5
    <2>2. y + 1 = d + x + s /\ j + 1 = x + s
      BY <1>0, <1>3, <1>5, <1>8
    <2> QED BY <1>1, <2>1, <2>2
  <1>10. SingleQuoted(l, p) = Take(p, w, e) /\ SingleQuoted(r, q) = Take(q, w, f)
    <2>1. SingleQuoted(l, p) = Take(p, SubSeq(l, p.i + 1, y - 1), y + 1)
      BY <1>3, Zenon DEF SingleQuoted
    <2>2. SingleQuoted(r, q) = Take(q, SubSeq(r, x + 1, j - 1), j + 1)
      <3>1. Closing(r, q.i, SingleQuote) = j /\ q.i = x
        BY <1>1, <1>2
      <3> QED BY <3>1, Zenon DEF SingleQuoted
    <2> QED BY <1>6, <1>7, <1>9, <2>1, <2>2
  <1>11. PICK o \in BOOLEAN : ~o
    OBVIOUS
  <1>12. Taken(p, Take(p, w, e), w, o, s)
    BY <1>0, <1>9, <1>11, TakenBy
  <1>13. Taken(q, Take(q, w, f), w, o, s)
    BY <1>0, <1>9, <1>11, TakenBy
  <1> QED BY <1>10, <1>12, <1>13 DEF TakenAlike

(* Between double quotes.                                                    *)
Sees(l, i, j) == \E k \in (i + 1)..(j - 1) : l[k] = "$" /\ k < Len(l) /\ l[k + 1] = "("

(* ... a substitution between double quotes is seen alike...                 *)
LEMMA SeesInWindow ==
    ASSUME NEW l \in Word, NEW r \in Word, NEW d, Window(l, r, d), NEW x \in 1..Len(r),
           NEW j \in (x + 1)..(Len(r) + 1), Within(l, r, d, d + j)
    PROVE  Sees(l, d + x, d + j) <=> Sees(r, x, j)
  <1>0. PICK n, m : n \in Nat /\ m \in Nat /\ n = Len(l) /\ m = Len(r)
    BY LineFacts
  <1>1. n \in Nat /\ m \in Nat /\ d \in Nat /\ d + m <= n /\ x \in 1..m /\ x \in Nat
        /\ j \in (x + 1)..(m + 1) /\ j \in Nat /\ (d + m = n \/ d + j <= d + m)
    BY <1>0 DEF Window, Within
  <1>2. \A y \in 1..m : r[y] = l[d + y]
    BY <1>0 DEF Window
  <1>a. PICK u, v : u = d + x /\ v = d + j
    OBVIOUS
  <1>3. ASSUME NEW k \in (x + 1)..(j - 1), r[k] = "$", k < m, r[k + 1] = "("
        PROVE  d + k \in (u + 1)..(v - 1) /\ l[d + k] = "$" /\ d + k < n /\ l[d + k + 1] = "("
    <2>1. k \in 1..m /\ k + 1 \in 1..m /\ d + (k + 1) = d + k + 1
      BY <1>1, <1>3
    <2>2. r[k] = l[d + k] /\ r[k + 1] = l[d + k + 1]
      BY <1>2, <2>1
    <2>3. d + k \in (u + 1)..(v - 1) /\ d + k < n
      BY <1>1, <1>3, <1>a
    <2> QED BY <1>3, <2>2, <2>3
  <1>4. ASSUME NEW y \in (u + 1)..(v - 1), l[y] = "$", y < n, l[y + 1] = "("
        PROVE  \E k \in (x + 1)..(j - 1) : r[k] = "$" /\ k < m /\ r[k + 1] = "("
    <2>1. PICK k : k = y - d /\ y = d + k /\ k \in (x + 1)..(j - 1)
      BY <1>1, <1>a
    <2>2. k < m
      BY <1>1, <1>4, <1>a, <2>1
    <2>3. k \in 1..m /\ k + 1 \in 1..m /\ d + (k + 1) = y + 1
      BY <1>1, <2>1, <2>2
    <2>4. r[k] = l[y] /\ r[k + 1] = l[y + 1]
      BY <1>2, <2>1, <2>3
    <2> QED BY <1>4, <2>1, <2>2, <2>4
  <1>5. Sees(r, x, j) <=> \E k \in (x + 1)..(j - 1) : r[k] = "$" /\ k < m /\ r[k + 1] = "("
    BY <1>0 DEF Sees
  <1>6. Sees(l, u, v) <=> \E y \in (u + 1)..(v - 1) : l[y] = "$" /\ y < n /\ l[y + 1] = "("
    BY <1>0 DEF Sees
  <1>7. Sees(r, x, j) => Sees(l, u, v)
    BY <1>3, <1>5, <1>6
  <1>8. Sees(l, u, v) => Sees(r, x, j)
    BY <1>4, <1>5, <1>6
  <1> QED BY <1>7, <1>8, <1>a

(* ... and a double-quoted string is taken alike...                          *)
LEMMA DoubleInWindow ==
    ASSUME NEW l, NEW r, NEW d, NEW p, NEW q, Facing(l, r, d, p, q),
           Within(l, r, d, DoubleEnd(l, p.i))
    PROVE  TakenAlike(p, q, DoubleQuoted(l, p), DoubleQuoted(r, q))
  <1>0. /\ l \in Word /\ r \in Word /\ Window(l, r, d) /\ p \in ParserState /\ q \in ParserState
        /\ d \in Nat /\ Len(r) \in Nat /\ q.i \in 1..Len(r) /\ p.i = d + q.i
    BY FacingFacts
  <1>1. PICK x \in 1..Len(r) : x = q.i /\ p.i = d + x
    BY <1>0
  <1>2. PICK j : j = DoubleEnd(r, x)
    OBVIOUS
  <1>3. DoubleEnd(l, p.i) = d + j
    BY <1>0, <1>1, <1>2, DoubleEndInWindow
  <1>4. j \in (x + 1)..(Len(r) + 1)
    BY <1>0, <1>1, <1>2, DoubleEndFact
  <1>5. x \in Nat /\ j \in Nat
    BY <1>0, <1>1, <1>4
  <1>6. Within(l, r, d, d + j)
    BY <1>3
  <1>7. PICK w \in Word : w = Unescaped(r, x, j) /\ w = Unescaped(l, d + x, d + j)
    <2>1. Unescaped(l, d + x, d + j) = Unescaped(r, x, j)
      BY <1>0, <1>1, <1>4, <1>6, UnescapedInWindow
    <2>2. Unescaped(r, x, j) \in Word
      BY <1>0, <1>1, <1>4, UnescapedIsWord
    <2> QED BY <2>1, <2>2
  <1>8. PICK o \in BOOLEAN : (o <=> Sees(r, x, j)) /\ (o <=> Sees(l, d + x, d + j))
    BY <1>0, <1>1, <1>4, <1>6, SeesInWindow
  <1>9. PICK s \in Nat \ {0} : s = j + 1 - x
    BY <1>4, <1>5
  <1>10. PICK e, f \in Nat : e = d + j + 1 /\ f = j + 1 /\ e = p.i + s /\ f = q.i + s
    BY <1>0, <1>1, <1>5, <1>9
  <1>11. DoubleQuoted(l, p) = TakeSeeing(p, w, e, o)
    <2>1. DoubleQuoted(l, p) = TakeSeeing(p, Unescaped(l, d + x, d + j), d + j + 1, Sees(l, d + x, d + j))
      BY <1>1, <1>3, Zenon DEF DoubleQuoted, Sees, TakeSeeing
    <2>2. Sees(l, d + x, d + j) = o
      BY <1>8 DEF Sees
    <2> QED BY <1>7, <1>10, <2>1, <2>2
  <1>12. DoubleQuoted(r, q) = TakeSeeing(q, w, f, o)
    <2>1. DoubleQuoted(r, q) = TakeSeeing(q, Unescaped(r, x, j), j + 1, Sees(r, x, j))
      BY <1>1, <1>2, Zenon DEF DoubleQuoted, Sees, TakeSeeing
    <2>2. Sees(r, x, j) = o
      BY <1>8 DEF Sees
    <2> QED BY <1>7, <1>10, <2>1, <2>2
  <1>13. Taken(p, DoubleQuoted(l, p), w, o, s)
    BY <1>0, <1>10, <1>11, TakenBy
  <1>14. Taken(q, DoubleQuoted(r, q), w, o, s)
    BY <1>0, <1>10, <1>12, TakenBy
  <1> QED BY <1>13, <1>14 DEF TakenAlike

(* ... and so is a command between backticks...                              *)
LEMMA BackInWindow ==
    ASSUME NEW l, NEW r, NEW d, NEW p, NEW q, Facing(l, r, d, p, q),
           Within(l, r, d, Closing(l, p.i, Backtick))
    PROVE  TakenAlike(p, q, Backquoted(l, p), Backquoted(r, q))
  <1>0. /\ l \in Word /\ r \in Word /\ Window(l, r, d) /\ p \in ParserState /\ q \in ParserState
        /\ d \in Nat /\ Len(r) \in Nat /\ q.i \in 1..Len(r) /\ p.i = d + q.i
    BY FacingFacts
  <1>1. PICK x \in 1..Len(r) : x = q.i /\ p.i = d + x
    BY <1>0
  <1>2. PICK j : j = Closing(r, q.i, Backtick)
    OBVIOUS
  <1>3. Closing(l, p.i, Backtick) = d + j
    BY <1>0, <1>1, <1>2, ClosingInWindow
  <1>4. j \in (x + 1)..(Len(r) + 1)
    BY <1>0, <1>1, <1>2, ClosingFact
  <1>5. x \in Nat /\ j \in Nat
    BY <1>0, <1>1, <1>4
  <1>6. PICK w \in Word : w = <<"b...b">>
    BY WordPieces, WrittenAssumption DEF Written
  <1>7. PICK s \in Nat \ {0} : s = j + 1 - x
    BY <1>4, <1>5
  <1>8. PICK e, f \in Nat : e = d + j + 1 /\ f = j + 1 /\ e = p.i + s /\ f = q.i + s
    BY <1>0, <1>1, <1>5, <1>7
  <1>9. PICK o \in BOOLEAN : o
    OBVIOUS
  <1>10. Backquoted(l, p) = TakeOpaque(p, w, e)
    BY <1>3, <1>6, <1>8 DEF Backquoted, TakeOpaque
  <1>11. Backquoted(r, q) = TakeOpaque(q, w, f)
    BY <1>2, <1>6, <1>8 DEF Backquoted, TakeOpaque
  <1>12. Taken(p, Backquoted(l, p), w, o, s)
    BY <1>0, <1>8, <1>9, <1>10, TakenBy
  <1>13. Taken(q, Backquoted(r, q), w, o, s)
    BY <1>0, <1>8, <1>9, <1>11, TakenBy
  <1> QED BY <1>12, <1>13 DEF TakenAlike

(* ... and a substitution.                                                   *)
LEMMA SubstitutionInWindow ==
    ASSUME NEW l, NEW r, NEW d, NEW p, NEW q, Facing(l, r, d, p, q), q.i < Len(r),
           Within(l, r, d, SubstitutionEnd(l, p.i))
    PROVE  TakenAlike(p, q, Substitution(l, p), Substitution(r, q))
  <1>0. /\ l \in Word /\ r \in Word /\ Window(l, r, d) /\ p \in ParserState /\ q \in ParserState
        /\ d \in Nat /\ Len(r) \in Nat /\ q.i \in 1..Len(r) /\ p.i = d + q.i
    BY FacingFacts
  <1>1. PICK x \in 1..(Len(r) - 1) : x = q.i /\ p.i = d + x
    BY <1>0
  <1>2. PICK j : j = SubstitutionEnd(r, q.i)
    OBVIOUS
  <1>3. SubstitutionEnd(l, p.i) = d + j
    BY <1>0, <1>1, <1>2, SubstitutionEndInWindow
  <1>4. j \in (x + 1)..Len(r)
    BY <1>0, <1>1, <1>2, SubstitutionEndFact
  <1>5. x \in Nat /\ j \in Nat
    BY <1>0, <1>1, <1>4
  <1>6. PICK w \in Word : w = <<"$(...)">>
    BY WordPieces, WrittenAssumption DEF Written
  <1>7. PICK s \in Nat \ {0} : s = j + 1 - x
    BY <1>4, <1>5
  <1>8. PICK e, f \in Nat : e = d + j + 1 /\ f = j + 1 /\ e = p.i + s /\ f = q.i + s
    BY <1>0, <1>1, <1>5, <1>7
  <1>9. PICK o \in BOOLEAN : o
    OBVIOUS
  <1>10. Substitution(l, p) = TakeOpaque(p, w, e)
    BY <1>3, <1>6, <1>8 DEF Substitution, TakeOpaque
  <1>11. Substitution(r, q) = TakeOpaque(q, w, f)
    BY <1>2, <1>6, <1>8 DEF Substitution, TakeOpaque
  <1>12. Taken(p, Substitution(l, p), w, o, s)
    BY <1>0, <1>8, <1>9, <1>10, TakenBy
  <1>13. Taken(q, Substitution(r, q), w, o, s)
    BY <1>0, <1>8, <1>9, <1>11, TakenBy
  <1> QED BY <1>12, <1>13 DEF TakenAlike

(* The arm that a piece selects.                                             *)
LEMMA ArmTaken ==
    ASSUME NEW l \in Word, NEW p \in ParserState, p.i \in 1..Len(l), NEW c, c = l[p.i],
           NEW next, next = Following(l, p.i), NEW q, q = ParseStep(l, p)
    PROVE  /\ c = Backslash /\ next # <<>> => q = Take(p, next, p.i + 2)
           /\ c = "$" /\ next = <<"(">> => q = Substitution(l, p)
           /\ c = Blank => q = Blanked(p)
           /\ c \in Separators => q = Operator(p, c, next = <<c>>)
           /\ c \in {">", "<"} => q = Redirection(p, c, next = <<c>>)
           /\ (/\ c \notin Separators \cup {SingleQuote, DoubleQuote, Backtick, Blank, ">", "<"}
               /\ ~(c = Backslash /\ next # <<>>) /\ ~(c = "$" /\ next = <<"(">>))
              => q = Take(p, <<c>>, p.i + 1)
  <1>1. Arm(l, p, c, next, q)
    BY ParseArms
  <1> USE DEF Separators, SingleQuote, DoubleQuote, Backslash, Backtick, Blank
  <1>4. c = Backslash /\ next # <<>> => q = Take(p, next, p.i + 2)
    BY <1>1 DEF Arm
  <1>5. c = "$" /\ next = <<"(">> => q = Substitution(l, p)
    BY <1>1 DEF Arm
  <1>7. c = Blank => q = Blanked(p)
    BY <1>1 DEF Arm, Blanked
  <1>8. c \in Separators => q = Operator(p, c, next = <<c>>)
    BY <1>1 DEF Arm
  <1>9. c \in {">", "<"} => q = Redirection(p, c, next = <<c>>)
    BY <1>1 DEF Arm
  <1>10. (/\ c \notin Separators \cup {SingleQuote, DoubleQuote, Backtick, Blank, ">", "<"}
          /\ ~(c = Backslash /\ next # <<>>) /\ ~(c = "$" /\ next = <<"(">>))
         => q = Take(p, <<c>>, p.i + 1)
    BY <1>1 DEF Arm
  <1> QED BY <1>4, <1>5, <1>7, <1>8, <1>9, <1>10

(* What follows in the line follows in the window, but beyond its end.       *)
LEMMA FollowingInWindow ==
    ASSUME NEW l, NEW r, NEW d, NEW p, NEW q, Facing(l, r, d, p, q)
    PROVE  \/ Following(l, p.i) = Following(r, q.i)
           \/ /\ p.i = d + Len(r) /\ d + Len(r) < Len(l)
              /\ Following(r, q.i) = <<>> /\ Following(l, p.i) = <<l[d + Len(r) + 1]>>
  <1>0. /\ l \in Word /\ r \in Word /\ Window(l, r, d)
        /\ d \in Nat /\ Len(l) \in Nat /\ Len(r) \in Nat /\ d + Len(r) <= Len(l)
        /\ q.i \in 1..Len(r) /\ p.i = d + q.i
    BY FacingFacts
  <1>1. PICK n, m, i, x : n = Len(l) /\ m = Len(r) /\ i = p.i /\ x = q.i
    OBVIOUS
  <1>2. d \in Nat /\ n \in Nat /\ m \in Nat /\ d + m <= n /\ x \in 1..m /\ i = d + x
    BY <1>0, <1>1
  <1>3. CASE x < m
    <2>1. x + 1 \in 1..m /\ d + (x + 1) = i + 1 /\ i < n
      BY <1>2, <1>3
    <2>2. r[x + 1] = l[i + 1]
      BY <1>0, <1>1, <2>1 DEF Window
    <2> QED BY <1>1, <1>3, <2>1, <2>2 DEF Following
  <1>4. CASE ~(x < m) /\ d + m = n
    <2>1. ~(i < n)
      BY <1>2, <1>4
    <2> QED BY <1>1, <1>4, <2>1 DEF Following
  <1>5. CASE ~(x < m) /\ d + m # n
    <2>1. i < n /\ i = d + m /\ d + m < n /\ i + 1 = d + m + 1
      BY <1>2, <1>5
    <2>2. Following(r, x) = <<>>
      BY <1>1, <1>5 DEF Following
    <2>3. Following(l, i) = <<l[d + m + 1]>>
      BY <1>1, <2>1 DEF Following
    <2> QED BY <1>1, <2>1, <2>2, <2>3
  <1> QED BY <1>3, <1>4, <1>5

(* The window ends with the line, or the line goes on with a separator that  *)
(* the turn does not touch.                                                  *)
Fits(l, r, d, p) ==
    \/ d + Len(r) = Len(l)
    \/ /\ l[d + Len(r) + 1] \in Separators
       /\ ParseStep(l, p).i <= d + Len(r) + 1

(* One or two pieces are taken.                                              *)
LEMMA FewTaken ==
    ASSUME NEW p \in ParserState, NEW q \in ParserState, NEW w \in Word, NEW s \in {1, 2}
    PROVE  TakenAlike(p, q, Take(p, w, p.i + s), Take(q, w, q.i + s))
  <1>1. PICK e, f \in Nat : e = p.i + s /\ f = q.i + s
    BY DEF ParserState
  <1>2. s \in Nat \ {0}
    OBVIOUS
  <1>3. PICK o \in BOOLEAN : ~o
    OBVIOUS
  <1>4. Taken(p, Take(p, w, e), w, o, s) /\ Taken(q, Take(q, w, f), w, o, s)
    BY <1>1, <1>2, <1>3, TakenBy
  <1> QED BY <1>1, <1>2, <1>4 DEF TakenAlike

(* What the match on a quote does.                                           *)
LEMMA QuoteArms ==
    ASSUME NEW l \in Word, NEW p \in ParserState, p.i \in 1..Len(l)
    PROVE  /\ l[p.i] = SingleQuote => ParseStep(l, p) = SingleQuoted(l, p)
           /\ l[p.i] = DoubleQuote => ParseStep(l, p) = DoubleQuoted(l, p)
           /\ l[p.i] = Backtick => ParseStep(l, p) = Backquoted(l, p)
  <1>1. PICK c, next, q : c = l[p.i] /\ next = Following(l, p.i) /\ q = ParseStep(l, p)
    OBVIOUS
  <1>2. Arm(l, p, c, next, q)
    BY <1>1, ParseArms
  <1>3. c = SingleQuote => q = SingleQuoted(l, p)
    BY <1>2 DEF Arm, Separators, SingleQuote, DoubleQuote, Backslash, Backtick, Blank
  <1>4. c = DoubleQuote => q = DoubleQuoted(l, p)
    BY <1>2 DEF Arm, Separators, SingleQuote, DoubleQuote, Backslash, Backtick, Blank
  <1>5. c = Backtick => q = Backquoted(l, p)
    BY <1>2 DEF Arm, Separators, SingleQuote, DoubleQuote, Backslash, Backtick, Blank
  <1> QED BY <1>1, <1>3, <1>4, <1>5

(* Together: what a quote opens is taken alike.                              *)
LEMMA QuotesInWindow ==
    ASSUME NEW l, NEW r, NEW d, NEW p, NEW q, Facing(l, r, d, p, q), Fits(l, r, d, p),
           l[p.i] \in {SingleQuote, DoubleQuote, Backtick}
    PROVE  TakenAlike(p, q, ParseStep(l, p), ParseStep(r, q))
  <1>0. /\ l \in Word /\ r \in Word /\ p \in ParserState /\ q \in ParserState
        /\ d \in Nat /\ Len(l) \in Nat /\ Len(r) \in Nat
        /\ p.i \in 1..Len(l) /\ q.i \in 1..Len(r) /\ l[p.i] = r[q.i] /\ p.i \in Nat
    BY FacingFacts
  <1>1. ASSUME NEW y \in Nat, y + 1 = ParseStep(l, p).i
        PROVE  Within(l, r, d, y)
    BY <1>0, <1>1 DEF Fits, Within
  <1>2. CASE l[p.i] = SingleQuote
    <2>1. ParseStep(l, p) = SingleQuoted(l, p) /\ ParseStep(r, q) = SingleQuoted(r, q)
      BY <1>0, <1>2, QuoteArms
    <2>2. PICK y : y = Closing(l, p.i, SingleQuote)
      OBVIOUS
    <2>3. y \in (p.i + 1)..(Len(l) + 1) /\ SingleQuoted(l, p).i = y + 1
      BY <1>0, <2>2, ClosingFact, SingleQuotedFact
    <2>4. y \in Nat
      BY <1>0, <2>3
    <2>5. Within(l, r, d, y)
      BY <1>1, <2>1, <2>3, <2>4
    <2> QED BY <2>1, <2>2, <2>5, SingleInWindow
  <1>3. CASE l[p.i] = DoubleQuote
    <2>1. ParseStep(l, p) = DoubleQuoted(l, p) /\ ParseStep(r, q) = DoubleQuoted(r, q)
      BY <1>0, <1>3, QuoteArms
    <2>2. PICK y : y = DoubleEnd(l, p.i)
      OBVIOUS
    <2>3. y \in (p.i + 1)..(Len(l) + 1) /\ DoubleQuoted(l, p).i = y + 1
      BY <1>0, <2>2, DoubleEndFact, DoubleQuotedFact
    <2>4. y \in Nat
      BY <1>0, <2>3
    <2>5. Within(l, r, d, y)
      BY <1>1, <2>1, <2>3, <2>4
    <2> QED BY <2>1, <2>2, <2>5, DoubleInWindow
  <1>4. CASE l[p.i] = Backtick
    <2>1. ParseStep(l, p) = Backquoted(l, p) /\ ParseStep(r, q) = Backquoted(r, q)
      BY <1>0, <1>4, QuoteArms
    <2>2. PICK y : y = Closing(l, p.i, Backtick)
      OBVIOUS
    <2>3. y \in (p.i + 1)..(Len(l) + 1)
      BY <1>0, <2>2, ClosingFact
    <2>4. y \in Nat /\ y + 1 \in Nat
      BY <1>0, <2>3
    <2>5. Backquoted(l, p).i = y + 1
      <3>1. PICK e, w : e = y + 1 /\ w = <<"b...b">>
        OBVIOUS
      <3>2. w \in Word /\ e \in Nat \ {0}
        BY <2>4, <3>1, WordPieces, WrittenAssumption DEF Written
      <3>3. PICK z : z = Take(p, w, e)
        OBVIOUS
      <3>4. z \in ParserState /\ z.i = e
        BY <1>0, <3>2, <3>3, TakeFact
      <3>5. Backquoted(l, p) = [z EXCEPT !.opaque = TRUE]
        BY <2>2, <3>1, <3>3 DEF Backquoted
      <3> QED BY <3>1, <3>4, <3>5 DEF ParserState
    <2>6. Within(l, r, d, y)
      BY <1>1, <2>1, <2>4, <2>5
    <2> QED BY <2>1, <2>2, <2>6, BackInWindow
  <1> QED BY <1>2, <1>3, <1>4

(* A turn does in the window what it does in the line.                       *)
LEMMA SameStep ==
    ASSUME NEW l, NEW r, NEW d, NEW p, NEW q, Facing(l, r, d, p, q), Fits(l, r, d, p)
    PROVE  SameAct(p, q, ParseStep(l, p), ParseStep(r, q))
  <1>0. /\ l \in Word /\ r \in Word /\ p \in ParserState /\ q \in ParserState
        /\ d \in Nat /\ Len(l) \in Nat /\ Len(r) \in Nat
        /\ p.i \in 1..Len(l) /\ q.i \in 1..Len(r) /\ l[p.i] = r[q.i] /\ p.i \in Nat /\ q.i \in Nat
        /\ p.i = d + q.i /\ d + Len(r) <= Len(l)
    BY FacingFacts
  <1>1. PICK c, a, b, p2, q2 : /\ c = l[p.i] /\ c = r[q.i]
                               /\ a = Following(l, p.i) /\ b = Following(r, q.i)
                               /\ p2 = ParseStep(l, p) /\ q2 = ParseStep(r, q)
    BY <1>0
  <1>2. CASE c \in {SingleQuote, DoubleQuote, Backtick}
    BY <1>1, <1>2, QuotesInWindow DEF SameAct
  <1> SUFFICES ASSUME c \notin {SingleQuote, DoubleQuote, Backtick} PROVE SameAct(p, q, p2, q2)
    BY <1>1, <1>2
  <1>3. /\ c = Backslash /\ a # <<>> => p2 = Take(p, a, p.i + 2)
        /\ c = "$" /\ a = <<"(">> => p2 = Substitution(l, p)
        /\ c = Blank => p2 = Blanked(p)
        /\ c \in Separators => p2 = Operator(p, c, a = <<c>>)
        /\ c \in {">", "<"} => p2 = Redirection(p, c, a = <<c>>)
        /\ (/\ c \notin Separators \cup {SingleQuote, DoubleQuote, Backtick, Blank, ">", "<"}
            /\ ~(c = Backslash /\ a # <<>>) /\ ~(c = "$" /\ a = <<"(">>))
           => p2 = Take(p, <<c>>, p.i + 1)
    BY <1>0, <1>1, ArmTaken
  <1>4. /\ c = Backslash /\ b # <<>> => q2 = Take(q, b, q.i + 2)
        /\ c = "$" /\ b = <<"(">> => q2 = Substitution(r, q)
        /\ c = Blank => q2 = Blanked(q)
        /\ c \in Separators => q2 = Operator(q, c, b = <<c>>)
        /\ c \in {">", "<"} => q2 = Redirection(q, c, b = <<c>>)
        /\ (/\ c \notin Separators \cup {SingleQuote, DoubleQuote, Backtick, Blank, ">", "<"}
            /\ ~(c = Backslash /\ b # <<>>) /\ ~(c = "$" /\ b = <<"(">>))
           => q2 = Take(q, <<c>>, q.i + 1)
    BY <1>0, <1>1, ArmTaken
  <1>5. \/ a = b
        \/ /\ p.i = d + Len(r) /\ d + Len(r) < Len(l) /\ b = <<>>
           /\ \E z \in Separators : a = <<z>>
           /\ p2.i <= p.i + 1
    <2>1. \/ a = b
          \/ p.i = d + Len(r) /\ d + Len(r) < Len(l) /\ b = <<>> /\ a = <<l[d + Len(r) + 1]>>
      BY <1>1, FollowingInWindow
    <2>2. d + Len(r) < Len(l) =>
             l[d + Len(r) + 1] \in Separators /\ p2.i <= d + Len(r) + 1
      BY <1>0, <1>1 DEF Fits
    <2> QED BY <2>1, <2>2
  <1>6. <<c>> \in Word
    BY <1>0, <1>1, LineFacts
  <1>7. b # <<>> => b \in Word /\ q.i < Len(r)
    <2>1. CASE q.i < Len(r)
      <3>1. q.i + 1 \in 1..Len(r)
        BY <1>0, <2>1
      <3>2. b = <<r[q.i + 1]>>
        BY <1>1, <2>1 DEF Following
      <3> QED BY <1>0, <2>1, <3>1, <3>2, LineFacts
    <2>2. CASE ~(q.i < Len(r))
      BY <1>1, <2>2 DEF Following
    <2> QED BY <2>1, <2>2
  <1>8. CASE c = Backslash /\ a # <<>>
    <2>1. a \in Word
      <3>1. CASE a = b
        BY <1>7, <1>8, <3>1
      <3>2. CASE a # b
        <4>1. p.i + 1 \in 1..Len(l) /\ p.i < Len(l)
          BY <1>0, <1>5, <3>2
        <4>2. a = <<l[p.i + 1]>>
          BY <1>1, <4>1 DEF Following
        <4> QED BY <1>0, <4>1, <4>2, LineFacts
      <3> QED BY <3>1, <3>2
    <2>2. p2 = Take(p, a, p.i + 2) /\ p2.i = p.i + 2
      <3>1. p2 = Take(p, a, p.i + 2)
        BY <1>3, <1>8
      <3> QED BY <1>0, <2>1, <3>1, TakeOnFact
    <2>3. a = b
      BY <1>0, <1>5, <2>2
    <2>4. q2 = Take(q, a, q.i + 2)
      BY <1>4, <1>8, <2>3
    <2> QED BY <1>0, <2>1, <2>2, <2>4, FewTaken DEF SameAct
  <1>9. CASE c = "$" /\ a = <<"(">>
    <2>1. "(" \notin Separators
      BY DEF Separators
    <2>2. a = b
      <3> SUFFICES ASSUME NEW z \in Separators, a = <<z>> PROVE FALSE
        BY <1>5
      <3>1. z = "("
        BY <1>9
      <3> QED BY <2>1, <3>1
    <2>3. b # <<>> /\ q.i < Len(r)
      BY <1>7, <1>9, <2>2
    <2>4. p2 = Substitution(l, p) /\ q2 = Substitution(r, q)
      BY <1>3, <1>4, <1>9, <2>2
    <2>5. PICK y : y = SubstitutionEnd(l, p.i)
      OBVIOUS
    <2>6. y \in (p.i + 1)..Len(l) /\ y \in Nat
      <3>1. p.i \in 1..(Len(l) - 1)
        BY <1>0, <2>3
      <3> QED BY <1>0, <2>5, <3>1, SubstitutionEndFact
    <2>7. p2.i = y + 1
      <3>1. PICK e, w : e = y + 1 /\ w = <<"$(...)">>
        OBVIOUS
      <3>2. w \in Word /\ e \in Nat \ {0}
        BY <2>6, <3>1, WordPieces, WrittenAssumption DEF Written
      <3>3. PICK z : z = Take(p, w, e)
        OBVIOUS
      <3>4. z \in ParserState /\ z.i = e
        BY <1>0, <3>2, <3>3, TakeFact
      <3>5. p2 = [z EXCEPT !.opaque = TRUE]
        BY <2>4, <2>5, <3>1, <3>3 DEF Substitution
      <3> QED BY <3>1, <3>4, <3>5 DEF ParserState
    <2>8. Within(l, r, d, y)
      BY <1>0, <1>1, <2>6, <2>7 DEF Within, Fits
    <2>9. TakenAlike(p, q, Substitution(l, p), Substitution(r, q))
      BY <2>3, <2>5, <2>8, SubstitutionInWindow
    <2> QED BY <2>4, <2>9 DEF SameAct
  <1>10. CASE c = Blank
    BY <1>3, <1>4, <1>10 DEF SameAct
  <1>11. CASE c \in Separators
    <2>1. PICK u \in BOOLEAN, v \in BOOLEAN : u = (a = <<c>>) /\ v = (b = <<c>>)
      OBVIOUS
    <2>2. p2 = Operator(p, c, u) /\ q2 = Operator(q, c, v)
      BY <1>3, <1>4, <1>11, <2>1
    <2>3. CASE u = v
      BY <1>11, <2>2, <2>3 DEF SameAct
    <2>4. CASE u # v
      <3>1. a # b
        BY <2>1, <2>4
      <3>2. ~v /\ u
        <4>1. b = <<>> /\ <<>> # <<c>>
          BY <1>5, <3>1
        <4>2. ~v
          BY <2>1, <4>1
        <4> QED BY <2>1, <2>4, <4>2
      <3>3. c = ";"
        <4>1. p2.i = p.i + (IF u /\ c # ";" THEN 2 ELSE 1)
          BY <1>0, <2>2, OperatorFact
        <4>2. PICK i, j : i = p.i /\ j = p2.i
          OBVIOUS
        <4>3. i \in Nat /\ j <= i + 1
          BY <1>0, <1>5, <3>1, <4>2
        <4>4. c # ";" => j = i + 2
          BY <3>2, <4>1, <4>2
        <4>5. ~(i + 2 <= i + 1)
          BY <4>3
        <4> QED BY <4>3, <4>4, <4>5
      <3>4. Operator(q, c, v) = Operator(q, c, u)
        <4>1. (c = "|" /\ ~v) = (c = "|" /\ ~u)
          BY <3>3
        <4>2. (IF v /\ c # ";" THEN 2 ELSE 1) = (IF u /\ c # ";" THEN 2 ELSE 1)
          BY <3>3
        <4>3. PICK reads, k : reads = (c = "|" /\ ~v) /\ k = IF v /\ c # ";" THEN 2 ELSE 1
          OBVIOUS
        <4>4. Operator(q, c, v) = [EndSegment(PushWord(q), reads) EXCEPT !.i = @ + k]
          BY <4>3 DEF Operator
        <4>5. Operator(q, c, u) = [EndSegment(PushWord(q), reads) EXCEPT !.i = @ + k]
          BY <4>1, <4>2, <4>3 DEF Operator
        <4> QED BY <4>4, <4>5
      <3> QED BY <1>11, <2>2, <3>4 DEF SameAct
    <2> QED BY <2>3, <2>4
  <1>12. CASE c \in {">", "<"}
    <2>1. (a = <<c>>) = (b = <<c>>)
      <3>1. CASE a = b
        BY <3>1
      <3>2. CASE a # b
        <4>1. PICK z \in Separators : a = <<z>>
          BY <1>5, <3>2
        <4>2. z # c
          BY <1>12 DEF Separators
        <4> QED BY <1>5, <3>2, <4>1, <4>2
      <3> QED BY <3>1, <3>2
    <2>2. PICK u \in BOOLEAN : u = (a = <<c>>)
      OBVIOUS
    <2>3. p2 = Redirection(p, c, u) /\ q2 = Redirection(q, c, u)
      BY <1>3, <1>4, <1>12, <2>1, <2>2
    <2> QED BY <1>12, <2>3 DEF SameAct
  <1>13. CASE /\ c \notin Separators \cup {SingleQuote, DoubleQuote, Backtick, Blank, ">", "<"}
              /\ ~(c = Backslash /\ a # <<>>) /\ ~(c = "$" /\ a = <<"(">>)
    <2>1. p2 = Take(p, <<c>>, p.i + 1)
      BY <1>3, <1>13
    <2>2. ~(c = Backslash /\ b # <<>>) /\ ~(c = "$" /\ b = <<"(">>)
      BY <1>5, <1>13
    <2>3. q2 = Take(q, <<c>>, q.i + 1)
      BY <1>4, <1>13, <2>2
    <2> QED BY <1>0, <1>6, <2>1, <2>3, FewTaken DEF SameAct
  <1> QED BY <1>8, <1>9, <1>10, <1>11, <1>12, <1>13

(* Between backticks.                                                        *)
LEMMA BackContext ==
    ASSUME NEW l \in Word, NEW i \in 1..Len(l), Contexts(l)[i] = "plain", l[i] = Backtick,
           NEW j, j = Closing(l, i, Backtick)
    PROVE  /\ \A m \in (i + 1)..j : Contexts(l)[m] = "back"
           /\ j <= Len(l) => Contexts(l)[j + 1] = "plain"
  <1>0. PICK n, ctx : n \in Nat /\ n = Len(l) /\ ctx = Contexts(l)
    BY LineFacts
  <1>1. j \in (i + 1)..(n + 1) /\ (j <= n => l[j] = Backtick)
        /\ \A m \in (i + 1)..(j - 1) : l[m] # Backtick
    BY <1>0, ClosingFact
  <1>2. n \in Nat /\ i \in Nat /\ j \in Nat /\ i + 1 \in Nat
    BY <1>0, <1>1
  <1>3. \A k \in 1..n : ctx[k + 1] = NextContext(ctx[k], l[k], After(l, k))
    BY <1>0, ContextsFact
  <1>4. ctx[i + 1] = "back"
    <2>1. i \in 1..n
      BY <1>0
    <2>2. ctx[i + 1] = NextContext(ctx[i], l[i], After(l, i)) /\ ctx[i] = "plain"
      BY <1>0, <1>3, <2>1
    <2> QED BY <2>2 DEF NextContext, SingleQuote, DoubleQuote, Backslash, Backtick
  <1>5. ASSUME NEW m \in (i + 2)..j, ctx[m - 1] = "back"
        PROVE  ctx[m] = "back"
    <2>1. m - 1 \in 1..n /\ m - 1 \in (i + 1)..(j - 1) /\ m - 1 + 1 = m
      BY <1>1, <1>2
    <2>2. l[m - 1] # Backtick
      BY <1>1, <2>1
    <2>3. ctx[m - 1 + 1] = NextContext(ctx[m - 1], l[m - 1], After(l, m - 1))
      BY <1>3, <2>1
    <2> QED BY <1>5, <2>1, <2>2, <2>3 DEF NextContext
  <1>6. \A m \in (i + 1)..j : ctx[m] = "back"
    <2> DEFINE P == {m \in (i + 1)..j : ctx[m] = "back"}
    <2>1. i + 1 \in P
      BY <1>1, <1>2, <1>4
    <2>2. ASSUME NEW k \in (i + 1 + 1)..j, k - 1 \in P
          PROVE  k \in P
      <3>1. k \in (i + 2)..j /\ k \in (i + 1)..j
        BY <1>2
      <3> QED BY <1>5, <2>2, <3>1
    <2>3. \A k \in (i + 1)..j : k \in P
      <3> HIDE DEF P
      <3> QED BY <1>2, <2>1, <2>2, Between
    <2> QED BY <2>3
  <1>7. j <= n => ctx[j + 1] = "plain"
    <2> SUFFICES ASSUME j <= n PROVE ctx[j + 1] = "plain"
      OBVIOUS
    <2>1. j \in 1..n /\ j \in (i + 1)..j
      BY <1>1, <1>2
    <2>2. ctx[j] = "back" /\ l[j] = Backtick
      BY <1>1, <1>6, <2>1
    <2>3. ctx[j + 1] = NextContext(ctx[j], l[j], After(l, j))
      BY <1>3, <2>1
    <2> QED BY <2>2, <2>3 DEF NextContext
  <1> QED BY <1>0, <1>6, <1>7

(* After $( the automaton does not come back.                                *)
LEMMA SubstitutionContext ==
    ASSUME NEW l \in Word, NEW i \in 1..(Len(l) - 1), Contexts(l)[i] = "plain", l[i] = "$", l[i + 1] = "("
    PROVE  \A m \in (i + 1)..Len(l) : Contexts(l)[m] = "substitution"
  <1>0. PICK n, ctx : n \in Nat /\ n = Len(l) /\ ctx = Contexts(l)
    BY LineFacts
  <1>1. n \in Nat /\ i \in 1..(n - 1) /\ i + 1 \in Nat /\ i \in 1..n
    BY <1>0
  <1>2. \A k \in 1..n : ctx[k + 1] = NextContext(ctx[k], l[k], After(l, k))
    BY <1>0, ContextsFact
  <1>3. ctx[i + 1] = "substitution"
    <2>1. ctx[i + 1] = NextContext(ctx[i], l[i], After(l, i)) /\ ctx[i] = "plain"
      BY <1>0, <1>1, <1>2
    <2>2. After(l, i) = "("
      BY <1>0, <1>1 DEF After
    <2> QED BY <2>1, <2>2 DEF NextContext, SingleQuote, DoubleQuote, Backslash, Backtick
  <1> DEFINE P == {m \in (i + 1)..n : ctx[m] = "substitution"}
  <1>4. i + 1 \in P
    BY <1>1, <1>3
  <1>5. ASSUME NEW k \in (i + 1 + 1)..n, k - 1 \in P
        PROVE  k \in P
    <2>1. k - 1 \in 1..n /\ k - 1 + 1 = k /\ k \in (i + 1)..n
      BY <1>1
    <2>2. ctx[k - 1 + 1] = NextContext(ctx[k - 1], l[k - 1], After(l, k - 1))
      BY <1>2, <2>1
    <2>3. ctx[k] = "substitution"
      BY <1>5, <2>1, <2>2 DEF NextContext
    <2> QED BY <2>1, <2>3
  <1>6. \A k \in (i + 1)..n : k \in P
    <2> HIDE DEF P
    <2> QED BY <1>1, <1>4, <1>5, Between
  <1> QED BY <1>0, <1>6

(* A piece that opens nothing leaves the context plain.                      *)
LEMMA StaysPlain ==
    ASSUME NEW l \in Word, NEW i \in 1..Len(l), Contexts(l)[i] = "plain",
           l[i] \notin {SingleQuote, DoubleQuote, Backslash, Backtick},
           ~(l[i] = "$" /\ Following(l, i) = <<"(">>)
    PROVE  Contexts(l)[i + 1] = "plain"
  <1>1. Len(l) \in Nat /\ i \in Nat
    BY LineFacts
  <1>2. Contexts(l)[i + 1] = NextContext("plain", l[i], After(l, i))
    BY ContextsFact
  <1>3. ~(l[i] = "$" /\ After(l, i) = "(")
    BY <1>1 DEF After, NoName, Following
  <1> QED BY <1>2, <1>3 DEF NextContext

(* A separator in the plain context, which is where a turn that starts       *)
(* before it stops at the latest, unless it is the second of two.            *)
LEMMA CutStep ==
    ASSUME NEW l \in Word, NEW k \in 1..Len(l), l[k] \in Separators, Contexts(l)[k] = "plain",
           NEW p \in ParserState, p.i \in 1..(k - 1), Contexts(l)[p.i] = "plain"
    PROVE  \/ ParseStep(l, p).i <= k /\ Contexts(l)[ParseStep(l, p).i] = "plain"
           \/ p.i = k - 1 /\ l[p.i] = l[k] /\ l[k] # ";"
  <1>0. PICK n, ctx, i : n \in Nat /\ n = Len(l) /\ ctx = Contexts(l) /\ i = p.i
    BY LineFacts
  <1>1. n \in Nat /\ k \in 1..n /\ i \in 1..(k - 1) /\ i \in 1..n /\ i < k /\ i \in Nat /\ k \in Nat
        /\ i < n
    BY <1>0
  <1>2. PICK c, a, q : c = l[i] /\ a = Following(l, i) /\ q = ParseStep(l, p)
    OBVIOUS
  <1>3. ctx[i] = "plain" /\ ctx[k] = "plain" /\ a = <<l[i + 1]>> /\ a # <<>> /\ i + 1 \in 1..n
    BY <1>0, <1>1, <1>2 DEF Following
  <1>i. p.i \in 1..Len(l) /\ i \in 1..Len(l)
    BY <1>0, <1>1
  <1> SUFFICES \/ q.i <= k /\ ctx[q.i] = "plain"
               \/ i = k - 1 /\ l[i] = l[k] /\ l[k] # ";"
    BY <1>0, <1>2
  <1>4. /\ c = SingleQuote => q = SingleQuoted(l, p)
        /\ c = DoubleQuote => q = DoubleQuoted(l, p)
        /\ c = Backtick => q = Backquoted(l, p)
    BY <1>0, <1>2, <1>i, QuoteArms
  <1>5. /\ c = Backslash /\ a # <<>> => q = Take(p, a, p.i + 2)
        /\ c = Blank => q = Blanked(p)
        /\ c \in Separators => q = Operator(p, c, a = <<c>>)
        /\ c \in {">", "<"} => q = Redirection(p, c, a = <<c>>)
        /\ (/\ c \notin Separators \cup {SingleQuote, DoubleQuote, Backtick, Blank, ">", "<"}
            /\ ~(c = Backslash /\ a # <<>>) /\ ~(c = "$" /\ a = <<"(">>))
           => q = Take(p, <<c>>, p.i + 1)
    BY <1>0, <1>2, <1>i, ArmTaken
  <1>6. ASSUME NEW j \in (i + 1)..(n + 1), \A m \in (i + 1)..j : ctx[m] # "plain",
               j <= n => ctx[j + 1] = "plain", q.i = j + 1
        PROVE  q.i <= k /\ ctx[q.i] = "plain"
    <2>1. ~(k <= j)
      <3> SUFFICES ASSUME k <= j PROVE FALSE
        OBVIOUS
      <3>1. k \in (i + 1)..j
        BY <1>1
      <3> QED BY <1>3, <1>6, <3>1
    <2>2. j + 1 <= k /\ j <= n
      BY <1>1, <2>1
    <2> QED BY <1>6, <2>2
  <1>7. CASE c = SingleQuote
    <2>1. PICK j : j = Closing(l, i, SingleQuote)
      OBVIOUS
    <2>2. j \in (i + 1)..(n + 1)
      BY <1>0, <1>i, <2>1, ClosingFact
    <2>3. (\A m \in (i + 1)..j : ctx[m] = "single") /\ (j <= n => ctx[j + 1] = "plain")
      <3>1. Contexts(l)[i] = "plain" /\ l[i] = SingleQuote
        BY <1>0, <1>2, <1>3, <1>7
      <3>2. /\ \A m \in (i + 1)..j : Contexts(l)[m] = "single"
            /\ j <= Len(l) => Contexts(l)[j + 1] = "plain"
        BY <1>i, <2>1, <3>1, SingleContext
      <3> QED BY <1>0, <3>2
    <2>4. q.i = j + 1
      BY <1>0, <1>4, <1>7, <1>i, <2>1, SingleQuotedFact
    <2>5. \A m \in (i + 1)..j : ctx[m] # "plain"
      BY <2>3
    <2> QED BY <1>6, <2>2, <2>3, <2>4, <2>5
  <1>8. CASE c = DoubleQuote
    <2>1. PICK j : j = DoubleEnd(l, i)
      OBVIOUS
    <2>2. j \in (i + 1)..(n + 1)
      BY <1>0, <1>i, <2>1, DoubleEndFact
    <2>3. (\A m \in (i + 1)..j : ctx[m] \in {"double", "double escape"}) /\ (j <= n => ctx[j + 1] = "plain")
      <3>1. Contexts(l)[i] = "plain" /\ l[i] = DoubleQuote
        BY <1>0, <1>2, <1>3, <1>8
      <3>2. /\ \A m \in (i + 1)..j : Contexts(l)[m] \in {"double", "double escape"}
            /\ j <= Len(l) => Contexts(l)[j + 1] = "plain"
        BY <1>i, <2>1, <3>1, DoubleContext
      <3> QED BY <1>0, <3>2
    <2>4. q.i = j + 1
      BY <1>0, <1>4, <1>8, <1>i, <2>1, DoubleQuotedFact
    <2>5. \A m \in (i + 1)..j : ctx[m] # "plain"
      BY <2>3
    <2> QED BY <1>6, <2>2, <2>3, <2>4, <2>5
  <1>9. CASE c = Backtick
    <2>1. PICK j : j = Closing(l, i, Backtick)
      OBVIOUS
    <2>2. j \in (i + 1)..(n + 1)
      BY <1>0, <1>i, <2>1, ClosingFact
    <2>3. (\A m \in (i + 1)..j : ctx[m] = "back") /\ (j <= n => ctx[j + 1] = "plain")
      <3>1. Contexts(l)[i] = "plain" /\ l[i] = Backtick
        BY <1>0, <1>2, <1>3, <1>9
      <3>2. /\ \A m \in (i + 1)..j : Contexts(l)[m] = "back"
            /\ j <= Len(l) => Contexts(l)[j + 1] = "plain"
        BY <1>i, <2>1, <3>1, BackContext
      <3> QED BY <1>0, <3>2
    <2>4. q.i = j + 1
      <3>1. PICK e, w : e = j + 1 /\ w = <<"b...b">>
        OBVIOUS
      <3>2. w \in Word /\ e \in Nat \ {0}
        BY <1>1, <2>2, <3>1, WordPieces, WrittenAssumption DEF Written
      <3>3. PICK z : z = Take(p, w, e)
        OBVIOUS
      <3>4. z \in ParserState /\ z.i = e
        BY <3>2, <3>3, TakeFact
      <3>5. q = [z EXCEPT !.opaque = TRUE]
        BY <1>0, <1>4, <1>9, <2>1, <3>1, <3>3 DEF Backquoted
      <3> QED BY <3>1, <3>4, <3>5 DEF ParserState
    <2>5. \A m \in (i + 1)..j : ctx[m] # "plain"
      BY <2>3
    <2> QED BY <1>6, <2>2, <2>3, <2>4, <2>5
  <1>10. CASE c = Backslash
    <2>1. q = Take(p, a, p.i + 2) /\ a \in Word
      <3>1. a \in Word
        BY <1>0, <1>3, LineFacts
      <3> QED BY <1>3, <1>5, <1>10, <3>1
    <2>2. q.i = i + 2
      BY <1>0, <2>1, TakeOnFact
    <2>3. ctx[i + 1] = NextContext(ctx[i], l[i], After(l, i))
      BY <1>0, <1>1, ContextsFact
    <2>4. ctx[i + 1] = "escape"
      BY <1>2, <1>3, <1>10, <2>3 DEF NextContext, SingleQuote, DoubleQuote, Backslash, Backtick
    <2>5. i + 1 # k
      BY <1>3, <2>4
    <2>6. i + 2 <= k /\ i + 1 + 1 = i + 2
      BY <1>1, <2>5
    <2>7. ctx[i + 1 + 1] = NextContext(ctx[i + 1], l[i + 1], After(l, i + 1))
      BY <1>0, <1>3, ContextsFact
    <2>8. ctx[i + 1 + 1] = "plain"
      BY <2>4, <2>7 DEF NextContext
    <2> QED BY <2>2, <2>6, <2>8
  <1>11. CASE c = "$" /\ a = <<"(">>
    <2>1. l[i + 1] = "(" /\ i \in 1..(Len(l) - 1)
      BY <1>0, <1>1, <1>3, <1>11
    <2>2. \A m \in (i + 1)..n : ctx[m] = "substitution"
      BY <1>0, <1>2, <1>3, <1>11, <2>1, SubstitutionContext
    <2>3. k \in (i + 1)..n
      BY <1>1
    <2> QED BY <1>3, <2>2, <2>3
  <1>12. CASE c \notin {SingleQuote, DoubleQuote, Backslash, Backtick} /\ ~(c = "$" /\ a = <<"(">>)
    <2>1. ctx[i + 1] = "plain"
      BY <1>0, <1>2, <1>3, <1>12, <1>i, StaysPlain
    <2>2. i + 1 <= k
      BY <1>1
    <2>3. CASE q.i = i + 1
      BY <2>1, <2>2, <2>3
    <2>4. CASE c \in Separators
      <3>1. PICK u \in BOOLEAN : u = (a = <<c>>)
        OBVIOUS
      <3>2. q.i = i + (IF u /\ c # ";" THEN 2 ELSE 1)
        <4>1. q = Operator(p, c, u)
          BY <1>5, <2>4, <3>1
        <4> QED BY <1>0, <4>1, OperatorFact
      <3>3. CASE u /\ c # ";"
        <4>1. l[i + 1] = c
          BY <1>3, <3>1, <3>3
        <4>2. CASE i + 1 = k
          <5>1. i = k - 1
            BY <1>1, <4>2
          <5> QED BY <1>2, <3>3, <4>1, <4>2, <5>1
        <4>3. CASE i + 1 # k
          <5>1. i + 2 <= k /\ i + 1 + 1 = i + 2
            BY <1>1, <4>3
          <5>2. ctx[i + 1 + 1] = "plain"
            <6>1. l[i + 1] \notin {SingleQuote, DoubleQuote, Backslash, Backtick} /\ l[i + 1] # "$"
              BY <2>4, <4>1 DEF Separators, SingleQuote, DoubleQuote, Backslash, Backtick
            <6>2. PICK m : m = i + 1 /\ m \in 1..Len(l)
              BY <1>0, <1>3
            <6>3. ctx[m + 1] = "plain"
              BY <1>0, <2>1, <6>1, <6>2, StaysPlain
            <6> QED BY <6>2, <6>3
          <5> QED BY <3>2, <3>3, <5>1, <5>2
        <4> QED BY <4>2, <4>3
      <3>4. CASE ~(u /\ c # ";")
        BY <2>3, <3>2, <3>4
      <3> QED BY <3>3, <3>4
    <2>5. CASE c \in {">", "<"}
      <3>1. PICK u \in BOOLEAN : u = (a = <<c>>)
        OBVIOUS
      <3>2. q.i = i + (IF c = ">" /\ u THEN 2 ELSE 1)
        <4>1. q = Redirection(p, c, u)
          BY <1>5, <2>5, <3>1
        <4> QED BY <1>0, <4>1, RedirectionFact
      <3>3. CASE c = ">" /\ u
        <4>1. l[i + 1] = c
          BY <1>3, <3>1, <3>3
        <4>2. i + 1 # k
          <5>1. ">" \notin Separators
            BY DEF Separators
          <5> QED BY <3>3, <4>1, <5>1
        <4>3. i + 2 <= k /\ i + 1 + 1 = i + 2
          BY <1>1, <4>2
        <4>4. ctx[i + 1 + 1] = "plain"
          <5>1. l[i + 1] \notin {SingleQuote, DoubleQuote, Backslash, Backtick} /\ l[i + 1] # "$"
            BY <3>3, <4>1 DEF SingleQuote, DoubleQuote, Backslash, Backtick
          <5>2. PICK m : m = i + 1 /\ m \in 1..Len(l)
            BY <1>0, <1>3
          <5>3. ctx[m + 1] = "plain"
            BY <1>0, <2>1, <5>1, <5>2, StaysPlain
          <5> QED BY <5>2, <5>3
        <4> QED BY <3>2, <3>3, <4>3, <4>4
      <3>4. CASE ~(c = ">" /\ u)
        BY <2>3, <3>2, <3>4
      <3> QED BY <3>3, <3>4
    <2>6. CASE c = Blank
      <3>1. q.i = i + 1
        BY <1>0, <1>5, <2>6, BlankFact DEF Blanked
      <3> QED BY <2>3, <3>1
    <2>7. CASE c \notin Separators \cup {Blank, ">", "<"}
      <3>1. q = Take(p, <<c>>, p.i + 1)
        BY <1>5, <1>12, <2>7
      <3>2. <<c>> \in Word
        BY <1>2, <1>i, LineFacts
      <3>3. q.i = i + 1
        BY <1>0, <3>1, <3>2, TakeOnFact
      <3> QED BY <2>3, <3>3
    <2> QED BY <2>4, <2>5, <2>6, <2>7
  <1> QED BY <1>7, <1>8, <1>9, <1>10, <1>11, <1>12

(* What push_word and end_segment make of the words, the targets and the     *)
(* segments.                                                                 *)
WordsThen(p) == IF p.has /\ ~p.pending THEN Append(p.words, p.current) ELSE p.words
TargetsThen(p) == IF p.has /\ p.pending THEN Append(p.targets, p.current) ELSE p.targets
SegmentsThen(p) ==
    IF WordsThen(p) = <<>> THEN p.segments
    ELSE Append(p.segments, BuildSegment(WordsThen(p), p.readsPipe))

(* Nothing is kept of a word that is not being read.                         *)
Settled(p) == p \in ParserState /\ (~p.has => p.current = <<>>)

(* The word is handed over and q goes on s places, with the pending target   *)
(* that is left.                                                             *)
Pushed(p, q, s) ==
    /\ q \in ParserState /\ q.i = p.i + s /\ q.current = <<>> /\ ~q.has /\ q.opaque = p.opaque
    /\ q.targets = TargetsThen(p)

(* A redirection still waits for its target.                                 *)
Waiting(p) == p.pending /\ ~p.has

(* push_word...                                                              *)
LEMMA PushWordDoes ==
    ASSUME NEW p, Settled(p), NEW q, q = PushWord(p)
    PROVE  /\ Pushed(p, q, 0) /\ q.words = WordsThen(p) /\ q.readsPipe = p.readsPipe
           /\ q.segments = p.segments /\ (q.pending <=> Waiting(p))
  <1>1. /\ p \in ParserState /\ p.current \in Word /\ p.words \in Words /\ p.targets \in Words
        /\ p.i \in Nat /\ p.has \in BOOLEAN /\ p.pending \in BOOLEAN
    BY DEF Settled, ParserState
  <1>2. PICK ts, ws : ts = Append(p.targets, p.current) /\ ws = Append(p.words, p.current)
    OBVIOUS
  <1>3. q \in ParserState /\ q.i = p.i /\ q.opaque = p.opaque
        /\ q.segments = p.segments /\ q.readsPipe = p.readsPipe
    BY <1>1, PushWordFact
  <1>4. q = IF ~p.has THEN p
            ELSE IF p.pending
            THEN [p EXCEPT !.targets = ts, !.pending = FALSE, !.current = <<>>, !.has = FALSE]
            ELSE [p EXCEPT !.words = ws, !.current = <<>>, !.has = FALSE]
    BY <1>1, <1>2 DEF PushWord, ParserState
  <1>5. q.current = <<>> /\ ~q.has
    BY <1>1, <1>4 DEF Settled, ParserState
  <1>6. q.targets = TargetsThen(p) /\ q.words = WordsThen(p)
    BY <1>1, <1>2, <1>4 DEF TargetsThen, WordsThen, ParserState
  <1>7. q.pending <=> Waiting(p)
    BY <1>1, <1>4 DEF Waiting, ParserState
  <1>8. q.i = p.i + 0
    BY <1>1, <1>3
  <1> QED BY <1>3, <1>5, <1>6, <1>7, <1>8 DEF Pushed

(* ... a blank...                                                            *)
LEMMA BlankedDoes ==
    ASSUME NEW p, Settled(p), NEW q, q = Blanked(p)
    PROVE  /\ Pushed(p, q, 1) /\ q.words = WordsThen(p) /\ q.readsPipe = p.readsPipe
           /\ q.segments = p.segments /\ (q.pending <=> Waiting(p))
  <1>1. PICK a : a = PushWord(p)
    OBVIOUS
  <1>2. /\ Pushed(p, a, 0) /\ a.words = WordsThen(p) /\ a.readsPipe = p.readsPipe
        /\ a.segments = p.segments /\ (a.pending <=> Waiting(p))
    BY <1>1, PushWordDoes
  <1>3. a \in ParserState /\ a.i = p.i /\ p.i \in Nat
    BY <1>2 DEF Pushed, Settled, ParserState
  <1>4. PICK j \in Nat \ {0} : j = a.i + 1 /\ j = p.i + 1
    BY <1>3
  <1>5. q = [a EXCEPT !.i = j]
    BY <1>1, <1>3, <1>4 DEF Blanked, ParserState
  <1>6. q \in ParserState /\ q.i = j /\ q.current = a.current /\ q.has = a.has /\ q.opaque = a.opaque
    BY <1>3, <1>5 DEF ParserState
  <1>7. /\ q.targets = a.targets /\ q.words = a.words /\ q.readsPipe = a.readsPipe
        /\ q.segments = a.segments /\ q.pending = a.pending
    BY <1>3, <1>5 DEF ParserState
  <1> QED BY <1>2, <1>4, <1>6, <1>7 DEF Pushed

(* ... and end_segment do that.                                              *)
LEMMA EndSegmentDoes ==
    ASSUME NEW p, Settled(p), NEW reads \in BOOLEAN, NEW q, q = EndSegment(PushWord(p), reads)
    PROVE  /\ Pushed(p, q, 0) /\ q.words = <<>> /\ q.readsPipe = reads
           /\ q.segments = SegmentsThen(p) /\ (q.pending <=> Waiting(p))
  <1>1. PICK a : a = PushWord(p)
    OBVIOUS
  <1>2. /\ Pushed(p, a, 0) /\ a.words = WordsThen(p) /\ a.readsPipe = p.readsPipe
        /\ a.segments = p.segments /\ (a.pending <=> Waiting(p))
    BY <1>1, PushWordDoes
  <1>3. a \in ParserState
    BY <1>2 DEF Pushed
  <1>4. PICK ss : ss = IF a.words = <<>> THEN a.segments
                       ELSE Append(a.segments, BuildSegment(a.words, a.readsPipe))
    OBVIOUS
  <1>5. q = [a EXCEPT !.segments = ss, !.words = <<>>, !.readsPipe = reads]
    BY <1>1, <1>3, <1>4 DEF EndSegment, ParserState
  <1>6. q \in ParserState
    BY <1>1, <1>3, EndSegmentFact
  <1>7. q.i = a.i /\ q.current = a.current /\ q.has = a.has /\ q.opaque = a.opaque
        /\ q.targets = a.targets /\ q.pending = a.pending
    BY <1>3, <1>5 DEF ParserState
  <1>8. q.words = <<>> /\ q.readsPipe = reads /\ q.segments = ss
    BY <1>3, <1>5 DEF ParserState
  <1>9. ss = SegmentsThen(p)
    BY <1>2, <1>4 DEF SegmentsThen
  <1> QED BY <1>2, <1>6, <1>7, <1>8, <1>9 DEF Pushed

(* A separator ends a segment.                                               *)
OperatorStride(c, b) == IF b /\ c # ";" THEN 2 ELSE 1
IsPipe(c, b) == c = "|" /\ ~b
Ended(p, q, c, b) ==
    /\ Pushed(p, q, OperatorStride(c, b)) /\ q.words = <<>> /\ q.readsPipe = IsPipe(c, b)
    /\ q.segments = SegmentsThen(p) /\ (q.pending <=> Waiting(p))

(* It does so wherever it stands.                                            *)
LEMMA OperatorDoes ==
    ASSUME NEW p, Settled(p), NEW c, NEW b \in BOOLEAN, NEW q, q = Operator(p, c, b)
    PROVE  Ended(p, q, c, b)
  <1>1. PICK reads \in BOOLEAN : reads = (c = "|" /\ ~b)
    OBVIOUS
  <1>2. PICK a : a = EndSegment(PushWord(p), reads)
    OBVIOUS
  <1>3. /\ Pushed(p, a, 0) /\ a.words = <<>> /\ a.readsPipe = reads
        /\ a.segments = SegmentsThen(p) /\ (a.pending <=> Waiting(p))
    BY <1>1, <1>2, EndSegmentDoes
  <1>4. PICK s \in {1, 2} : s = IF b /\ c # ";" THEN 2 ELSE 1
    OBVIOUS
  <1>5. a \in ParserState /\ a.i = p.i /\ p.i \in Nat
    BY <1>3 DEF Pushed, Settled, ParserState
  <1>6. PICK j \in Nat \ {0} : j = a.i + s /\ j = p.i + s
    BY <1>5
  <1>7. q = [a EXCEPT !.i = j]
    BY <1>1, <1>2, <1>4, <1>5, <1>6 DEF Operator, ParserState
  <1>8. q \in ParserState /\ q.i = j /\ q.current = a.current /\ q.has = a.has /\ q.opaque = a.opaque
    BY <1>5, <1>7 DEF ParserState
  <1>9. /\ q.targets = a.targets /\ q.words = a.words /\ q.readsPipe = a.readsPipe
        /\ q.segments = a.segments /\ q.pending = a.pending
    BY <1>5, <1>7 DEF ParserState
  <1>10. Pushed(p, q, s)
    BY <1>3, <1>6, <1>8, <1>9 DEF Pushed
  <1>11. q.words = <<>> /\ q.readsPipe = reads /\ q.segments = SegmentsThen(p) /\ (q.pending <=> Waiting(p))
    BY <1>3, <1>9
  <1>12. s = OperatorStride(c, b) /\ reads = IsPipe(c, b)
    BY <1>1, <1>4 DEF OperatorStride, IsPipe
  <1> QED BY <1>10, <1>11, <1>12 DEF Ended

(* A redirection ends a word.                                                *)
RedirectionStride(c, b) == IF b /\ c = ">" THEN 2 ELSE 1
Redirected(p, q, c, b) ==
    /\ Pushed(p, q, RedirectionStride(c, b)) /\ q.words = WordsThen(p)
    /\ q.readsPipe = p.readsPipe
    /\ q.segments = p.segments /\ (q.pending <=> Waiting(p) \/ c = ">")

(* It does so wherever it stands.                                            *)
LEMMA RedirectionDoes ==
    ASSUME NEW p, Settled(p), NEW c, NEW b \in BOOLEAN, NEW q, q = Redirection(p, c, b)
    PROVE  Redirected(p, q, c, b)
  <1>1. PICK a : a = PushWord(p)
    OBVIOUS
  <1>2. /\ Pushed(p, a, 0) /\ a.words = WordsThen(p) /\ a.readsPipe = p.readsPipe
        /\ a.segments = p.segments /\ (a.pending <=> Waiting(p))
    BY <1>1, PushWordDoes
  <1>3. a \in ParserState /\ a.i = p.i /\ p.i \in Nat
    BY <1>2 DEF Pushed, Settled, ParserState
  <1>4. PICK s \in {1, 2} : s = IF b /\ c = ">" THEN 2 ELSE 1
    OBVIOUS
  <1>5. PICK j \in Nat \ {0} : j = a.i + s /\ j = p.i + s
    BY <1>3
  <1>6. PICK w \in BOOLEAN : w = (a.pending \/ c = ">")
    OBVIOUS
  <1>7. q = [a EXCEPT !.pending = w, !.i = j]
    <2>1. a.pending \in BOOLEAN
      BY <1>3 DEF ParserState
    <2>2. CASE c = ">"
      <3>1. w = TRUE /\ (IF b THEN 2 ELSE 1) = s
        BY <1>4, <1>6, <2>2
      <3>2. q = [a EXCEPT !.pending = TRUE, !.i = @ + s]
        BY <1>1, <2>2, <3>1 DEF Redirection
      <3> QED BY <1>3, <1>5, <3>1, <3>2 DEF ParserState
    <2>3. CASE c # ">"
      <3>1. w = a.pending /\ s = 1
        BY <1>4, <1>6, <2>1, <2>3
      <3>2. q = [a EXCEPT !.i = @ + 1]
        BY <1>1, <2>3 DEF Redirection
      <3> QED BY <1>3, <1>5, <3>1, <3>2 DEF ParserState
    <2> QED BY <2>2, <2>3
  <1>8. q \in ParserState /\ q.i = j /\ q.current = a.current /\ q.has = a.has /\ q.opaque = a.opaque
    BY <1>3, <1>7 DEF ParserState
  <1>9. /\ q.targets = a.targets /\ q.words = a.words /\ q.readsPipe = a.readsPipe
        /\ q.segments = a.segments /\ q.pending = w
    BY <1>3, <1>7 DEF ParserState
  <1>10. Pushed(p, q, s)
    BY <1>2, <1>5, <1>8, <1>9 DEF Pushed
  <1>11. q.words = WordsThen(p) /\ q.readsPipe = p.readsPipe /\ q.segments = p.segments
         /\ (q.pending <=> Waiting(p) \/ c = ">")
    BY <1>2, <1>6, <1>9
  <1>12. s = RedirectionStride(c, b)
    BY <1>4 DEF RedirectionStride
  <1> QED BY <1>10, <1>11, <1>12 DEF Redirected

(* A loop that goes on as long as it has not come to m comes there.          *)
LEMMA LoopReaches ==
    ASSUME NEW G \in SUBSET ParserState, G # {}, NEW m \in Nat,
           \A p \in G : p.i < m => \E q \in G : q.i > p.i
    PROVE  \E p \in G : p.i >= m
  <1> SUFFICES ASSUME \A p \in G : ~(p.i >= m) PROVE FALSE
    OBVIOUS
  <1>1. \A p \in G : p.i \in Nat
    BY DEF ParserState
  <1>2. PICK V : V = {p.i : p \in G}
    OBVIOUS
  <1>3. V \in SUBSET (0..m) /\ V # {}
    BY <1>1, <1>2
  <1>4. Max(V) \in V /\ \A x \in V : x <= Max(V)
    BY <1>3, Indices
  <1>5. PICK x : x = Max(V)
    OBVIOUS
  <1>6. PICK p \in G : p.i = x
    BY <1>2, <1>4, <1>5
  <1>7. p.i < m
    BY <1>1, <1>6
  <1>8. PICK q \in G : q.i > p.i
    BY <1>7
  <1>9. q.i \in V
    BY <1>2
  <1>10. q.i <= x
    BY <1>4, <1>5, <1>9
  <1> QED BY <1>1, <1>6, <1>8, <1>10

(* A turn on any other piece reads on in a word.                             *)
LEMMA TurnTakes ==
    ASSUME NEW l \in Word, NEW p \in ParserState, p.i \in 1..Len(l),
           l[p.i] \notin Separators \cup {Blank, ">", "<"}
    PROVE  ParseStep(l, p).has
  <1>1. PICK c, next, q : c = l[p.i] /\ next = Following(l, p.i) /\ q = ParseStep(l, p)
    OBVIOUS
  <1>2. Arm(l, p, c, next, q)
    BY <1>1, ParseArms
  <1>3. \A w, e : Take(p, w, e).has /\ [Take(p, w, e) EXCEPT !.opaque = TRUE].has
    BY DEF Take, ParserState
  <1>4. \A w, e, o : [Take(p, w, e) EXCEPT !.opaque = @ \/ o].has
    BY DEF Take, ParserState
  <1>5. SingleQuoted(l, p).has
    BY <1>3 DEF SingleQuoted
  <1>6. DoubleQuoted(l, p).has
    <2>1. PICK j, w, e, o : /\ j = DoubleEnd(l, p.i) /\ w = Unescaped(l, p.i, j) /\ e = j + 1
                            /\ o = \E k \in (p.i + 1)..(j - 1) :
                                      l[k] = "$" /\ k < Len(l) /\ l[k + 1] = "("
      OBVIOUS
    <2>2. DoubleQuoted(l, p) = [Take(p, w, e) EXCEPT !.opaque = @ \/ o]
      BY <2>1 DEF DoubleQuoted
    <2> QED BY <1>4, <2>2
  <1>7. Substitution(l, p).has /\ Backquoted(l, p).has
    BY <1>3 DEF Substitution, Backquoted
  <1> QED BY <1>1, <1>2, <1>3, <1>5, <1>6, <1>7 DEF Arm

(* Place i of a line waits for the target of a redirection.                  *)
Passes == Separators \cup {Blank, "<"}
Awaits(l, i) ==
    \E j \in 1..(i - 1) : l[j] = ">" /\ \A m \in (j + 1)..(i - 1) : l[m] \in Passes

(* So does the place after a piece that is no word.                          *)
LEMMA AwaitsOn ==
    ASSUME NEW l, NEW i \in Nat \ {0}, Awaits(l, i), l[i] \in Passes
    PROVE  Awaits(l, i + 1)
  <1>1. PICK j \in 1..(i - 1) : l[j] = ">" /\ \A m \in (j + 1)..(i - 1) : l[m] \in Passes
    BY DEF Awaits
  <1>2. j \in 1..(i + 1 - 1) /\ j \in Nat
    OBVIOUS
  <1>3. ASSUME NEW m \in (j + 1)..(i + 1 - 1)
        PROVE  l[m] \in Passes
    <2>1. m = i \/ m \in (j + 1)..(i - 1)
      BY <1>2
    <2> QED BY <1>1, <2>1
  <1> QED BY <1>1, <1>2, <1>3 DEF Awaits

(* So does the place after a redirection operator.                           *)
LEMMA AwaitsAt ==
    ASSUME NEW l, NEW i \in Nat \ {0}, l[i] = ">"
    PROVE  Awaits(l, i + 1)
  <1>1. i \in 1..(i + 1 - 1) /\ \A m \in (i + 1)..(i + 1 - 1) : l[m] \in Passes
    OBVIOUS
  <1> QED BY <1>1 DEF Awaits

(* A redirection waits for its target only where the line says so.           *)
Attentive(l, p) == Settled(p) /\ (Waiting(p) => Awaits(l, p.i))

(* Every turn of the loop keeps that...                                      *)
LEMMA StaysAttentive ==
    ASSUME NEW l \in Word, NEW p, Attentive(l, p), p.i \in 1..Len(l)
    PROVE  Attentive(l, ParseStep(l, p))
  <1>0. PICK c, next, q, i : c = l[p.i] /\ next = Following(l, p.i) /\ q = ParseStep(l, p) /\ i = p.i
    OBVIOUS
  <1>1. Settled(p) /\ p \in ParserState /\ i \in Nat \ {0} /\ Len(l) \in Nat /\ (Waiting(p) => Awaits(l, i))
    BY <1>0, LineFacts DEF Attentive, Settled, ParserState
  <1>2. /\ c = Blank => q = Blanked(p)
        /\ c \in Separators => q = Operator(p, c, next = <<c>>)
        /\ c \in {">", "<"} => q = Redirection(p, c, next = <<c>>)
    <2>1. /\ c = Backslash /\ next # <<>> => q = Take(p, next, p.i + 2)
          /\ c = "$" /\ next = <<"(">> => q = Substitution(l, p)
          /\ c = Blank => q = Blanked(p)
          /\ c \in Separators => q = Operator(p, c, next = <<c>>)
          /\ c \in {">", "<"} => q = Redirection(p, c, next = <<c>>)
          /\ (/\ c \notin Separators \cup {SingleQuote, DoubleQuote, Backtick, Blank, ">", "<"}
              /\ ~(c = Backslash /\ next # <<>>) /\ ~(c = "$" /\ next = <<"(">>))
             => q = Take(p, <<c>>, p.i + 1)
      BY <1>0, <1>1, ArmTaken
    <2> QED BY <2>1
  <1>3. q \in ParserState
    BY <1>0, <1>1, ParseStepFact
  <1>4. next = <<c>> => l[i + 1] = c
    BY <1>0 DEF Following
  <1>5. c \in Passes /\ Waiting(p) => Awaits(l, i + 1)
    BY <1>0, <1>1, AwaitsOn
  <1>6. c \in Passes /\ Waiting(p) /\ l[i + 1] = c => Awaits(l, i + 2)
    <2> SUFFICES ASSUME c \in Passes, Waiting(p), l[i + 1] = c PROVE Awaits(l, i + 2)
      OBVIOUS
    <2>1. PICK j : j = i + 1 /\ j \in Nat \ {0} /\ j + 1 = i + 2
      BY <1>1
    <2>2. Awaits(l, j) /\ l[j] \in Passes
      BY <1>5, <2>1
    <2>3. Awaits(l, j + 1)
      BY <2>1, <2>2, AwaitsOn
    <2> QED BY <2>1, <2>3
  <1>7. PICK u \in BOOLEAN : u = (next = <<c>>)
    OBVIOUS
  <1>t. u => l[i + 1] = c
    BY <1>4, <1>7
  <1> SUFFICES Attentive(l, q)
    BY <1>0
  <1>8. ASSUME NEW s \in {1, 2}, Pushed(p, q, s), q.pending => Awaits(l, i + s)
        PROVE  Attentive(l, q)
    <2>1. q.i = i + s /\ ~q.has /\ q.current = <<>>
      BY <1>0, <1>8 DEF Pushed
    <2>2. Settled(q)
      BY <1>3, <2>1 DEF Settled
    <2>3. Waiting(q) => Awaits(l, q.i)
      BY <1>8, <2>1 DEF Waiting
    <2> QED BY <2>2, <2>3 DEF Attentive
  <1>9. CASE c = Blank
    <2>1. Pushed(p, q, 1) /\ (q.pending <=> Waiting(p))
      BY <1>1, <1>2, <1>9, BlankedDoes
    <2>2. c \in Passes
      BY <1>9 DEF Passes
    <2> QED BY <1>5, <1>8, <2>1, <2>2
  <1>10. CASE c \in Separators
    <2>1. q = Operator(p, c, u)
      BY <1>2, <1>7, <1>10
    <2>2. PICK s \in {1, 2} : s = IF u /\ c # ";" THEN 2 ELSE 1
      OBVIOUS
    <2>3. Pushed(p, q, s) /\ (q.pending <=> Waiting(p))
      <3>1. Ended(p, q, c, u)
        BY <1>1, <2>1, OperatorDoes
      <3>2. s = OperatorStride(c, u)
        BY <2>2 DEF OperatorStride
      <3> QED BY <3>1, <3>2 DEF Ended
    <2>4. c \in Passes
      BY <1>10 DEF Passes
    <2>5. s = 2 => l[i + 1] = c
      <3>1. PICK t \in BOOLEAN : t = (u /\ c # ";")
        OBVIOUS
      <3>2. s = IF t THEN 2 ELSE 1
        BY <2>2, <3>1
      <3>3. t => u
        BY <3>1
      <3>4. s = 2 => t
        BY <3>2
      <3> QED BY <1>t, <3>3, <3>4
    <2>6. q.pending => Awaits(l, i + s)
      BY <1>5, <1>6, <2>3, <2>4, <2>5
    <2> QED BY <1>8, <2>3, <2>6
  <1>11. CASE c \in {">", "<"}
    <2>1. q = Redirection(p, c, u)
      BY <1>2, <1>7, <1>11
    <2>2. PICK s \in {1, 2} : s = IF u /\ c = ">" THEN 2 ELSE 1
      OBVIOUS
    <2>3. Pushed(p, q, s) /\ (q.pending <=> Waiting(p) \/ c = ">")
      <3>1. Redirected(p, q, c, u)
        BY <1>1, <2>1, RedirectionDoes
      <3>2. s = RedirectionStride(c, u)
        BY <2>2 DEF RedirectionStride
      <3> QED BY <3>1, <3>2 DEF Redirected
    <2>4. CASE c = ">"
      <3>1. CASE s = 1
        <4>1. Awaits(l, i + 1)
          BY <1>0, <1>1, <2>4, AwaitsAt
        <4> QED BY <1>8, <2>3, <3>1, <4>1
      <3>2. CASE s = 2
        <4>1. PICK j : j = i + 1 /\ j \in Nat \ {0} /\ j + 1 = i + 2
          BY <1>1
        <4>2. l[j] = ">"
          <5>1. u
            BY <2>2, <3>2
          <5> QED BY <1>t, <2>4, <4>1, <5>1
        <4>3. Awaits(l, j + 1)
          BY <4>1, <4>2, AwaitsAt
        <4>4. Awaits(l, i + s)
          BY <3>2, <4>1, <4>3
        <4> QED BY <1>8, <2>3, <4>4
      <3> QED BY <3>1, <3>2
    <2>5. CASE c # ">"
      <3>1. c \in Passes /\ s = 1
        BY <1>11, <2>2, <2>5 DEF Passes
      <3> QED BY <1>5, <1>8, <2>3, <2>5, <3>1
    <2> QED BY <2>4, <2>5
  <1>12. CASE c \notin Separators \cup {Blank, ">", "<"}
    <2>1. q.has
      BY <1>0, <1>1, <1>12, TurnTakes
    <2> QED BY <1>3, <2>1 DEF Attentive, Settled, Waiting
  <1> QED BY <1>9, <1>10, <1>11, <1>12

(* ... so it is so wherever parse gets.                                      *)
LEMMA AllAttentive ==
    ASSUME NEW l \in Word, NEW st, IsParse(st, l), NEW p \in Reached(st, l)
    PROVE  Attentive(l, p)
  <1>0. PICK n \in Nat : n = Len(l)
    BY LineFacts
  <1>1. \A k \in 0..n : st[k] \in ParserState /\ st[k].i \in Nat \ {0}
    BY <1>0 DEF IsParse, ParserState
  <1> DEFINE P == {k \in 0..n : Attentive(l, st[k])}
  <1>2. 0 \in P
    <2>1. st[0] = Start
      BY DEF IsParse
    <2>2. ~Start.has /\ Start.current = <<>> /\ ~Start.pending
      BY DEF Start
    <2>3. Attentive(l, Start)
      BY <2>2, StartIsState DEF Attentive, Settled, Waiting
    <2> QED BY <2>1, <2>3
  <1>3. ASSUME NEW k \in 1..n, k - 1 \in P
        PROVE  k \in P
    <2>0. k - 1 \in 0..n /\ k \in 0..n
      OBVIOUS
    <2>1. PICK a, b : a = st[k - 1] /\ b = st[k] /\ b = ParseStep(l, a)
      BY <1>0 DEF IsParse
    <2>2. Attentive(l, a) /\ a \in ParserState /\ a.i \in Nat \ {0}
      BY <1>1, <1>3, <2>0, <2>1
    <2>3. CASE a.i > n
      <3>1. b = a
        BY <1>0, <2>1, <2>2, <2>3, ParseStepFact
      <3> QED BY <2>0, <2>1, <2>2, <3>1
    <2>4. CASE ~(a.i > n)
      <3>1. a.i \in 1..Len(l)
        BY <1>0, <2>2, <2>4
      <3>2. Attentive(l, b)
        BY <2>1, <2>2, <3>1, StaysAttentive
      <3> QED BY <2>0, <2>1, <3>2
    <2> QED BY <2>3, <2>4
  <1>4. \A k \in 0..n : k \in P
    <2> HIDE DEF P
    <2> QED BY <1>2, <1>3, UpTo
  <1> QED BY <1>0, <1>4 DEF Reached

(* Nothing is being read.                                                    *)
Resting(p) ==
    p \in ParserState /\ p.current = <<>> /\ ~p.has /\ p.words = <<>> /\ ~p.pending

(* What parse returns.                                                       *)
SameFindings(p, q) == p.segments = q.segments /\ p.targets = q.targets /\ p.opaque = q.opaque

(* A turn is what it does.                                                   *)
LEMMA SameActOnce ==
    ASSUME NEW p, NEW a, NEW b, SameAct(p, p, a, b)
    PROVE  a = b
  <1>1. CASE TakenAlike(p, p, a, b)
    <2>1. PICK w \in Word, o \in BOOLEAN, s \in Nat \ {0} : Taken(p, a, w, o, s) /\ Taken(p, b, w, o, s)
      BY <1>1 DEF TakenAlike
    <2>2. a \in ParserState /\ b \in ParserState
      BY <2>1 DEF Taken
    <2>3. a.i = b.i /\ a.current = b.current /\ a.opaque = b.opaque
      BY <2>1 DEF Taken
    <2>4. a.has = TRUE /\ b.has = TRUE
      BY <2>1, <2>2 DEF Taken, ParserState
    <2>5. a.words = b.words /\ a.readsPipe = b.readsPipe /\ a.pending = b.pending
          /\ a.segments = b.segments /\ a.targets = b.targets
      BY <2>1 DEF Taken
    <2> QED BY <2>2, <2>3, <2>4, <2>5 DEF ParserState
  <1> QED BY <1>1 DEF SameAct

(* What parse returns at the end of a line.                                  *)
LEMMA ParseGives ==
    ASSUME NEW l \in Word, NEW st, IsParse(st, l), Parse(l) = EndSegment(PushWord(st[Len(l)]), FALSE),
           NEW p \in Reached(st, l), p.i > Len(l)
    PROVE  /\ Settled(p) /\ Parse(l) \in ParserState
           /\ Parse(l).segments = SegmentsThen(p) /\ Parse(l).targets = TargetsThen(p)
           /\ Parse(l).opaque = p.opaque
  <1>1. Settled(p)
    BY AllAttentive DEF Attentive
  <1>2. st[Len(l)] = p
    BY ReachEnd
  <1>3. PICK o \in BOOLEAN : o = FALSE
    OBVIOUS
  <1>4. PICK q : q = Parse(l) /\ q = EndSegment(PushWord(p), o)
    BY <1>2, <1>3
  <1>5. Pushed(p, q, 0) /\ q.segments = SegmentsThen(p)
    BY <1>1, <1>4, EndSegmentDoes
  <1> QED BY <1>1, <1>4, <1>5 DEF Pushed

(* A separator when nothing is being read.                                   *)
LEMMA RestingOperator ==
    ASSUME NEW p, Resting(p), NEW c, NEW b \in BOOLEAN, NEW q, q = Operator(p, c, b)
    PROVE  Resting(q) /\ SameFindings(p, q)
  <1>1. Settled(p) /\ ~Waiting(p)
    BY DEF Resting, Settled, Waiting
  <1>2. WordsThen(p) = <<>> /\ TargetsThen(p) = p.targets
    BY DEF Resting, WordsThen, TargetsThen
  <1>3. SegmentsThen(p) = p.segments
    BY <1>2 DEF SegmentsThen
  <1>4. Ended(p, q, c, b)
    BY <1>1, OperatorDoes
  <1>5. /\ Pushed(p, q, OperatorStride(c, b)) /\ q.words = <<>>
        /\ q.segments = SegmentsThen(p) /\ (q.pending <=> Waiting(p))
    BY <1>4 DEF Ended
  <1>6. q \in ParserState /\ q.current = <<>> /\ ~q.has /\ q.opaque = p.opaque /\ q.targets = TargetsThen(p)
    BY <1>5 DEF Pushed
  <1> QED BY <1>1, <1>2, <1>3, <1>5, <1>6 DEF Resting, SameFindings

(* What stands before a place of a line, and what stands after it.           *)
Before(l, k) == SubSeq(l, 1, k - 1)
Behind(l, k) == SubSeq(l, k + 1, Len(l))

(* The one is a window of the line...                                        *)
LEMMA BeforeIsWindow ==
    ASSUME NEW l \in Word, NEW k \in 1..Len(l), NEW b, b = k - 1, NEW d, d = 0,
           NEW r, r = Before(l, k)
    PROVE  r \in Word /\ Len(r) = b /\ Window(l, r, d)
  <1>0. r = SubSeq(l, 1, b)
    BY DEF Before
  <1>1. PICK n : n \in Nat /\ n = Len(l) /\ b \in 0..n /\ b \in Nat
    BY LineFacts
  <1>2. 1 \in 1..(Len(l) + 1) /\ b \in 0..Len(l) /\ b >= 1 - 1
    BY <1>1
  <1>3. r \in Word
    BY <1>0, <1>1, <1>2, SliceIsWord
  <1>4. Len(r) = b - 1 + 1 /\ \A t \in 1..(b - 1 + 1) : r[t] = l[1 + t - 1]
    BY <1>0, <1>1, <1>2, SliceFacts
  <1>5. b - 1 + 1 = b /\ d + b <= n /\ \A t \in 1..b : 1 + t - 1 = d + t
    BY <1>1
  <1>6. Len(r) = b /\ \A t \in 1..b : r[t] = l[d + t]
    BY <1>4, <1>5
  <1> QED BY <1>1, <1>3, <1>5, <1>6 DEF Window

(* ... and so is the other.                                                  *)
LEMMA AfterIsWindow ==
    ASSUME NEW l \in Word, NEW k \in 1..Len(l), NEW r, r = Behind(l, k)
    PROVE  r \in Word /\ Window(l, r, k) /\ k + Len(r) = Len(l) /\ Len(r) \in Nat
  <1>1. PICK n, a : n \in Nat /\ n = Len(l) /\ a = k + 1 /\ a \in 1..(n + 1) /\ a \in Nat /\ k \in Nat
    BY LineFacts
  <1>0. r = SubSeq(l, a, n)
    BY <1>1 DEF Behind
  <1>2. a \in 1..(Len(l) + 1) /\ n \in 0..Len(l) /\ n >= a - 1
    BY <1>1
  <1>3. r \in Word
    BY <1>0, <1>1, <1>2, SliceIsWord
  <1>4. Len(r) = n - a + 1 /\ \A t \in 1..(n - a + 1) : r[t] = l[a + t - 1]
    BY <1>0, <1>1, <1>2, SliceFacts
  <1>5. PICK m : m = n - a + 1 /\ m \in Nat /\ k + m = n /\ \A t \in 1..m : a + t - 1 = k + t
    BY <1>1
  <1>6. Len(r) = m /\ \A t \in 1..m : r[t] = l[k + t]
    BY <1>4, <1>5
  <1> QED BY <1>1, <1>3, <1>5, <1>6 DEF Window

(* A separator when no target is awaited.                                    *)
LEMMA OperatorEnds ==
    ASSUME NEW p, Settled(p), ~Waiting(p), NEW c, NEW b \in BOOLEAN, NEW s, s = Operator(p, c, b)
    PROVE  /\ Resting(s) /\ s.segments = SegmentsThen(p) /\ s.targets = TargetsThen(p)
           /\ s.opaque = p.opaque
  <1>1. Ended(p, s, c, b)
    BY OperatorDoes
  <1>2. /\ Pushed(p, s, OperatorStride(c, b)) /\ s.words = <<>>
        /\ s.segments = SegmentsThen(p) /\ (s.pending <=> Waiting(p))
    BY <1>1 DEF Ended
  <1>3. s \in ParserState /\ s.current = <<>> /\ ~s.has /\ s.opaque = p.opaque /\ s.targets = TargetsThen(p)
    BY <1>2 DEF Pushed
  <1> QED BY <1>2, <1>3 DEF Resting

(* At a place, or at its twin before it.                                     *)
AtCut(l, k, i) == i = k \/ (i + 1 = k /\ i \in 1..Len(l) /\ l[i] = l[k] /\ l[k] # ";")

(* parse comes to a separator in the plain context: to it, or to its twin    *)
(* before it; and the line before it is read alike.                          *)
LEMMA ComesToCut ==
    ASSUME NEW l \in Word, NEW k \in 1..Len(l), l[k] \in Separators, Contexts(l)[k] = "plain",
           NEW r, r = Before(l, k),
           NEW st, IsParse(st, l), NEW su, IsParse(su, r)
    PROVE  \E p \in Reached(st, l) \cap Reached(su, r) : AtCut(l, k, p.i)
  <1>0. r \in Word /\ Len(r) = k - 1 /\ \A e : e = 0 => Window(l, r, e)
    <2>1. ASSUME NEW e, e = 0
          PROVE  r \in Word /\ Len(r) = k - 1 /\ Window(l, r, e)
      <3>1. PICK h : h = k - 1
        OBVIOUS
      <3>2. r \in Word /\ Len(r) = h /\ Window(l, r, e)
        BY <2>1, <3>1, BeforeIsWindow
      <3> QED BY <3>1, <3>2
    <2> QED BY <2>1
  <1>1. PICK n, ctx : n = Len(l) /\ n \in Nat /\ ctx = Contexts(l)
    BY LineFacts
  <1>2. k \in 1..n /\ k \in Nat /\ n \in Nat /\ ctx[k] = "plain"
    BY <1>1
  <1> DEFINE Twin(p) == p.i = k - 1 /\ k - 1 \in 1..n /\ l[k - 1] = l[k] /\ l[k] # ";"
             G == {p \in Reached(st, l) \cap Reached(su, r) : p.i <= k /\ ctx[p.i] = "plain"}
  <1>3. G \in SUBSET ParserState
    BY ReachNext
  <1>4. Start \in G
    <2>1. 0 \in 0..Len(l) /\ 0 \in 0..Len(r)
      BY <1>0, <1>1, <1>2
    <2>2. st[0] = Start /\ su[0] = Start
      BY DEF IsParse
    <2>3. Start \in Reached(st, l) /\ Start \in Reached(su, r)
      BY <2>1, <2>2 DEF Reached
    <2>4. Start.i = 1 /\ 1 <= k
      BY <1>2 DEF Start
    <2>5. ctx[1] = "plain"
      BY <1>1, ContextsFact
    <2> QED BY <2>3, <2>4, <2>5
  <1>5. ASSUME NEW p \in G, p.i < k, ~Twin(p)
        PROVE  \E q \in G : q.i > p.i
    <2>1. p \in Reached(st, l) /\ p \in Reached(su, r) /\ p \in ParserState /\ ctx[p.i] = "plain"
      BY <1>3
    <2>2. p.i \in Nat \ {0}
      BY <2>1 DEF ParserState
    <2>3. p.i \in 1..(k - 1) /\ p.i <= Len(l) /\ p.i <= Len(r) /\ p.i \in 1..n
      <3>1. PICK i, m : i = p.i /\ m = Len(r) /\ i < k /\ m = k - 1
        BY <1>0, <1>5
      <3>2. i \in 1..(k - 1) /\ i <= n /\ i <= m /\ i \in 1..n
        BY <1>2, <2>2, <3>1
      <3> QED BY <1>1, <3>1, <3>2
    <2>4. PICK a, b : a = ParseStep(l, p) /\ b = ParseStep(r, p)
      OBVIOUS
    <2>5. \/ a.i <= k /\ ctx[a.i] = "plain"
          \/ p.i = k - 1 /\ l[p.i] = l[k] /\ l[k] # ";"
      BY <1>1, <2>1, <2>3, <2>4, CutStep
    <2>6. a.i <= k /\ ctx[a.i] = "plain"
      <3>1. ~(p.i = k - 1 /\ l[p.i] = l[k] /\ l[k] # ";")
        BY <1>5, <2>3
      <3> QED BY <2>5, <3>1
    <2>7. PICK e : e = 0 /\ e \in Nat /\ e + Len(r) + 1 = k /\ Window(l, r, e) /\ p.i = e + p.i
      <3>1. PICK e : e = 0
        OBVIOUS
      <3>2. Window(l, r, e)
        BY <1>0, <3>1
      <3>3. e \in Nat /\ e + Len(r) + 1 = k /\ p.i = e + p.i
        BY <1>0, <1>2, <2>2, <3>1
      <3> QED BY <3>1, <3>2, <3>3
    <2>8. Facing(l, r, e, p, p)
      <3>1. p.i \in 1..Len(r)
        BY <1>0, <2>3
      <3> QED BY <1>0, <2>1, <2>7, <3>1 DEF Facing
    <2>9. Fits(l, r, e, p)
      BY <2>4, <2>6, <2>7 DEF Fits
    <2>10. SameAct(p, p, a, b)
      BY <2>4, <2>8, <2>9, SameStep
    <2>11. a = b
      BY <2>10, SameActOnce
    <2>12. a \in Reached(st, l)
      BY <2>1, <2>3, <2>4, ReachNext
    <2>13. b \in Reached(su, r)
      BY <1>0, <2>1, <2>3, <2>4, ReachNext
    <2>14. a.i > p.i
      BY <2>1, <2>3, <2>4, ParseStepFact DEF Advances
    <2> QED BY <2>6, <2>11, <2>12, <2>13, <2>14
  <1>6. CASE \E p \in G : Twin(p)
    <2>1. PICK p \in G : Twin(p)
      BY <1>6
    <2>2. p.i \in 1..Len(l) /\ l[p.i] = l[k] /\ l[k] # ";" /\ p.i = k - 1
      BY <1>1, <2>1
    <2>3. k - 1 + 1 = k
      BY <1>2
    <2>4. p.i + 1 = k
      BY <2>2, <2>3
    <2> QED BY <2>1, <2>2, <2>4 DEF AtCut
  <1>7. CASE ~\E p \in G : Twin(p)
    <2>1. PICK p \in G : p.i >= k
      <3>1. \A p \in G : p.i < k => \E q \in G : q.i > p.i
        BY <1>5, <1>7
      <3>2. G # {}
        BY <1>4
      <3> HIDE DEF G
      <3> QED BY <1>2, <1>3, <3>1, <3>2, LoopReaches
    <2>2. p.i \in Nat /\ p.i <= k
      BY <1>3, <2>1 DEF ParserState
    <2>3. p.i = k
      BY <1>2, <2>1, <2>2
    <2> QED BY <2>1, <2>3 DEF AtCut
  <1> QED BY <1>6, <1>7

(* parse goes on behind the separator, or behind it and its twin.            *)
GoesOn(s, l, k) ==
    \/ s.i = k + 1
    \/ s.i = k + 2 /\ k + 1 \in 1..Len(l) /\ l[k + 1] = l[k]

(* What stands before a separator is read in the line as it is alone.        *)
LEMMA LeftReads ==
    ASSUME NEW l \in Word, NEW k \in 1..Len(l), l[k] \in Separators, Contexts(l)[k] = "plain",
           ~Awaits(l, k), NEW st, IsParse(st, l), NEW r, r = Before(l, k)
    PROVE  \E s \in Reached(st, l) : Resting(s) /\ SameFindings(s, Parse(r)) /\ GoesOn(s, l, k)
  <1>0. PICK n, c : n = Len(l) /\ n \in Nat /\ c = l[k]
    BY LineFacts
  <1>1. k \in 1..n /\ k \in Nat /\ n \in Nat
    BY <1>0
  <1>c. c \in Separators
    BY <1>0
  <1>2. r \in Word /\ Len(r) = k - 1
    <2>1. PICK d, h : d = 0 /\ h = k - 1
      OBVIOUS
    <2>2. r \in Word /\ Len(r) = h
      BY <2>1, BeforeIsWindow
    <2> QED BY <2>1, <2>2
  <1>3. PICK su : IsParse(su, r) /\ Parse(r) = EndSegment(PushWord(su[Len(r)]), FALSE)
    BY <1>2, ParseTurns
  <1>4. PICK p \in Reached(st, l) \cap Reached(su, r) : AtCut(l, k, p.i)
    <2>1. IsParse(su, r)
      BY <1>3
    <2> QED BY <2>1, ComesToCut
  <1>5. p \in ParserState /\ Attentive(l, p) /\ p.i \in Nat
    <2>1. p \in ParserState
      BY <1>4, ReachNext
    <2> QED BY <1>4, <2>1, AllAttentive DEF ParserState
  <1>6. Settled(p) /\ (Waiting(p) => Awaits(l, p.i))
    BY <1>5 DEF Attentive
  <1>8. p.i \in 1..Len(l)
    <2>1. CASE p.i = k
      BY <2>1
    <2>2. CASE p.i \in 1..Len(l)
      BY <2>2
    <2> QED BY <1>4, <2>1, <2>2 DEF AtCut
  <1>9. PICK s, next : s = ParseStep(l, p) /\ next = Following(l, p.i)
    OBVIOUS
  <1>10. l[p.i] = c
    BY <1>0, <1>4 DEF AtCut
  <1>11. PICK b \in BOOLEAN : b = (next = <<c>>)
    OBVIOUS
  <1>12. s = Operator(p, c, b)
    <2>1. Arm(l, p, c, next, s)
      BY <1>5, <1>8, <1>9, <1>10, ParseArms
    <2>2. s = Operator(p, c, next = <<c>>)
      BY <1>c, <2>1 DEF Arm, Separators, SingleQuote, DoubleQuote, Backslash, Backtick, Blank
    <2> QED BY <1>11, <2>2
  <1>13. s \in Reached(st, l)
    <2>1. p \in Reached(st, l) /\ p.i <= Len(l)
      BY <1>0, <1>8
    <2> QED BY <1>9, <2>1, ReachNext
  <1>14. s.i = p.i + (IF b /\ c # ";" THEN 2 ELSE 1)
    BY <1>5, <1>12, OperatorFact
  <1>15. CASE p.i = k
    <2>1. ~Waiting(p)
      BY <1>6, <1>15
    <2>2. /\ Resting(s) /\ s.segments = SegmentsThen(p) /\ s.targets = TargetsThen(p)
          /\ s.opaque = p.opaque
      BY <1>6, <1>12, <2>1, OperatorEnds
    <2>3. p.i > Len(r)
      BY <1>1, <1>2, <1>15
    <2>4. /\ Parse(r).segments = SegmentsThen(p) /\ Parse(r).targets = TargetsThen(p)
          /\ Parse(r).opaque = p.opaque
      BY <1>2, <1>3, <1>4, <2>3, ParseGives
    <2>5. SameFindings(s, Parse(r))
      BY <2>2, <2>4 DEF SameFindings
    <2>6. CASE b /\ c # ";"
      <3>1. s.i = k + 2
        BY <1>14, <1>15, <2>6
      <3>2. next = <<c>>
        BY <1>11, <2>6
      <3>3. k < Len(l) /\ l[k + 1] = c
        <4>1. next = Following(l, k)
          BY <1>9, <1>15
        <4> QED BY <3>2, <4>1 DEF Following
      <3>4. k + 1 \in 1..Len(l)
        <4>1. k < Len(l)
          BY <3>3
        <4> QED BY <1>0, <1>1, <4>1
      <3> QED BY <1>0, <1>13, <2>2, <2>5, <2>6, <3>1, <3>3, <3>4 DEF GoesOn
    <2>7. CASE ~(b /\ c # ";")
      <3>1. s.i = k + 1
        BY <1>14, <1>15, <2>7
      <3> QED BY <1>13, <2>2, <2>5, <3>1 DEF GoesOn
    <2> QED BY <2>6, <2>7
  <1>16. CASE p.i + 1 = k /\ p.i \in 1..Len(l) /\ l[p.i] = l[k] /\ l[k] # ";"
    <2>a. PICK j : j = p.i
      OBVIOUS
    <2>b. p.i = j /\ j \in 1..n
      BY <1>0, <1>16, <2>a
    <2>c. j + 1 = k
      BY <1>16, <2>a
    <2>d. j + 1 = k /\ j = k - 1 /\ j \in Nat \ {0} /\ j < n /\ j + 2 = k + 1
      BY <1>1, <2>b, <2>c
    <2>0. l[j] = c /\ c # ";"
      BY <1>0, <1>16, <2>a
    <2>1. ~Waiting(p)
      <3> SUFFICES ASSUME Waiting(p) PROVE FALSE
        OBVIOUS
      <3>1. Awaits(l, j) /\ l[j] \in Passes
        BY <1>c, <1>6, <2>b, <2>0 DEF Passes
      <3>2. Awaits(l, j + 1)
        BY <2>d, <3>1, AwaitsOn
      <3> QED BY <2>d, <3>2
    <2>2. /\ Resting(s) /\ s.segments = SegmentsThen(p) /\ s.targets = TargetsThen(p)
          /\ s.opaque = p.opaque
      BY <1>6, <1>12, <2>1, OperatorEnds
    <2>3. next = <<c>>
      <3>1. j < Len(l) /\ l[j + 1] = c
        BY <1>0, <2>d
      <3> QED BY <1>9, <2>b, <3>1 DEF Following
    <2>4. s.i = k + 1
      <3>1. b /\ c # ";"
        BY <1>11, <2>0, <2>3
      <3>2. s.i = j + 2
        BY <1>14, <2>b, <3>1
      <3> QED BY <2>d, <3>2
    <2>5. j \in 1..Len(r) /\ p.i \in 1..Len(r) /\ p.i <= Len(r) /\ ~(p.i < Len(r)) /\ Len(r) = j
      <3>1. Len(r) = j
        BY <1>2, <2>d
      <3>2. j \in 1..j /\ j <= j /\ ~(j < j)
        BY <2>d
      <3> QED BY <2>b, <3>1, <3>2
    <2>e. p \in Reached(su, r)
      BY <1>4
    <2>6. PICK z : z = ParseStep(r, p)
      OBVIOUS
    <2>7. r[p.i] = c
      <3>1. PICK e : e = 0
        OBVIOUS
      <3>2. PICK h : h = k - 1
        OBVIOUS
      <3>3. Window(l, r, e)
        BY <3>1, <3>2, BeforeIsWindow
      <3>4. j \in 1..Len(r) /\ e + j = j
        BY <2>d, <2>5, <3>1
      <3>5. r[j] = l[j]
        BY <3>3, <3>4 DEF Window
      <3> QED BY <2>b, <2>0, <3>5
    <2>8. PICK f \in BOOLEAN : f = FALSE
      OBVIOUS
    <2>9. z = Operator(p, c, f)
      <3>1. PICK no : no = Following(r, p.i)
        OBVIOUS
      <3>2. no = <<>>
        BY <2>5, <3>1 DEF Following
      <3>3. Arm(r, p, c, no, z)
        BY <1>2, <1>5, <2>5, <2>6, <2>7, <3>1, ParseArms
      <3>4. z = Operator(p, c, no = <<c>>)
        BY <1>c, <3>3 DEF Arm, Separators, SingleQuote, DoubleQuote, Backslash, Backtick, Blank
      <3>5. f = (no = <<c>>)
        BY <2>8, <3>2
      <3> QED BY <3>4, <3>5
    <2>10. z \in Reached(su, r)
      BY <1>2, <1>3, <2>5, <2>e, <2>6, ReachNext
    <2>11. /\ Resting(z) /\ z.segments = SegmentsThen(p) /\ z.targets = TargetsThen(p)
           /\ z.opaque = p.opaque
      BY <1>6, <2>1, <2>9, OperatorEnds
    <2>12. z.i > Len(r)
      <3>1. z.i = p.i + (IF f /\ c # ";" THEN 2 ELSE 1)
        BY <1>5, <2>9, OperatorFact
      <3>2. z.i = j + 1
        BY <2>b, <2>8, <3>1
      <3> QED BY <2>d, <2>5, <3>2
    <2>13. /\ Parse(r).segments = SegmentsThen(z) /\ Parse(r).targets = TargetsThen(z)
           /\ Parse(r).opaque = z.opaque
      BY <1>2, <1>3, <2>10, <2>12, ParseGives
    <2>14. WordsThen(z) = <<>> /\ TargetsThen(z) = z.targets /\ SegmentsThen(z) = z.segments
      BY <2>11 DEF Resting, WordsThen, TargetsThen, SegmentsThen
    <2>15. SameFindings(s, Parse(r))
      BY <2>2, <2>11, <2>13, <2>14 DEF SameFindings
    <2> QED BY <1>13, <2>2, <2>4, <2>15 DEF GoesOn
  <1> QED BY <1>4, <1>15, <1>16 DEF AtCut

(* Through a run of one separator, parse finds nothing and comes to its end. *)
LEMMA RunIsPassed ==
    ASSUME NEW l \in Word, NEW st, IsParse(st, l), NEW s \in Reached(st, l), Resting(s),
           NEW c \in Separators, NEW e \in 1..(Len(l) + 1), s.i <= e,
           \A m \in s.i..(e - 1) : l[m] = c, e <= Len(l) => l[e] # c
    PROVE  \E z \in Reached(st, l) : Resting(z) /\ z.i = e /\ SameFindings(s, z)
  <1>0. PICK n, a : n = Len(l) /\ n \in Nat /\ a = s.i
    BY LineFacts
  <1>1. n \in Nat /\ e \in 1..(n + 1) /\ e \in Nat /\ a \in Nat \ {0} /\ a <= e
    BY <1>0 DEF Resting, ParserState
  <1>r. (\A m \in a..(e - 1) : l[m] = c) /\ (e <= n => l[e] # c)
    BY <1>0
  <1> DEFINE G == {z \in Reached(st, l) : Resting(z) /\ z.i >= a /\ z.i <= e /\ SameFindings(s, z)}
  <1>2. G \in SUBSET ParserState
    BY ReachNext
  <1>3. s \in G
    BY <1>0, <1>1 DEF SameFindings
  <1>4. ASSUME NEW p \in G, p.i < e
        PROVE  \E q \in G : q.i > p.i
    <2>0. PICK i : i = p.i
      OBVIOUS
    <2>1. p \in ParserState /\ p \in Reached(st, l) /\ Resting(p) /\ SameFindings(s, p) /\ i \in Nat
          /\ i >= a /\ i < e
      BY <1>2, <1>4, <2>0 DEF ParserState
    <2>2. i \in a..(e - 1) /\ i \in 1..n /\ i <= n
      BY <1>1, <2>1
    <2>3. l[i] = c
      BY <1>r, <2>2
    <2>4. PICK q, next : q = ParseStep(l, p) /\ next = Following(l, p.i)
      OBVIOUS
    <2>5. PICK b \in BOOLEAN : b = (next = <<c>>)
      OBVIOUS
    <2>6. q = Operator(p, c, b)
      <3>1. Arm(l, p, c, next, q)
        BY <1>0, <2>0, <2>1, <2>2, <2>3, <2>4, ParseArms
      <3>2. q = Operator(p, c, next = <<c>>)
        BY <3>1 DEF Arm, Separators, SingleQuote, DoubleQuote, Backslash, Backtick, Blank
      <3> QED BY <2>5, <3>2
    <2>7. q \in Reached(st, l)
      BY <1>0, <2>0, <2>1, <2>2, <2>4, ReachNext
    <2>8. Resting(q) /\ SameFindings(p, q)
      BY <2>1, <2>6, RestingOperator
    <2>9. SameFindings(s, q)
      BY <2>1, <2>8 DEF SameFindings
    <2>10. q.i = i + (IF b /\ c # ";" THEN 2 ELSE 1)
      BY <2>0, <2>1, <2>6, OperatorFact
    <2>11. b => i + 1 < e
      <3> SUFFICES ASSUME b, ~(i + 1 < e) PROVE FALSE
        OBVIOUS
      <3>1. e = i + 1
        BY <1>1, <2>1
      <3>2. next = <<c>>
        BY <2>5
      <3>3. i < Len(l) /\ l[i + 1] = c
        <4>1. next = Following(l, i) /\ next # <<>>
          BY <2>0, <2>4, <3>2
        <4>2. i < Len(l)
          BY <4>1, Zenon DEF Following
        <4>3. <<l[i + 1]>> = <<c>>
          BY <3>2, <4>1, <4>2 DEF Following
        <4> QED BY <4>2, <4>3
      <3>4. i < n /\ e <= n
        BY <1>0, <1>1, <2>1, <3>1, <3>3
      <3> QED BY <1>r, <3>1, <3>3, <3>4
    <2>12. PICK j : j = q.i
      OBVIOUS
    <2>13. CASE b /\ c # ";"
      <3>1. j = i + 2
        BY <2>10, <2>12, <2>13
      <3>2. j >= a /\ j <= e /\ j > i
        <4>1. i + 1 < e
          BY <2>11, <2>13
        <4> QED BY <1>1, <2>1, <3>1, <4>1
      <3> QED BY <2>0, <2>7, <2>8, <2>9, <2>12, <3>2
    <2>14. CASE ~(b /\ c # ";")
      <3>1. j = i + 1
        BY <2>10, <2>12, <2>14
      <3>2. j >= a /\ j <= e /\ j > i
        BY <1>1, <2>1, <3>1
      <3> QED BY <2>0, <2>7, <2>8, <2>9, <2>12, <3>2
    <2> QED BY <2>13, <2>14
  <1>5. PICK z \in G : z.i >= e
    <2>1. G # {}
      BY <1>3
    <2> HIDE DEF G
    <2> QED BY <1>1, <1>2, <1>4, <2>1, LoopReaches
  <1>6. z.i = e
    <2>1. z.i <= e /\ z.i >= e /\ z.i \in Nat
      BY <1>2, <1>5 DEF ParserState
    <2> QED BY <1>1, <2>1
  <1> QED BY <1>5, <1>6

(* Two segments that differ at most in where their input comes from.         *)
Alike(a, b) == a.words = b.words /\ a.elevated = b.elevated

(* One turn of build_segment keeps them alike.                               *)
LEMMA UnwrapAlike ==
    ASSUME NEW a \in Segment, NEW b \in Segment, Alike(a, b)
    PROVE  Alike(Unwrap(a), Unwrap(b)) /\ Unwrap(a).readsPipe = a.readsPipe
  <1>0. PICK w, e : w = a.words /\ w = b.words /\ e = a.elevated /\ e = b.elevated
    BY DEF Alike
  <1>1. PICK t, g : t = Tail(w) /\ g = Base(w[1])
    OBVIOUS
  <1>2. PICK x, y, z : /\ x = Repeat(DropSudoOption, t, Len(t)) /\ y = Repeat(DropOptions, t, Len(t))
                       /\ z = Repeat(DropEnvArgument, t, Len(t))
    OBVIOUS
  <1>3. ASSUME NEW s \in Segment, s.words = w, s.elevated = e
        PROVE  /\ Unwrap(s).words = IF w = <<>> THEN w ELSE IF IsAssignment(w[1]) THEN t
                                    ELSE IF g \in {"sudo", "doas"} THEN x
                                    ELSE IF g \in Wrappers THEN y ELSE IF g = "env" THEN z ELSE w
               /\ Unwrap(s).elevated = IF w # <<>> /\ ~IsAssignment(w[1]) /\ g \in {"sudo", "doas"}
                                       THEN TRUE ELSE e
               /\ Unwrap(s).readsPipe = s.readsPipe
    <2>1. UnwrapAt(s, t, g) = CASE g \in {"sudo", "doas"} -> [s EXCEPT !.elevated = TRUE, !.words = x]
                                [] g \in Wrappers -> [s EXCEPT !.words = y]
                                [] g = "env" -> [s EXCEPT !.words = z]
                                [] OTHER -> s
      BY <1>2 DEF UnwrapAt
    <2>2. /\ g \in {"sudo", "doas"} => g \notin Wrappers /\ g # "env"
          /\ g \in Wrappers => g # "env"
      BY DEF Wrappers
    <2>3. UnwrapAt(s, t, g) =
             IF g \in {"sudo", "doas"} THEN [s EXCEPT !.elevated = TRUE, !.words = x]
             ELSE IF g \in Wrappers THEN [s EXCEPT !.words = y]
             ELSE IF g = "env" THEN [s EXCEPT !.words = z] ELSE s
      BY <2>1, <2>2
    <2>4. PICK v : v = UnwrapAt(s, t, g)
      OBVIOUS
    <2>5. Unwrap(s) = IF w = <<>> THEN s ELSE IF IsAssignment(w[1]) THEN [s EXCEPT !.words = t] ELSE v
      BY <1>1, <1>3, <2>4 DEF Unwrap, Segment
    <2>6. /\ v.words = IF g \in {"sudo", "doas"} THEN x
                       ELSE IF g \in Wrappers THEN y ELSE IF g = "env" THEN z ELSE w
          /\ v.elevated = IF g \in {"sudo", "doas"} THEN TRUE ELSE e
          /\ v.readsPipe = s.readsPipe
      BY <1>3, <2>3, <2>4 DEF Segment
    <2>7. [s EXCEPT !.words = t].words = t /\ [s EXCEPT !.words = t].elevated = e
          /\ [s EXCEPT !.words = t].readsPipe = s.readsPipe
      BY <1>3 DEF Segment
    <2> QED BY <1>3, <2>5, <2>6, <2>7
  <1> QED BY <1>0, <1>3 DEF Alike

(* build_segment passes on where the input comes from, and looks at it in    *)
(* nothing else.                                                             *)
LEMMA BuildAlike ==
    ASSUME NEW raw \in Words, NEW x \in BOOLEAN, NEW y \in BOOLEAN
    PROVE  Alike(BuildSegment(raw, x), BuildSegment(raw, y)) /\ BuildSegment(raw, x).readsPipe = x
  <1>1. PICK a \in Segment, b \in Segment :
            /\ a = [words |-> raw, elevated |-> FALSE, readsPipe |-> x]
            /\ b = [words |-> raw, elevated |-> FALSE, readsPipe |-> y]
    BY DEF Segment, Words
  <1>2. PICK n \in Nat : n = Len(raw)
    BY DEF Words
  <1> DEFINE H == [k \in 1..n |-> [z \in Segment |-> Unwrap(z)]]
  <1>3. PICK st : IsHistory(st, n, Segment, a, H) /\ Repeat(Unwrap, a, n) = st[n]
    BY <1>2, UnwrapTurns
  <1>4. PICK su : IsHistory(su, n, Segment, b, H) /\ Repeat(Unwrap, b, n) = su[n]
    BY <1>2, UnwrapTurns
  <1>5. \A k \in 0..n : st[k] \in Segment /\ su[k] \in Segment
    BY <1>3, <1>4 DEF IsHistory
  <1>6. \A k \in 1..n : st[k] = Unwrap(st[k - 1]) /\ su[k] = Unwrap(su[k - 1])
    <2> SUFFICES ASSUME NEW k \in 1..n
                 PROVE  st[k] = Unwrap(st[k - 1]) /\ su[k] = Unwrap(su[k - 1])
      OBVIOUS
    <2>1. k - 1 \in 0..n
      BY <1>2
    <2>2. st[k] = H[k][st[k - 1]] /\ su[k] = H[k][su[k - 1]]
      <3> HIDE DEF H
      <3> QED BY <1>3, <1>4 DEF IsHistory
    <2> QED BY <1>5, <2>1, <2>2
  <1> DEFINE P == {k \in 0..n : Alike(st[k], su[k]) /\ st[k].readsPipe = x}
  <1>7. 0 \in P
    <2>1. st[0] = a /\ su[0] = b
      BY <1>3, <1>4 DEF IsHistory
    <2>2. Alike(a, b) /\ a.readsPipe = x
      BY <1>1 DEF Alike
    <2> QED BY <1>2, <2>1, <2>2
  <1>8. ASSUME NEW k \in 1..n, k - 1 \in P
        PROVE  k \in P
    <2>1. k - 1 \in 0..n /\ k \in 0..n
      BY <1>2
    <2>2. PICK c \in Segment, d \in Segment : c = st[k - 1] /\ d = su[k - 1]
      BY <1>5, <2>1
    <2>3. Alike(c, d) /\ c.readsPipe = x
      BY <1>8, <2>2
    <2>4. Alike(Unwrap(c), Unwrap(d)) /\ Unwrap(c).readsPipe = x
      BY <2>3, UnwrapAlike
    <2>5. st[k] = Unwrap(c) /\ su[k] = Unwrap(d)
      BY <1>6, <2>2
    <2> QED BY <2>1, <2>4, <2>5
  <1>9. \A k \in 0..n : k \in P
    <2> HIDE DEF P
    <2> QED BY <1>2, <1>7, <1>8, UpTo
  <1>10. n \in 0..n
    BY <1>2
  <1>11. Alike(st[n], su[n]) /\ st[n].readsPipe = x
    BY <1>9, <1>10
  <1> QED BY <1>1, <1>2, <1>3, <1>4, <1>11 DEF BuildSegment

(* How bad a segment is depends on its words alone.                          *)
LEMMA TierByWords ==
    ASSUME NEW a \in Segment, NEW b \in Segment, a.words = b.words
    PROVE  /\ ClassifySegment(a).tier = ClassifySegment(b).tier
           /\ Program(a) = Program(b)
  <1>1. Args(a) = Args(b) /\ Program(a) = Program(b)
    BY DEF Args, Program
  <1>2. Bare(a) = Bare(b)
    BY DEF Bare
  <1>3. Subcommand(a) = Subcommand(b) /\ FirstOperand(a) = FirstOperand(b) /\ Operands(a) = Operands(b)
    BY <1>2 DEF Subcommand, FirstOperand, Operands
  <1>4. \A f : HasFlag(a, f) = HasFlag(b, f) /\ HasShortFlag(a, f) = HasShortFlag(b, f)
    BY <1>1 DEF HasFlag, HasShortFlag
  <1>5. HitsProtected(a) = HitsProtected(b)
    BY <1>1 DEF HitsProtected, NonOptions
  <1>6. Dd(a) = Dd(b) /\ Kill(a) = Kill(b) /\ PacketFilter(a) = PacketFilter(b)
    BY <1>1, <1>4 DEF Dd, Kill, PacketFilter
  <1>7. Permissions(a) = Permissions(b) /\ WebServer(a) = WebServer(b)
    BY <1>1, <1>2, <1>4, <1>5 DEF Permissions, WebServer
  <1>8. Journal(a) = Journal(b) /\ Sed(a) = Sed(b) /\ \A g : Files(g, a) = Files(g, b)
    BY <1>1, <1>4, <1>5 DEF Journal, Sed, Files
  <1>9. \A g : ByProgram(g, a) = ByProgram(g, b)
    BY <1>3, <1>4, <1>5, <1>6, <1>7, <1>8 DEF ByProgram
  <1>10. PICK v : v = ByProgram(Program(a), a) /\ v = ByProgram(Program(b), b)
    BY <1>1, <1>9
  <1>11. v \in VerdictRecord
    BY <1>10, ProgramsWarn DEF Warns
  <1>12. \A o : [v EXCEPT !.reasons = @ \/ o].tier = v.tier
    BY <1>11 DEF VerdictRecord
  <1>13. ClassifySegment(a).tier = ClassifySegment(b).tier
    BY <1>10, <1>12 DEF ClassifySegment
  <1> QED BY <1>1, <1>13

(* x and then y, but that the first of y may read from a pipe in z.          *)
Joins(z, x, y) ==
    /\ Len(z) = Len(x) + Len(y)
    /\ \A j \in 1..Len(x) : z[j] = x[j]
    /\ \A j \in 1..Len(y) :
          /\ Alike(z[Len(x) + j], y[j])
          /\ j # 1 => z[Len(x) + j].readsPipe = y[j].readsPipe

(* A segment more at the end of both keeps that.                             *)
LEMMA JoinsOn ==
    ASSUME NEW x \in Seq(Segment), NEW y \in Seq(Segment), NEW z \in Seq(Segment), Joins(z, x, y),
           NEW a \in Segment, NEW b \in Segment, Alike(a, b), y = <<>> \/ a.readsPipe = b.readsPipe,
           NEW v, v = Append(z, a), NEW w, w = Append(y, b)
    PROVE  Joins(v, x, w)
  <1>1. PICK m, n, h : /\ m = Len(x) /\ n = Len(y) /\ h = Len(z)
    OBVIOUS
  <1>2. m \in Nat /\ n \in Nat /\ h \in Nat /\ h = m + n
    BY <1>1 DEF Joins
  <1>3. /\ \A j \in 1..m : z[j] = x[j]
        /\ \A j \in 1..n : Alike(z[m + j], y[j]) /\ (j # 1 => z[m + j].readsPipe = y[j].readsPipe)
    BY <1>1 DEF Joins
  <1>4. Len(v) = h + 1 /\ v[h + 1] = a /\ \A j \in 1..h : v[j] = z[j]
    BY <1>1
  <1>5. Len(w) = n + 1 /\ w[n + 1] = b /\ \A j \in 1..n : w[j] = y[j]
    BY <1>1
  <1>6. Len(v) = m + Len(w)
    BY <1>2, <1>4, <1>5
  <1>7. \A j \in 1..m : v[j] = x[j]
    <2> SUFFICES ASSUME NEW j \in 1..m PROVE v[j] = x[j]
      OBVIOUS
    <2>1. j \in 1..h
      BY <1>2
    <2> QED BY <1>3, <1>4, <2>1
  <1>8. ASSUME NEW j \in 1..Len(w)
        PROVE  Alike(v[m + j], w[j]) /\ (j # 1 => v[m + j].readsPipe = w[j].readsPipe)
    <2>1. CASE j \in 1..n
      <3>1. PICK u : u = m + j
        OBVIOUS
      <3>2. u \in 1..h
        BY <1>2, <2>1, <3>1
      <3>3. v[u] = z[u] /\ w[j] = y[j]
        BY <1>4, <1>5, <2>1, <3>2
      <3>4. Alike(z[u], y[j]) /\ (j # 1 => z[u].readsPipe = y[j].readsPipe)
        BY <1>3, <2>1, <3>1
      <3> QED BY <3>1, <3>3, <3>4
    <2>2. CASE j \notin 1..n
      <3>1. j = n + 1 /\ m + j = h + 1
        BY <1>2, <1>5, <2>2
      <3>2. v[m + j] = a /\ w[j] = b
        BY <1>4, <1>5, <3>1
      <3>3. j # 1 => y # <<>>
        <4>1. y = <<>> => n = 0
          BY <1>1
        <4> QED BY <1>2, <3>1, <4>1
      <3> QED BY <3>2, <3>3
    <2> QED BY <2>1, <2>2
  <1> QED BY <1>1, <1>6, <1>7, <1>8 DEF Joins

(* p reads on from s, in the line, as q does alone.                          *)
Follows(p, q, d, s) ==
    /\ Settled(p) /\ Settled(q) /\ p.i = d + q.i
    /\ p.current = q.current /\ p.has = q.has /\ p.words = q.words /\ p.pending = q.pending
    /\ p.targets = s.targets \o q.targets
    /\ p.opaque = (s.opaque \/ q.opaque)
    /\ Joins(p.segments, s.segments, q.segments)
    /\ q.segments = <<>> \/ p.readsPipe = q.readsPipe

(* It finds the same.                                                        *)
LEMMA FollowsThen ==
    ASSUME NEW s \in ParserState, NEW d, NEW p, NEW q, Follows(p, q, d, s)
    PROVE  /\ WordsThen(p) = WordsThen(q) /\ TargetsThen(p) = s.targets \o TargetsThen(q)
           /\ Joins(SegmentsThen(p), s.segments, SegmentsThen(q)) /\ (Waiting(p) <=> Waiting(q))
  <1>1. p \in ParserState /\ q \in ParserState
    BY DEF Follows, Settled
  <1>2. PICK x, y, z : x = s.targets /\ y = q.targets /\ z = p.targets
    OBVIOUS
  <1>3. x \in Words /\ y \in Words /\ z = x \o y /\ p.current = q.current /\ q.current \in Word
    BY <1>1, <1>2 DEF Follows, ParserState
  <1>4. Append(z, p.current) = x \o Append(y, q.current)
    <2>1. PICK W : W = Word
      OBVIOUS
    <2>2. PICK c : c = q.current /\ c = p.current
      BY <1>3
    <2>3. x \in Seq(W) /\ y \in Seq(W) /\ c \in W
      BY <1>3, <2>1, <2>2 DEF Words, Word
    <2>4. Append(x \o y, c) = x \o Append(y, c)
      <3>1. x \o y \in Seq(W) /\ Append(y, c) \in Seq(W) /\ <<c>> \in Seq(W)
        BY <2>3
      <3>2. Append(x \o y, c) = (x \o y) \o <<c>> /\ Append(y, c) = y \o <<c>>
        BY <2>3, <3>1, AppendIsConcat
      <3>3. (x \o y) \o <<c>> = x \o (y \o <<c>>)
        BY <2>3, <3>1, SequenceLaws
      <3> QED BY <3>2, <3>3
    <2> QED BY <1>3, <2>2, <2>4
  <1>5. p.has = q.has /\ p.pending = q.pending /\ p.words = q.words
    BY DEF Follows
  <1>6. WordsThen(p) = WordsThen(q) /\ (Waiting(p) <=> Waiting(q))
    BY <1>3, <1>5 DEF WordsThen, Waiting
  <1>7. TargetsThen(p) = x \o TargetsThen(q)
    BY <1>2, <1>3, <1>4, <1>5 DEF TargetsThen
  <1>8. Joins(SegmentsThen(p), s.segments, SegmentsThen(q))
    <2>1. PICK w : w = WordsThen(p) /\ w = WordsThen(q)
      BY <1>6
    <2>2. Joins(p.segments, s.segments, q.segments)
          /\ (q.segments = <<>> \/ p.readsPipe = q.readsPipe)
      BY DEF Follows
    <2>3. /\ p.segments \in Seq(Segment) /\ q.segments \in Seq(Segment) /\ s.segments \in Seq(Segment)
          /\ p.readsPipe \in BOOLEAN /\ q.readsPipe \in BOOLEAN
      BY <1>1 DEF ParserState
    <2>4. w \in Words
      BY <1>1, <2>1, WordsMade DEF WordsThen, ParserState
    <2>5. PICK a, b : a = BuildSegment(w, p.readsPipe) /\ b = BuildSegment(w, q.readsPipe)
      OBVIOUS
    <2>6. a \in Segment /\ b \in Segment /\ Alike(a, b)
      BY <2>3, <2>4, <2>5, BuildIsSegment, BuildAlike
    <2>7. a.readsPipe = p.readsPipe /\ b.readsPipe = q.readsPipe
      BY <2>3, <2>4, <2>5, BuildAlike
    <2>8. PICK u, v : u = Append(p.segments, a) /\ v = Append(q.segments, b)
      OBVIOUS
    <2>9. Joins(u, s.segments, v)
      BY <2>2, <2>3, <2>6, <2>7, <2>8, JoinsOn
    <2>10. SegmentsThen(p) = (IF w = <<>> THEN p.segments ELSE u)
           /\ SegmentsThen(q) = (IF w = <<>> THEN q.segments ELSE v)
      BY <2>1, <2>5, <2>8 DEF SegmentsThen
    <2> QED BY <2>2, <2>9, <2>10
  <1> QED BY <1>2, <1>6, <1>7, <1>8

(* And it goes on so.                                                        *)
LEMMA FollowsOn ==
    ASSUME NEW s \in ParserState, NEW d \in Nat, NEW p, NEW q, Follows(p, q, d, s),
           NEW a, NEW b, SameAct(p, q, a, b)
    PROVE  Follows(a, b, d, s)
  <1>1. /\ Settled(p) /\ Settled(q) /\ p \in ParserState /\ q \in ParserState
        /\ p.i = d + q.i /\ p.i \in Nat /\ q.i \in Nat
    BY DEF Follows, Settled, ParserState
  <1>2. /\ WordsThen(p) = WordsThen(q) /\ TargetsThen(p) = s.targets \o TargetsThen(q)
        /\ Joins(SegmentsThen(p), s.segments, SegmentsThen(q)) /\ (Waiting(p) <=> Waiting(q))
    BY FollowsThen
  <1>3. /\ p.current = q.current /\ p.has = q.has /\ p.words = q.words /\ p.pending = q.pending
        /\ p.targets = s.targets \o q.targets
        /\ p.opaque = (s.opaque \/ q.opaque)
        /\ Joins(p.segments, s.segments, q.segments)
        /\ (q.segments = <<>> \/ p.readsPipe = q.readsPipe)
    BY DEF Follows
  <1>4. CASE TakenAlike(p, q, a, b)
    <2>1. PICK w \in Word, o \in BOOLEAN, z \in Nat \ {0} : Taken(p, a, w, o, z) /\ Taken(q, b, w, o, z)
      BY <1>4 DEF TakenAlike
    <2>2. /\ a \in ParserState
          /\ a.i = p.i + z /\ a.current = p.current \o w /\ a.has /\ a.opaque = (p.opaque \/ o)
          /\ a.words = p.words /\ a.readsPipe = p.readsPipe /\ a.pending = p.pending
          /\ a.segments = p.segments /\ a.targets = p.targets
      BY <2>1 DEF Taken
    <2>3. /\ b \in ParserState
          /\ b.i = q.i + z /\ b.current = q.current \o w /\ b.has /\ b.opaque = (q.opaque \/ o)
          /\ b.words = q.words /\ b.readsPipe = q.readsPipe /\ b.pending = q.pending
          /\ b.segments = q.segments /\ b.targets = q.targets
      BY <2>1 DEF Taken
    <2>4. Settled(a) /\ Settled(b) /\ a.has = b.has
      BY <2>2, <2>3 DEF Settled, ParserState
    <2>5. a.i = d + b.i
      <3>1. PICK i, j : i = p.i /\ j = q.i
        OBVIOUS
      <3>2. i = d + j /\ i \in Nat /\ j \in Nat /\ a.i = i + z /\ b.i = j + z
        BY <1>1, <2>2, <2>3, <3>1
      <3>3. d + j + z = d + (j + z)
        BY <3>2
      <3> QED BY <3>2, <3>3
    <2>6. a.opaque = (s.opaque \/ b.opaque)
      BY <1>3, <2>2, <2>3
    <2>7. a.current = b.current /\ a.words = b.words /\ a.pending = b.pending
          /\ a.targets = s.targets \o b.targets
      BY <1>3, <2>2, <2>3
    <2>8. Joins(a.segments, s.segments, b.segments) /\ (b.segments = <<>> \/ a.readsPipe = b.readsPipe)
      BY <1>3, <2>2, <2>3
    <2> QED BY <2>4, <2>5, <2>6, <2>7, <2>8 DEF Follows
  <1>5. ASSUME NEW z \in {1, 2}, Pushed(p, a, z), Pushed(q, b, z), a.words = b.words,
               a.pending <=> b.pending, Joins(a.segments, s.segments, b.segments),
               b.segments = <<>> \/ a.readsPipe = b.readsPipe
        PROVE  Follows(a, b, d, s)
    <2>1. a \in ParserState /\ a.i = p.i + z /\ a.current = <<>> /\ ~a.has /\ a.opaque = p.opaque
          /\ a.targets = TargetsThen(p)
      BY <1>5 DEF Pushed
    <2>2. b \in ParserState /\ b.i = q.i + z /\ b.current = <<>> /\ ~b.has /\ b.opaque = q.opaque
          /\ b.targets = TargetsThen(q)
      BY <1>5 DEF Pushed
    <2>3. Settled(a) /\ Settled(b) /\ a.has = b.has /\ a.pending = b.pending
      BY <1>5, <2>1, <2>2 DEF Settled, ParserState
    <2>4. a.i = d + b.i
      <3>1. PICK i, j : i = p.i /\ j = q.i
        OBVIOUS
      <3>2. i = d + j /\ i \in Nat /\ j \in Nat /\ a.i = i + z /\ b.i = j + z
        BY <1>1, <2>1, <2>2, <3>1
      <3>3. d + j + z = d + (j + z)
        BY <3>2
      <3> QED BY <3>2, <3>3
    <2>5. a.opaque = (s.opaque \/ b.opaque) /\ a.targets = s.targets \o b.targets
      BY <1>2, <1>3, <2>1, <2>2
    <2>6. a.current = b.current
      BY <2>1, <2>2
    <2> QED BY <1>5, <2>3, <2>4, <2>5, <2>6 DEF Follows
  <1>6. CASE a = Blanked(p) /\ b = Blanked(q)
    <2>1. /\ Pushed(p, a, 1) /\ a.words = WordsThen(p) /\ a.readsPipe = p.readsPipe
          /\ a.segments = p.segments /\ (a.pending <=> Waiting(p))
      BY <1>1, <1>6, BlankedDoes
    <2>2. /\ Pushed(q, b, 1) /\ b.words = WordsThen(q) /\ b.readsPipe = q.readsPipe
          /\ b.segments = q.segments /\ (b.pending <=> Waiting(q))
      BY <1>1, <1>6, BlankedDoes
    <2>3. PICK z \in {1, 2} : z = 1
      OBVIOUS
    <2>4. Pushed(p, a, z) /\ Pushed(q, b, z)
      BY <2>1, <2>2, <2>3
    <2> QED BY <1>2, <1>3, <1>5, <2>1, <2>2, <2>4
  <1>7. ASSUME NEW c \in Separators, NEW u \in BOOLEAN, a = Operator(p, c, u), b = Operator(q, c, u)
        PROVE  Follows(a, b, d, s)
    <2>1. Ended(p, a, c, u) /\ Ended(q, b, c, u)
      BY <1>1, <1>7, OperatorDoes
    <2>2. PICK z \in {1, 2} : z = OperatorStride(c, u)
      BY DEF OperatorStride
    <2>3. Pushed(p, a, z) /\ Pushed(q, b, z)
      BY <2>1, <2>2 DEF Ended
    <2>4. a.readsPipe = b.readsPipe /\ a.words = b.words
      BY <2>1 DEF Ended
    <2>5. (a.pending <=> b.pending) /\ Joins(a.segments, s.segments, b.segments)
      BY <1>2, <2>1 DEF Ended
    <2> QED BY <1>5, <2>3, <2>4, <2>5
  <1>8. ASSUME NEW c \in {">", "<"}, NEW u \in BOOLEAN, a = Redirection(p, c, u), b = Redirection(q, c, u)
        PROVE  Follows(a, b, d, s)
    <2>1. Redirected(p, a, c, u) /\ Redirected(q, b, c, u)
      BY <1>1, <1>8, RedirectionDoes
    <2>2. PICK z \in {1, 2} : z = RedirectionStride(c, u)
      BY DEF RedirectionStride
    <2>3. Pushed(p, a, z) /\ Pushed(q, b, z)
      BY <2>1, <2>2 DEF Redirected
    <2>4. Joins(a.segments, s.segments, b.segments) /\ (b.segments = <<>> \/ a.readsPipe = b.readsPipe)
      BY <1>3, <2>1 DEF Redirected
    <2>5. a.words = b.words /\ (a.pending <=> b.pending)
      BY <1>2, <2>1 DEF Redirected
    <2> QED BY <1>5, <2>3, <2>4, <2>5
  <1> QED BY <1>4, <1>6, <1>7, <1>8 DEF SameAct

(* Where nothing is being read and nothing was found yet, the one follows    *)
(* the other.                                                                *)
LEMMA RestingFollows ==
    ASSUME NEW s \in ParserState, NEW d, NEW z, NEW y, Resting(z), Resting(y), z.i = d + y.i,
           SameFindings(s, z), SameFindings(Start, y)
    PROVE  Follows(z, y, d, s)
  <1>1. z \in ParserState /\ y \in ParserState /\ Settled(z) /\ Settled(y)
    BY DEF Resting, Settled
  <1>2. z.current = y.current /\ z.has = y.has /\ z.words = y.words /\ z.pending = y.pending
    BY DEF Resting, ParserState
  <1>3. y.segments = <<>> /\ y.targets = <<>> /\ y.opaque = FALSE
    BY DEF SameFindings, Start
  <1>4. z.segments = s.segments /\ z.targets = s.targets /\ z.opaque = s.opaque
    BY DEF SameFindings
  <1>5. z.targets = s.targets \o y.targets
    <2>1. PICK W, t : W = Word /\ t = s.targets
      OBVIOUS
    <2>2. t \in Seq(W)
      BY <2>1 DEF ParserState, Words, Word
    <2>3. t \o <<>> = t
      BY <2>2, SequenceLaws
    <2> QED BY <1>3, <1>4, <2>1, <2>3
  <1>6. z.opaque = (s.opaque \/ y.opaque)
    BY <1>3, <1>4 DEF ParserState
  <1>7. Joins(z.segments, s.segments, y.segments)
    <2>1. PICK x, e : x = s.segments /\ e = y.segments
      OBVIOUS
    <2>2. x \in Seq(Segment) /\ e = <<>>
      BY <1>3, <2>1 DEF ParserState
    <2>3. Len(x) \in Nat /\ Len(e) = 0
      BY <2>2
    <2>4. Len(x) = Len(x) + Len(e) /\ 1..Len(e) = {}
      BY <2>3
    <2>5. Joins(x, x, e)
      BY <2>4 DEF Joins
    <2> QED BY <1>4, <2>1, <2>5
  <1> QED BY <1>1, <1>2, <1>3, <1>5, <1>6, <1>7 DEF Follows

(* From a up to e, and no further, the line holds c.                         *)
RunTo(l, a, e, c) ==
    e \in a..(Len(l) + 1) /\ (\A m \in a..(e - 1) : l[m] = c) /\ (e <= Len(l) => l[e] # c)

(* A run of one piece has an end.                                            *)
LEMMA RunEnds ==
    ASSUME NEW l \in Word, NEW a \in 1..Len(l), NEW c
    PROVE  \E e : RunTo(l, a, e, c)
  <1>1. PICK n, N : n = Len(l) /\ n \in Nat /\ N = n + 1 /\ N \in Nat
    BY LineFacts
  <1>2. PICK S : S = {m \in a..N : m = N \/ l[m] # c}
    OBVIOUS
  <1>3. S \in SUBSET (0..N) /\ N \in S
    BY <1>1, <1>2
  <1>4. PICK e \in S : \A x \in S : e <= x
    <2>1. S # {}
      BY <1>3
    <2> QED BY <1>1, <1>3, <2>1, Indices
  <1>5. e \in a..N /\ e \in Nat
    BY <1>1, <1>2, <1>4
  <1>6. e <= n => l[e] # c
    <2>1. e = N \/ l[e] # c
      BY <1>2, <1>4
    <2>2. e <= n => e # N
      BY <1>1, <1>5
    <2> QED BY <2>1, <2>2
  <1>7. \A m \in a..(e - 1) : l[m] = c
    <2> SUFFICES ASSUME NEW m \in a..(e - 1), l[m] # c PROVE FALSE
      OBVIOUS
    <2>1. m \in a..N /\ ~(e <= m)
      BY <1>1, <1>5
    <2>2. m \in S
      BY <1>2, <2>1
    <2> QED BY <1>4, <2>1, <2>2
  <1>8. e \in a..(Len(l) + 1)
    BY <1>1, <1>5
  <1> QED BY <1>1, <1>6, <1>7, <1>8 DEF RunTo

(* Behind a separator, the line and what stands there alone come to the same *)
(* place with nothing read.                                                  *)
LEMMA RightStarts ==
    ASSUME NEW l \in Word, NEW k \in 1..Len(l), l[k] \in Separators, NEW st, IsParse(st, l),
           NEW s \in Reached(st, l), Resting(s),
           GoesOn(s, l, k),
           NEW r, r = Behind(l, k), NEW su, IsParse(su, r)
    PROVE  \E p \in Reached(st, l), q \in Reached(su, r) : Follows(p, q, k, s)
  <1>0. PICK n, m : n = Len(l) /\ m = Len(r)
    OBVIOUS
  <1>1. r \in Word /\ Window(l, r, k)
    BY AfterIsWindow
  <1>2. n \in Nat /\ m \in Nat /\ k + m = n /\ k \in Nat /\ k \in 1..n
    BY <1>0, AfterIsWindow, LineFacts
  <1>3. \A x \in 1..m : r[x] = l[k + x]
    BY <1>0, <1>1 DEF Window
  <1>4. Start \in Reached(su, r) /\ Resting(Start) /\ Start.i = 1
    <2>1. su[0] = Start /\ 0 \in 0..Len(r)
      BY <1>0, <1>2 DEF IsParse
    <2>2. Start \in Reached(su, r)
      BY <2>1 DEF Reached
    <2>3. Resting(Start) /\ Start.i = 1
      BY StartIsState DEF Resting, Start
    <2> QED BY <2>2, <2>3
  <1>5. s \in ParserState
    BY DEF Resting
  <1>6. CASE s.i = k + 1
    <2>1. s.i = k + Start.i
      BY <1>4, <1>6
    <2>2. SameFindings(s, s) /\ SameFindings(Start, Start)
      BY DEF SameFindings
    <2>3. Follows(s, Start, k, s)
      BY <1>4, <1>5, <2>1, <2>2, RestingFollows
    <2> QED BY <1>4, <2>3
  <1>7. CASE s.i = k + 2 /\ k + 1 \in 1..Len(l) /\ l[k + 1] = l[k]
    <2>1. PICK c, a : c = l[k] /\ a = k + 1
      OBVIOUS
    <2>2. c \in Separators /\ l[a] = c /\ s.i = k + 2
      BY <1>7, <2>1
    <2>a. a \in 1..Len(l)
      BY <1>7, <2>1
    <2>b. PICK e : RunTo(l, a, e, c)
      BY <2>a, RunEnds
    <2>3. e \in a..(Len(l) + 1) /\ (\A x \in a..(e - 1) : l[x] = c) /\ (e <= Len(l) => l[e] # c)
      BY <2>b DEF RunTo
    <2>4. a \in 1..n /\ e \in a..(n + 1) /\ e \in Nat /\ a \in Nat
      BY <1>0, <1>2, <2>1, <2>3, <2>a
    <2>5. e # a
      <3> SUFFICES ASSUME e = a PROVE FALSE
        OBVIOUS
      <3>1. e <= Len(l)
        BY <1>0, <2>4
      <3> QED BY <2>2, <2>3, <3>1
    <2>6. PICK i, f : i = s.i /\ f = e - k
      OBVIOUS
    <2>7. i = k + 2
      BY <2>2, <2>6
    <2>8. i <= e /\ e \in 1..(n + 1) /\ f \in 1..(m + 1) /\ f \in Nat /\ e = k + f /\ 1 <= f
      BY <1>2, <2>1, <2>4, <2>5, <2>6, <2>7
    <2>9. \A x \in i..(e - 1) : l[x] = c
      <3> SUFFICES ASSUME NEW x \in i..(e - 1) PROVE l[x] = c
        OBVIOUS
      <3>1. x \in a..(e - 1)
        BY <1>2, <2>1, <2>4, <2>7
      <3> QED BY <2>3, <3>1
    <2>10. PICK z \in Reached(st, l) : Resting(z) /\ z.i = e /\ SameFindings(s, z)
      <3>1. s.i <= e /\ e \in 1..(Len(l) + 1) /\ \A x \in s.i..(e - 1) : l[x] = c
        BY <1>0, <2>6, <2>8, <2>9
      <3> QED BY <2>2, <2>3, <3>1, RunIsPassed
    <2>11. \A x \in 1..(f - 1) : r[x] = c
      <3> SUFFICES ASSUME NEW x \in 1..(f - 1) PROVE r[x] = c
        OBVIOUS
      <3>1. x \in 1..m /\ k + x \in a..(e - 1)
        BY <1>2, <2>1, <2>8
      <3> QED BY <1>3, <2>3, <3>1
    <2>12. f <= m => r[f] # c
      <3> SUFFICES ASSUME f <= m PROVE r[f] # c
        OBVIOUS
      <3>1. f \in 1..m /\ e <= n
        BY <1>2, <2>8
      <3>2. r[f] = l[e]
        BY <1>3, <2>8, <3>1
      <3> QED BY <1>0, <2>3, <3>1, <3>2
    <2>13. PICK y \in Reached(su, r) : Resting(y) /\ y.i = f /\ SameFindings(Start, y)
      <3>1. PICK b : b = Start
        OBVIOUS
      <3>2. b.i <= f /\ f \in 1..(Len(r) + 1) /\ (\A x \in b.i..(f - 1) : r[x] = c) /\ (f <= Len(r) => r[f] # c)
        BY <1>0, <1>4, <2>8, <2>11, <2>12, <3>1
      <3>3. b \in Reached(su, r) /\ Resting(b)
        BY <1>4, <3>1
      <3>4. \E y \in Reached(su, r) : Resting(y) /\ y.i = f /\ SameFindings(b, y)
        BY <1>1, <2>2, <3>2, <3>3, RunIsPassed
      <3> QED BY <3>1, <3>4
    <2>14. z.i = k + y.i
      BY <2>8, <2>10, <2>13
    <2>15. Follows(z, y, k, s)
      BY <1>5, <2>10, <2>13, <2>14, RestingFollows
    <2> QED BY <2>10, <2>13, <2>15
  <1> QED BY <1>6, <1>7 DEF GoesOn

(* What parse found in z is what it found in x and what it found in y.       *)
Together(z, x, y) ==
    /\ z.targets = x.targets \o y.targets
    /\ z.opaque = (x.opaque \/ y.opaque)
    /\ Joins(z.segments, x.segments, y.segments)

(* What stands behind a separator is read in the line as it is alone.        *)
LEMMA RightReads ==
    ASSUME NEW l \in Word, NEW k \in 1..Len(l), l[k] \in Separators, NEW st, IsParse(st, l),
           Parse(l) = EndSegment(PushWord(st[Len(l)]), FALSE),
           NEW s \in Reached(st, l), Resting(s),
           GoesOn(s, l, k),
           NEW r, r = Behind(l, k)
    PROVE  /\ r \in Word /\ Parse(l) \in ParserState /\ Parse(r) \in ParserState
           /\ Together(Parse(l), s, Parse(r))
  <1>0. PICK n, m : n = Len(l) /\ m = Len(r)
    OBVIOUS
  <1>1. r \in Word /\ Window(l, r, k)
    BY AfterIsWindow
  <1>2. n \in Nat /\ m \in Nat /\ k + m = n /\ k \in Nat
    BY <1>0, AfterIsWindow, LineFacts
  <1>3. PICK su : IsParse(su, r) /\ Parse(r) = EndSegment(PushWord(su[Len(r)]), FALSE)
    BY <1>1, ParseTurns
  <1>4. s \in ParserState
    BY DEF Resting
  <1> DEFINE G == {q \in Reached(su, r) : \E p \in Reached(st, l) : Follows(p, q, k, s)}
  <1>5. G \in SUBSET ParserState
    BY <1>1, <1>3, ReachNext
  <1>6. G # {}
    <2>1. IsParse(su, r)
      BY <1>3
    <2>2. PICK p \in Reached(st, l), q \in Reached(su, r) : Follows(p, q, k, s)
      BY <2>1, RightStarts
    <2> QED BY <2>2
  <1>7. ASSUME NEW q \in G, q.i < m + 1
        PROVE  \E b \in G : b.i > q.i
    <2>1. PICK p \in Reached(st, l) : Follows(p, q, k, s)
      OBVIOUS
    <2>2. q \in Reached(su, r) /\ p \in ParserState /\ q \in ParserState
      BY <1>1, <1>3, ReachNext
    <2>3. PICK i, j : i = p.i /\ j = q.i
      OBVIOUS
    <2>4. i = k + j /\ j \in Nat \ {0} /\ j < m + 1
      BY <1>7, <2>1, <2>2, <2>3 DEF Follows, ParserState
    <2>5. j \in 1..m /\ i <= n /\ j <= m
      BY <1>2, <2>4
    <2>6. Facing(l, r, k, p, q)
      BY <1>0, <1>1, <2>2, <2>3, <2>4, <2>5 DEF Facing
    <2>7. Fits(l, r, k, p)
      BY <1>0, <1>2 DEF Fits
    <2>8. PICK a, b : a = ParseStep(l, p) /\ b = ParseStep(r, q)
      OBVIOUS
    <2>9. SameAct(p, q, a, b)
      BY <2>6, <2>7, <2>8, SameStep
    <2>10. Follows(a, b, k, s)
      BY <1>2, <1>4, <2>1, <2>9, FollowsOn
    <2>11. a \in Reached(st, l)
      BY <1>0, <2>1, <2>3, <2>5, <2>8, ReachNext
    <2>12. b \in Reached(su, r)
      BY <1>0, <1>1, <1>3, <2>2, <2>3, <2>5, <2>8, ReachNext
    <2>13. b.i > q.i
      BY <1>0, <1>1, <2>2, <2>3, <2>5, <2>8, ParseStepFact DEF Advances
    <2> QED BY <2>10, <2>11, <2>12, <2>13
  <1>8. PICK q \in G : q.i >= m + 1
    <2>1. PICK M \in Nat : M = m + 1
      BY <1>2
    <2>2. \A q \in G : q.i < M => \E b \in G : b.i > q.i
      BY <1>7, <2>1
    <2>3. \E q \in G : q.i >= M
      <3> HIDE DEF G
      <3> QED BY <1>5, <1>6, <2>2, LoopReaches
    <2> QED BY <2>1, <2>3
  <1>9. PICK p \in Reached(st, l) : Follows(p, q, k, s)
    OBVIOUS
  <1>10. q \in Reached(su, r) /\ q \in ParserState
    BY <1>5
  <1>11. p.i > n /\ q.i > m
    <2>1. PICK i, j : i = p.i /\ j = q.i
      OBVIOUS
    <2>2. i = k + j /\ j \in Nat /\ j >= m + 1
      BY <1>8, <1>9, <1>10, <2>1 DEF Follows, ParserState
    <2>3. i > n /\ j > m
      BY <1>2, <2>2
    <2> QED BY <2>1, <2>3
  <1>12. /\ Parse(l) \in ParserState
         /\ Parse(l).segments = SegmentsThen(p) /\ Parse(l).targets = TargetsThen(p)
         /\ Parse(l).opaque = p.opaque
    BY <1>0, <1>9, <1>11, ParseGives
  <1>13. /\ Parse(r) \in ParserState
         /\ Parse(r).segments = SegmentsThen(q) /\ Parse(r).targets = TargetsThen(q)
         /\ Parse(r).opaque = q.opaque
    BY <1>0, <1>1, <1>3, <1>10, <1>11, ParseGives
  <1>14. /\ TargetsThen(p) = s.targets \o TargetsThen(q)
         /\ Joins(SegmentsThen(p), s.segments, SegmentsThen(q))
    BY <1>4, <1>9, FollowsThen
  <1>15. p.opaque = (s.opaque \/ q.opaque)
    BY <1>9 DEF Follows
  <1>16. PICK z, y : z = Parse(l) /\ y = Parse(r)
    OBVIOUS
  <1>17. /\ z.targets = s.targets \o y.targets /\ z.opaque = (s.opaque \/ y.opaque)
         /\ Joins(z.segments, s.segments, y.segments)
    BY <1>12, <1>13, <1>14, <1>15, <1>16
  <1>18. Together(z, s, y)
    BY <1>17 DEF Together
  <1> QED BY <1>1, <1>12, <1>13, <1>16, <1>18

(* The tiers of what stands in a parsed line, a download piped into a shell  *)
(* left out.                                                                 *)
TargetTier(t) == ClassifyTarget(PathOf(t), IsProtected(t)).tier
Rated(p) ==
    {Safe} \cup {t \in {Medium} : p.opaque}
    \cup {ClassifySegment(p.segments[k]).tier : k \in 1..Len(p.segments)}
    \cup {TargetTier(p.targets[k]) : k \in 1..Len(p.targets)}

(* The tier of a line is the highest of them, unless a download is piped     *)
(* into a shell.                                                             *)
LEMMA TierIsWorst ==
    ASSUME NEW p \in ParserState
    PROVE  /\ Rated(p) \in SUBSET RiskTier /\ Rated(p) # {}
           /\ IF PipesDownloadIntoShell(p.segments)
              THEN AssessParsed(p).tier = Critical /\ AssessParsed(p).piped
              ELSE AssessParsed(p).tier = Max(Rated(p))
  <1>1. PICK piped \in BOOLEAN : piped = PipesDownloadIntoShell(p.segments)
    BY DEF PipesDownloadIntoShell
  <1>2. PICK V : V = Range(VerdictsOf(p, piped))
    OBVIOUS
  <1>3. PICK a : a = AssessParsed(p)
    OBVIOUS
  <1>4. a.tier = Max({Safe} \cup {v.tier : v \in V}) /\ a.piped = piped
    BY <1>1, <1>2, <1>3 DEF AssessParsed, Assess, Summarize, VerdictsOf, Worst
  <1>5. /\ \A v \in V : Warns(v) /\ IsPart(v, p, piped)
        /\ p.opaque => Verdict(Medium, TRUE, FALSE, TRUE) \in V
        /\ \A k \in DOMAIN p.segments : ClassifySegment(p.segments[k]) \in V
        /\ \A k \in DOMAIN p.targets :
              ClassifyTarget(PathOf(p.targets[k]), IsProtected(p.targets[k])) \in V
    BY <1>2, VerdictsFact
  <1>6. piped => a.tier = Critical
    BY <1>1, <1>3, WorstPartDecides
  <1>7. DOMAIN p.segments = 1..Len(p.segments) /\ DOMAIN p.targets = 1..Len(p.targets)
    BY DEF ParserState, Words
  <1>8. Verdict(Medium, TRUE, FALSE, TRUE).tier = Medium
    BY DEF Verdict
  <1>9. \A t \in Rated(p) : t \in {Safe} \cup {v.tier : v \in V}
    BY <1>5, <1>7, <1>8 DEF Rated, TargetTier
  <1>10. {Safe} \cup {v.tier : v \in V} \in SUBSET RiskTier
    BY <1>5, TiersAreTiers DEF Warns, VerdictRecord
  <1>11. Rated(p) \in SUBSET RiskTier
    BY <1>9, <1>10
  <1>12. Safe \in Rated(p)
    BY DEF Rated
  <1>13. ASSUME ~piped, NEW v \in V
         PROVE  v.tier \in Rated(p)
    <2>1. IsPart(v, p, piped)
      BY <1>5
    <2> QED BY <1>7, <1>8, <1>13, <2>1 DEF IsPart, Rated, TargetTier
  <1>14. ~piped => {Safe} \cup {v.tier : v \in V} = Rated(p)
    BY <1>9, <1>12, <1>13
  <1> QED BY <1>1, <1>3, <1>4, <1>6, <1>11, <1>12, <1>14

(* The highest of two sets together is the higher of the two highest.        *)
LEMMA HighestOfBoth ==
    ASSUME NEW A \in SUBSET RiskTier, NEW B \in SUBSET RiskTier, A # {}, B # {},
           NEW x, x = Max(A), NEW y, y = Max(B)
    PROVE  Max(A \cup B) = Max({x, y})
  <1>1. x \in A /\ y \in B /\ (\A t \in A : t <= x) /\ (\A t \in B : t <= y)
    BY HighestTier
  <1>2. PICK C, D : C = A \cup B /\ D = {x, y}
    OBVIOUS
  <1>3. C \in SUBSET RiskTier /\ C # {} /\ D \in SUBSET RiskTier /\ D # {}
    BY <1>1, <1>2
  <1>4. PICK u, v : u = Max(C) /\ v = Max(D)
    OBVIOUS
  <1>5. u \in C /\ (\A t \in C : t <= u) /\ v \in D /\ (\A t \in D : t <= v)
    BY <1>3, <1>4, HighestTier
  <1>6. \A t \in RiskTier : t \in Nat
    BY DEF RiskTier
  <1>7. x \in Nat /\ y \in Nat /\ u \in Nat /\ v \in Nat
    BY <1>1, <1>3, <1>5, <1>6
  <1>8. v <= u
    BY <1>1, <1>2, <1>5
  <1>9. u <= v
    <2>1. x <= v /\ y <= v
      BY <1>2, <1>5
    <2>2. u <= x \/ u <= y
      BY <1>1, <1>2, <1>5
    <2> QED BY <1>7, <2>1, <2>2
  <1>10. u = v
    BY <1>7, <1>8, <1>9
  <1> QED BY <1>2, <1>4, <1>10

(* What a line rates is what its two sides rate.                             *)
LEMMA RatedTogether ==
    ASSUME NEW z \in ParserState, NEW x \in ParserState, NEW y \in ParserState,
           Together(z, x, y)
    PROVE  Rated(z) = Rated(x) \cup Rated(y)
  <1>1. PICK P, R, Q : P = z.segments /\ R = x.segments /\ Q = y.segments
    OBVIOUS
  <1>2. PICK m, n, h : m = Len(R) /\ n = Len(Q) /\ h = Len(P)
    OBVIOUS
  <1>3. P \in Seq(Segment) /\ R \in Seq(Segment) /\ Q \in Seq(Segment)
    BY <1>1 DEF ParserState
  <1>4. m \in Nat /\ n \in Nat /\ h = m + n
    BY <1>1, <1>2, <1>3 DEF Together, Joins
  <1>5. \A j \in 1..m : P[j] = R[j]
    BY <1>1, <1>2 DEF Together, Joins
  <1>6. \A j \in 1..n : ClassifySegment(P[m + j]).tier = ClassifySegment(Q[j]).tier
    <2> SUFFICES ASSUME NEW j \in 1..n PROVE ClassifySegment(P[m + j]).tier = ClassifySegment(Q[j]).tier
      OBVIOUS
    <2>1. m + j \in 1..h
      BY <1>4
    <2>2. P[m + j] \in Segment /\ Q[j] \in Segment
      BY <1>2, <1>3, <2>1
    <2>3. P[m + j].words = Q[j].words
      BY <1>1, <1>2 DEF Together, Joins, Alike
    <2> QED BY <2>2, <2>3, TierByWords
  <1>7. {ClassifySegment(P[k]).tier : k \in 1..h} =
           {ClassifySegment(R[k]).tier : k \in 1..m} \cup {ClassifySegment(Q[k]).tier : k \in 1..n}
    <2>1. \A k \in 1..h : k \in 1..m \/ \E j \in 1..n : k = m + j
      <3> SUFFICES ASSUME NEW k \in 1..h, k \notin 1..m PROVE \E j \in 1..n : k = m + j
        OBVIOUS
      <3>1. k - m \in 1..n /\ k = m + (k - m)
        BY <1>4
      <3> QED BY <3>1
    <2>2. (\A j \in 1..n : m + j \in 1..h) /\ \A j \in 1..m : j \in 1..h
      BY <1>4
    <2> QED BY <1>5, <1>6, <2>1, <2>2
  <1>8. PICK T, A, B : T = z.targets /\ A = x.targets /\ B = y.targets
    OBVIOUS
  <1>9. {TargetTier(T[k]) : k \in 1..Len(T)} =
           {TargetTier(A[k]) : k \in 1..Len(A)} \cup {TargetTier(B[k]) : k \in 1..Len(B)}
    <2>1. PICK W : W = Word
      OBVIOUS
    <2>2. A \in Seq(W) /\ B \in Seq(W) /\ T = A \o B
      BY <1>8, <2>1 DEF ParserState, Words, Word, Together
    <2>3. PICK a, b, c : a = Len(A) /\ b = Len(B) /\ c = Len(T)
      OBVIOUS
    <2>4. a \in Nat /\ b \in Nat /\ c = a + b
      BY <2>2, <2>3
    <2>5. (\A j \in 1..a : T[j] = A[j]) /\ \A j \in 1..b : T[a + j] = B[j]
      BY <2>2, <2>3
    <2>6. \A k \in 1..c : k \in 1..a \/ \E j \in 1..b : k = a + j
      <3> SUFFICES ASSUME NEW k \in 1..c, k \notin 1..a PROVE \E j \in 1..b : k = a + j
        OBVIOUS
      <3>1. k - a \in 1..b /\ k = a + (k - a)
        BY <2>4
      <3> QED BY <3>1
    <2>7. (\A j \in 1..b : a + j \in 1..c) /\ \A j \in 1..a : j \in 1..c
      BY <2>4
    <2>8. {TargetTier(T[k]) : k \in 1..c} =
           {TargetTier(A[k]) : k \in 1..a} \cup {TargetTier(B[k]) : k \in 1..b}
      BY <2>5, <2>6, <2>7
    <2> QED BY <2>3, <2>8
  <1>10. {t \in {Medium} : z.opaque} = {t \in {Medium} : x.opaque} \cup {t \in {Medium} : y.opaque}
    BY DEF Together
  <1>11. PICK a1, a2, a3, b1, b2, b3 :
            /\ a1 = {t \in {Medium} : x.opaque} /\ b1 = {t \in {Medium} : y.opaque}
            /\ a2 = {ClassifySegment(R[k]).tier : k \in 1..m}
            /\ b2 = {ClassifySegment(Q[k]).tier : k \in 1..n}
            /\ a3 = {TargetTier(A[k]) : k \in 1..Len(A)} /\ b3 = {TargetTier(B[k]) : k \in 1..Len(B)}
    OBVIOUS
  <1>12. Rated(x) = {Safe} \cup a1 \cup a2 \cup a3
    BY <1>1, <1>2, <1>8, <1>11 DEF Rated
  <1>13. Rated(y) = {Safe} \cup b1 \cup b2 \cup b3
    BY <1>1, <1>2, <1>8, <1>11 DEF Rated
  <1>14. Rated(z) = {Safe} \cup (a1 \cup b1) \cup (a2 \cup b2) \cup (a3 \cup b3)
    <2>1. PICK c1, c2, c3 : /\ c1 = {t \in {Medium} : z.opaque}
                            /\ c2 = {ClassifySegment(P[k]).tier : k \in 1..h}
                            /\ c3 = {TargetTier(T[k]) : k \in 1..Len(T)}
      OBVIOUS
    <2>2. Rated(z) = {Safe} \cup c1 \cup c2 \cup c3
      BY <1>1, <1>2, <1>8, <2>1 DEF Rated
    <2>3. c1 = a1 \cup b1
      BY <1>10, <1>11, <2>1
    <2>4. c2 = a2 \cup b2
      BY <1>7, <1>11, <2>1
    <2>5. c3 = a3 \cup b3
      BY <1>9, <1>11, <2>1
    <2> QED BY <2>2, <2>3, <2>4, <2>5
  <1> QED BY <1>12, <1>13, <1>14

(* A side that pipes a download into a shell does so in the line.            *)
LEMMA PipedTogether ==
    ASSUME NEW P \in Seq(Segment), NEW R \in Seq(Segment), NEW Q \in Seq(Segment), Joins(P, R, Q),
           PipesDownloadIntoShell(R) \/ PipesDownloadIntoShell(Q)
    PROVE  PipesDownloadIntoShell(P)
  <1>1. PICK m, n, h : m = Len(R) /\ n = Len(Q) /\ h = Len(P)
    OBVIOUS
  <1>2. m \in Nat /\ n \in Nat /\ h = m + n /\ h \in Nat
    BY <1>1 DEF Joins
  <1>3. \A j \in 1..m : P[j] = R[j]
    BY <1>1 DEF Joins
  <1>4. CASE PipesDownloadIntoShell(R)
    <2>1. PICK k \in 1..(m - 1) :
              /\ R[k + 1].readsPipe
              /\ R[k].words # <<>> /\ Program(R[k]) \in Downloaders
              /\ R[k + 1].words # <<>> /\ Program(R[k + 1]) \in Shells
      BY <1>1, <1>4 DEF PipesDownloadIntoShell
    <2>2. k \in 1..m /\ k + 1 \in 1..m /\ k \in 1..(h - 1)
      BY <1>2
    <2>3. P[k] = R[k] /\ P[k + 1] = R[k + 1]
      BY <1>3, <2>2
    <2> QED BY <1>1, <2>1, <2>2, <2>3 DEF PipesDownloadIntoShell
  <1>5. CASE PipesDownloadIntoShell(Q)
    <2>1. PICK k \in 1..(n - 1) :
              /\ Q[k + 1].readsPipe
              /\ Q[k].words # <<>> /\ Program(Q[k]) \in Downloaders
              /\ Q[k + 1].words # <<>> /\ Program(Q[k + 1]) \in Shells
      BY <1>1, <1>5 DEF PipesDownloadIntoShell
    <2>2. PICK f, g, e : f = m + k /\ g = f + 1 /\ e = k + 1
      OBVIOUS
    <2>3. /\ k \in 1..n /\ e \in 1..n /\ f \in 1..(h - 1) /\ f \in 1..h /\ g \in 1..h
          /\ g = m + e /\ e # 1
      BY <1>2, <2>2
    <2>4. PICK a, b, c, d : a = P[f] /\ b = P[g] /\ c = Q[k] /\ d = Q[e]
      OBVIOUS
    <2>5. a \in Segment /\ b \in Segment /\ c \in Segment /\ d \in Segment
      BY <1>1, <2>3, <2>4
    <2>6. a.words = c.words /\ b.words = d.words /\ b.readsPipe = d.readsPipe
      BY <1>1, <2>2, <2>3, <2>4 DEF Joins, Alike
    <2>7. Program(a) = Program(c) /\ Program(b) = Program(d)
      BY <2>5, <2>6, TierByWords
    <2>8. /\ b.readsPipe
          /\ a.words # <<>> /\ Program(a) \in Downloaders
          /\ b.words # <<>> /\ Program(b) \in Shells
      BY <2>1, <2>2, <2>4, <2>6, <2>7
    <2> QED BY <1>1, <2>2, <2>3, <2>4, <2>8 DEF PipesDownloadIntoShell
  <1> QED BY <1>4, <1>5

(* The worse side of a line decides, or the pipe between them does.          *)
WorseDecides(z, x, y) == z.tier = Max({x.tier, y.tier}) \/ (z.tier = Critical /\ z.piped)

(* It is so for any three parses of which one is the others together.        *)
LEMMA SidesDecide ==
    ASSUME NEW z \in ParserState, NEW x \in ParserState, NEW y \in ParserState,
           Together(z, x, y)
    PROVE  WorseDecides(AssessParsed(z), AssessParsed(x), AssessParsed(y))
  <1>1. PICK a, b, c : a = AssessParsed(z) /\ b = AssessParsed(x) /\ c = AssessParsed(y)
    OBVIOUS
  <1>2. CASE PipesDownloadIntoShell(z.segments)
    <2>1. a.tier = Critical /\ a.piped
      BY <1>1, <1>2, TierIsWorst
    <2> QED BY <1>1, <2>1 DEF WorseDecides
  <1>3. CASE ~PipesDownloadIntoShell(z.segments)
    <2>1. z.segments \in Seq(Segment) /\ x.segments \in Seq(Segment) /\ y.segments \in Seq(Segment)
      BY DEF ParserState
    <2>2. ~PipesDownloadIntoShell(x.segments) /\ ~PipesDownloadIntoShell(y.segments)
      BY <1>3, <2>1, PipedTogether DEF Together
    <2>3. a.tier = Max(Rated(z)) /\ b.tier = Max(Rated(x)) /\ c.tier = Max(Rated(y))
      BY <1>1, <1>3, <2>2, TierIsWorst
    <2>4. /\ Rated(x) \in SUBSET RiskTier /\ Rated(x) # {}
          /\ Rated(y) \in SUBSET RiskTier /\ Rated(y) # {}
      BY TierIsWorst
    <2>5. Rated(z) = Rated(x) \cup Rated(y)
      BY RatedTogether
    <2>6. PICK u, v : u = b.tier /\ v = c.tier
      OBVIOUS
    <2>7. a.tier = Max({u, v})
      BY <2>3, <2>4, <2>5, <2>6, HighestOfBoth
    <2> QED BY <1>1, <2>6, <2>7 DEF WorseDecides
  <1> QED BY <1>2, <1>3

(* A separator that ends a command cuts a line in two that are rated         *)
(* together as they are apart.                                               *)
LEMMA CutDecides ==
    ASSUME NEW l \in Word, NEW k \in 1..Len(l), l[k] \in Separators, Contexts(l)[k] = "plain",
           ~Awaits(l, k)
    PROVE  WorseDecides(AssessParsed(Parse(l)), AssessParsed(Parse(Before(l, k))),
                        AssessParsed(Parse(Behind(l, k))))
  <1>1. PICK st : IsParse(st, l) /\ Parse(l) = EndSegment(PushWord(st[Len(l)]), FALSE)
    BY ParseTurns
  <1>2. PICK x, y : x = Before(l, k) /\ y = Behind(l, k)
    OBVIOUS
  <1>3. PICK s \in Reached(st, l) :
              Resting(s) /\ SameFindings(s, Parse(x)) /\ GoesOn(s, l, k)
    <2>1. IsParse(st, l)
      BY <1>1
    <2> QED BY <1>2, <2>1, LeftReads
  <1>4. /\ y \in Word /\ Parse(l) \in ParserState /\ Parse(y) \in ParserState
        /\ Together(Parse(l), s, Parse(y))
    <2>1. Resting(s) /\ GoesOn(s, l, k)
      BY <1>3
    <2> QED BY <1>1, <1>2, <2>1, RightReads
  <1>5. Parse(x) \in ParserState
    <2>1. x \in Word
      BY <1>2, BeforeIsWindow
    <2> QED BY <2>1, ParseSeesSubstitutions
  <1>6. PICK p, q, r : p = Parse(l) /\ q = Parse(x) /\ r = Parse(y)
    OBVIOUS
  <1>7. s.segments = q.segments /\ s.targets = q.targets /\ s.opaque = q.opaque
    BY <1>3, <1>6 DEF SameFindings
  <1>8. /\ p \in ParserState /\ q \in ParserState /\ r \in ParserState
        /\ Together(p, q, r)
    BY <1>4, <1>5, <1>6, <1>7 DEF Together
  <1>9. WorseDecides(AssessParsed(p), AssessParsed(q), AssessParsed(r))
    BY <1>8, SidesDecide
  <1> QED BY <1>2, <1>6, <1>9

(* The worst command of a line decides, whatever the line and wherever it is *)
(* cut: what stands on either side of a separator is rated no lower within   *)
(* the trimmed line than it is alone, and no higher unless a download is     *)
(* piped into a shell (risk.rs classify and parse).                          *)
THEOREM TheWorstCommandDecides == ClassifierSpec => []WorstSegmentWins
  <1>1. ClassifierInv => WorstSegmentWins
    <2> SUFFICES ASSUME line \in Word PROVE WorstSegmentWins
      BY DEF ClassifierInv
    <2>1. PICK l \in Word : l = Trim(line)
      BY TrimIsWord
    <2>2. PICK a : a = Classify(line)
      OBVIOUS
    <2>3. ASSUME NEW k \in Cuts(l)
          PROVE  \/ a.tier = Max({AssessParsed(Parse(side)).tier :
                                    side \in {SubSeq(l, 1, k - 1), SubSeq(l, k + 1, Len(l))}})
                 \/ a.tier = Critical /\ a.piped
      <3>1. PICK x, y : x = Before(l, k) /\ y = Behind(l, k)
        OBVIOUS
      <3>2. k \in 1..Len(l) /\ l[k] \in Separators /\ Contexts(l)[k] = "plain"
        BY <2>3, LineFacts DEF Cuts
      <3>3. ~Awaits(l, k)
        BY <2>3 DEF Cuts, Awaits, Passes
      <3>4. l # <<>>
        <4>1. Len(l) # 0
          BY <3>2, LineFacts
        <4> QED BY <4>1
      <3>5. a = AssessParsed(Parse(l))
        BY <2>1, <2>2, <3>4 DEF Classify
      <3>6. WorseDecides(a, AssessParsed(Parse(x)), AssessParsed(Parse(y)))
        BY <3>1, <3>2, <3>3, <3>5, CutDecides
      <3>7. {AssessParsed(Parse(side)).tier : side \in {x, y}}
              = {AssessParsed(Parse(x)).tier, AssessParsed(Parse(y)).tier}
        OBVIOUS
      <3> QED BY <3>1, <3>6, <3>7 DEF WorseDecides, Before, Behind
    <2>4. l \in {Trim(line)} /\ a \in {Classify(line)}
      BY <2>1, <2>2
    <2> QED BY <2>3, <2>4 DEF WorstSegmentWins
  <1> QED BY <1>1, ClassifierInvariant, PTL

-----------------------------------------------------------------------------
(* The backend: what a step is to each of its components.                    *)

(* Servers without a secret are added and deleted like any other.            *)
LEMMA PlainRowsAreRows == PlainRowNext => RowNext
  <1>1. "agent" \in AuthMethod /\ FALSE \in BOOLEAN
    BY DEF AuthMethod
  <1>2. ASSUME NEW i \in Ids, NEW alias \in Aliases, AddServer(i, alias, "agent", FALSE)
        PROVE  RowNext
    BY <1>1, <1>2, Zenon DEF RowNext
  <1>3. ASSUME NEW i \in Ids, UpsertRow(i) \/ DeleteSecrets(i, "none") \/ DeleteRow(i)
        PROVE  RowNext
    BY <1>3, Zenon DEF RowNext
  <1> QED BY <1>2, <1>3 DEF PlainRowNext

(* What a step is to the inventory...                                        *)
LEMMA StepOfInventory == [Next]_backendVars => [InventoryNext]_inventoryVars
  BY PlainRowsAreRows, Zenon
     DEF Next, InventoryPart, ChartsPart, GatewayPart, ApprovalsPart, ClassifierPart,
         backendVars, InventoryNext

(* ... to the approval gate and the tokens...                                *)
LEMMA StepOfApprovals == [Next]_backendVars => [ApprovalsStep]_approvalVars
  <1> SUFFICES ASSUME [Next]_backendVars PROVE [ApprovalsStep]_approvalVars
    OBVIOUS
  <1>1. CASE InventoryPart \/ ChartsPart \/ ClassifierPart \/ UNCHANGED backendVars
    BY <1>1 DEF InventoryPart, ChartsPart, ClassifierPart, backendVars
  <1>2. CASE ApprovalsPart
    BY <1>2 DEF ApprovalsPart, ApprovalsStep
  <1>3. CASE GatewayPart
    BY <1>3 DEF GatewayPart, ProtocolNext, HealthNext, ApprovalsStep, GateNext
  <1> QED BY <1>1, <1>2, <1>3 DEF Next

(* ... to the classifier...                                                  *)
LEMMA StepOfClassifier == [Next]_backendVars => [ClassifierNext]_classifierVars
  BY Zenon DEF Next, InventoryPart, ChartsPart, GatewayPart, ApprovalsPart, ClassifierPart,
               backendVars

(* ... and to the gateway and its store. The clock stays a clock because     *)
(* SetClock is the only step that moves it.                                  *)
LEMMA StepOfGateway ==
    ApprovalsInv /\ [Next]_backendVars => GatewayStep
  <1> SUFFICES ASSUME ApprovalsInv, [Next]_backendVars PROVE GatewayStep
    OBVIOUS
  <1>1. CASE GatewayPart
    BY <1>1, GatewayStepCases DEF GatewayPart, GatewayNext
  <1>2. CASE ChartsPart
    <2>1. MetricsNext /\ UNCHANGED <<approvalVars, gatewayVars>>
      BY <1>2 DEF ChartsPart
    <2> QED BY <2>1, MetricsStep DEF GatewayStep, approvalVars, gatewayVars
  <1>3. CASE InventoryPart \/ ClassifierPart \/ UNCHANGED backendVars
    <2>1. UNCHANGED <<metricVars, approvalVars, gatewayVars>>
      BY <1>3 DEF InventoryPart, ClassifierPart, backendVars
    <2> QED BY <2>1 DEF GatewayStep, approvalVars, gatewayVars
  <1>4. CASE ApprovalsPart
    <2>1. UNCHANGED <<metricVars, gatewayVars>>
      BY <1>4 DEF ApprovalsPart
    <2>2. ApprovalsInv'
      BY ApprovalsStepInv, StepOfApprovals
    <2>3. wall' \in Clock
      BY <2>2 DEF ApprovalsInv, ApprovalsTypeOK
    <2> QED BY <2>1, <2>3 DEF GatewayStep, gatewayVars
  <1> QED BY <1>1, <1>2, <1>3, <1>4 DEF Next

(* Backend implements the specification of each of its components: a         *)
(* behaviour that exercises one part of the program is one of the inventory, *)
(* of the gate and the tokens, of the store, of the gateway and of the        *)
(* classifier, with stutters where the step belongs to another.              *)
THEOREM ImplementsItsComponents ==
    Spec => InventorySpec /\ ApprovalsSpec /\ StoreSpec /\ GatewaySpec /\ ClassifierSpec
  <1>1. Init => /\ InventoryInit /\ MetricsInit /\ ApprovalsInit /\ GatewayInit
                /\ ClassifierInit
    BY DEF Init
  <1>2. Spec => InventorySpec
    BY <1>1, StepOfInventory, PTL DEF Spec, InventorySpec, InventoryNext
  <1>3. Spec => ApprovalsSpec
    BY <1>1, StepOfApprovals, PTL DEF Spec, ApprovalsSpec, ApprovalsStep
  <1>4. ApprovalsInv /\ [Next]_backendVars => [GatewayStep]_storeAndGateway
    BY StepOfGateway
  <1>5. Spec => GatewaySpec
    BY <1>1, <1>3, <1>4, ApprovalsInvariant, PTL DEF Spec, GatewaySpec
  <1>6. ApprovalsInv /\ [Next]_backendVars => [StoreStep]_metricVars
    BY StepOfGateway DEF GatewayStep
  <1>7. Spec => StoreSpec
    BY <1>1, <1>3, <1>6, ApprovalsInvariant, PTL DEF Spec, StoreSpec
  <1>8. Spec => ClassifierSpec
    BY <1>1, StepOfClassifier, PTL DEF Spec, ClassifierSpec
  <1> QED BY <1>2, <1>3, <1>5, <1>7, <1>8, PTL

(* The types of the whole backend and the constraints of its schema: every   *)
(* table, the gate, the store, the gateway's replies and the line being      *)
(* assessed keep theirs, whichever part a behaviour exercises.               *)
THEOREM BackendTypeCorrect == Spec => []TypeOK
  <1>1. Spec => []InventoryTypeOK /\ []MetricsTypeOK /\ []ApprovalsTypeOK /\ []GatewayTypeOK
                /\ []ClassifierTypeOK
    BY ImplementsItsComponents, SchemaHolds, StoreTypeCorrect, ApprovalsTypeCorrect,
       GatewayTypeCorrect, ClassifierTypeCorrect, PTL
  <1>2. Init => part \in Parts
    BY DEF Init
  <1>3. part \in Parts /\ [Next]_backendVars => (part \in Parts)'
    BY DEF Next, InventoryPart, ChartsPart, GatewayPart, ApprovalsPart, ClassifierPart, backendVars
  <1>4. Spec => [](part \in Parts)
    BY <1>2, <1>3, PTL DEF Spec
  <1>5. /\ part \in Parts /\ InventoryTypeOK /\ MetricsTypeOK /\ ApprovalsTypeOK
        /\ GatewayTypeOK /\ ClassifierTypeOK
        => TypeOK
    BY DEF TypeOK
  <1> QED BY <1>1, <1>4, <1>5, PTL

(* What the runs check of the backend on small instances, for every value of *)
(* the constants: the rows and the keychain match, the schema's constraints  *)
(* and the gate's types hold, change lists are exact, replies are earned and *)
(* health is honest, listings bind, refusals are final, roll-ups forget      *)
(* nothing, charts show what was observed, what the classifier cannot read   *)
(* it does not call safe, the worst command of a line decides, and an        *)
(* assembled command is read as it was meant.                                *)
THEOREM BackendIsSafe ==
    Spec => /\ []TypeOK /\ []SecretsMatchRows /\ []DiffIsExact
            /\ ListingsAreBinding /\ RefusalIsFinal
            /\ []RepliesAreEarned /\ HealthIsHonest
            /\ RollUpNeverForgets /\ []ChartPointsAreObserved
            /\ []UnreadableIsNotSafe /\ []WorstSegmentWins /\ []RenderedIsOneCommand
  BY ImplementsItsComponents, BackendTypeCorrect, SecretsMatch, ChangesAreExact,
     ListingsBind, RefusalsAreFinal, RepliesStayEarned, HealthStaysHonest, RollUpsKeep,
     ChartsShowWhatWasObserved, UnreadableStaysUnsafe, TheWorstCommandDecides,
     RenderedStaysOneCommand, PTL

=============================================================================
