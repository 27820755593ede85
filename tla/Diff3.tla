-------------------------------- MODULE Diff3 --------------------------------
(***************************************************************************)
(* The three-way merge of two versions of a note, line by line             *)
(* (merge/diff3.ts): the diff of a version against the common ancestor,    *)
(* the hunks it leaves, their merge, and the text with conflict markers    *)
(* that the panel reads back.                                              *)
(*                                                                         *)
(* Two users save their version of a note once each; everything else is a  *)
(* function of the three texts.  A line is a model value, and a text has   *)
(* at least one, as split gives it.  Indices start at 1.  The merge result *)
(* is a sequence of segments: a conflict's place in the merged text is its *)
(* place among them.                                                       *)
(***************************************************************************)
EXTENDS SequencesExt

CONSTANTS
    Lines,                      \* what users write
    Ours, Base, Sep, Theirs,    \* the marker lines; a user's line may look like one
    MaxLines                    \* bound: lines of a text

ASSUME MaxLinesAssumption == MaxLines \in Nat \ {0}

VARIABLES ancestor, local, remote

vars == <<ancestor, local, remote>>

Texts == UNION {[1..n -> Lines] : n \in 1..MaxLines}

----------------------------------------------------------------------------
(* Patience diff.  A diff is the sequence of the pairs <<i, j>> of equal   *)
(* lines; what lies between two pairs is deleted and inserted.             *)

\* The pair that stands for a TypeError: the diff gives no answer.
Throws == <<0, 0>>

\* Where the pair with index j in the variant goes: `top` holds indices of pairs, by which
\* the code looks into the piles.
Place(s, j) ==
    LET n == Len(s.piles)
        search[lo \in 0..n, hi \in 0..n] ==
            IF lo >= hi THEN lo
            ELSE LET mid == (lo + hi) \div 2  k == s.top[mid + 1] IN
                 CASE k > n -> -1
                   [] k <= n /\ s.piles[k][2] < j -> search[mid + 1, hi]
                   [] OTHER -> search[lo, mid]
    IN  search[0, n]

longestIncreasingSubsequence(pairs) ==
    LET set(s, i, x) == IF i > Len(s) THEN Append(s, x) ELSE [s EXCEPT ![i] = x]
        step(s, i) ==
            LET lo == Place(s, pairs[i][2]) IN
            IF s.threw \/ lo = -1 THEN [s EXCEPT !.threw = TRUE]
            ELSE [s EXCEPT !.prev = Append(@, IF lo = 0 THEN 0 ELSE s.top[lo]),
                           !.top = set(@, lo + 1, i), !.piles = set(@, lo + 1, pairs[i])]
        chain(end) ==
            LET back[k \in 0..Len(pairs)] == IF k = 0 THEN <<>> ELSE Append(back[end.prev[k]], pairs[k])
            IN  IF end.threw THEN <<Throws>> ELSE back[end.top[Len(end.piles)]]
        start == [piles |-> <<>>, top |-> <<>>, prev |-> <<>>, threw |-> FALSE]
    IN  IF pairs = <<>> THEN <<>> ELSE chain(FoldLeftDomain(step, start, pairs))

OnceIn(s, I, x) == {i \in I : s[i] = x}

\* patienceAnchors: the lines that are unique in both ranges, in the order of the ancestor.
patienceAnchors(a, I, b, J) ==
    LET once  == {i \in I : OnceIn(a, I, a[i]) = {i} /\ Cardinality(OnceIn(b, J, a[i])) = 1}
        pairs == {<<i, CHOOSE j \in J : b[j] = a[i]>> : i \in once}
    IN  longestIncreasingSubsequence(SetToSortSeq(pairs, LAMBDA p, q : p[1] < q[1]))

\* myersLCS: the table of the lengths for suffixes, and the walk through it.
myersLCS(a, aHi, b, bHi, aLo, bLo) ==
    LET len[i \in 1..aHi + 1, j \in 1..bHi + 1] ==
            IF i > aHi \/ j > bHi THEN 0
            ELSE IF a[i] = b[j] THEN len[i + 1, j + 1] + 1
            ELSE Max({len[i + 1, j], len[i, j + 1]})
        walk[i \in 1..aHi + 1, j \in 1..bHi + 1] ==
            CASE i > aHi \/ j > bHi -> <<>>
              [] i <= aHi /\ j <= bHi /\ a[i] = b[j] -> <<<<i, j>>>> \o walk[i + 1, j + 1]
              [] OTHER -> IF len[i + 1, j] >= len[i, j + 1] THEN walk[i + 1, j] ELSE walk[i, j + 1]
    IN  walk[aLo, bLo]

\* diffRecurse, from <<aLo, bLo>> up to and without <<aHi, bHi>>.
diffLines(a, b) ==
    LET diff[aLo \in 1..Len(a) + 1, bLo \in 1..Len(b) + 1,
             aHi \in 1..Len(a) + 1, bHi \in 1..Len(b) + 1] ==
            LET part(ends, k) ==
                    LET p == IF k = 1 THEN <<aLo - 1, bLo - 1>> ELSE ends[k - 1] IN
                    diff[p[1] + 1, p[2] + 1, ends[k][1], ends[k][2]]
                        \o IF k = Len(ends) THEN <<>> ELSE <<ends[k]>>
                parts(ends) == FlattenSeq([k \in DOMAIN ends |-> part(ends, k)])
                between(anchors) ==
                    CASE anchors = <<>> -> myersLCS(a, aHi - 1, b, bHi - 1, aLo, bLo)
                      [] anchors = <<Throws>> -> anchors
                      [] OTHER -> parts(Append(anchors, <<aHi, bHi>>))
            IN  IF aLo = aHi \/ bLo = bHi THEN <<>>
                ELSE between(patienceAnchors(a, aLo..aHi - 1, b, bLo..bHi - 1))
    IN  diff[1, 1, Len(a) + 1, Len(b) + 1]

Answers(a, b) == ~ Contains(diffLines(a, b), Throws)

----------------------------------------------------------------------------
(* Hunks: the lines of the ancestor from `from` up to and without `to` are *)
(* replaced.                                                               *)

Hunk(m, b, k) == [from |-> m[k][1] + 1, to |-> m[k + 1][1],
                  lines |-> SubSeq(b, m[k][2] + 1, m[k + 1][2] - 1)]

HunksOf(m, b) ==
    SelectSeq([k \in 1..Len(m) - 1 |-> Hunk(m, b, k)], LAMBDA h : h.from < h.to \/ h.lines # <<>>)

\* Fault: a hunk that is open at the end of the diff is forgotten.
HunksBeforeTheEnd(a, b) == HunksOf(<<<<0, 0>>>> \o diffLines(a, b), b)

toHunks(a, b) ==
    HunksOf(<<<<0, 0>>>> \o diffLines(a, b) \o <<<<Len(a) + 1, Len(b) + 1>>>>, b)

isInsert(h) == h.from = h.to

hunksInteract(h, k) ==
    \/ Max({h.from, k.from}) < Min({h.to, k.to})
    \/ isInsert(h) /\ isInsert(k) /\ h.from = k.from
    \/ isInsert(h) /\ k.from < h.from /\ h.from < k.to
    \/ isInsert(k) /\ h.from < k.from /\ k.from < h.to

----------------------------------------------------------------------------
(* The merge *)

Clean(lines)         == [kind |-> "clean", lines |-> lines]
Conflict(anc, l, r)  == [kind |-> "conflict", base |-> anc, ours |-> l, theirs |-> r]

\* Fault: of two inserts at one gap only the local one is taken.
LocalJoint(anc, l, r) ==
    IF l.lines = r.lines \/ (isInsert(l) /\ isInsert(r)) THEN Clean(l.lines)
    ELSE Conflict(SubSeq(anc, Min({l.from, r.from}), Max({l.to, r.to}) - 1), l.lines, r.lines)

\* Two hunks that interact: joined, the same, or in conflict.
Joint(anc, l, r) ==
    CASE l.lines = r.lines -> Clean(l.lines)
      [] l.lines # r.lines /\ isInsert(l) /\ isInsert(r) /\ l.from = r.from -> Clean(l.lines \o r.lines)
      [] OTHER -> Conflict(SubSeq(anc, Min({l.from, r.from}), Max({l.to, r.to}) - 1), l.lines, r.lines)

\* Fault: the local hunk goes first at a tie.
LocalAtTie(l, r) == l.from <= r.from

\* At a tie an insert goes first.
TakesLocal(l, r) == l.from < r.from \/ (l.from = r.from /\ (isInsert(l) \/ ~ isInsert(r)))

mergeFromDiffs(anc, L, R) ==
    LET last == [from |-> Len(anc) + 2, to |-> Len(anc) + 2, lines |-> <<>>]
        lAll == Append(L, last)  rAll == Append(R, last)
        merge[i \in DOMAIN lAll, j \in DOMAIN rAll, pos \in 1..Len(anc) + 1] ==
            LET l == lAll[i]  r == rAll[j]
                next == Min({l.from, r.from})
                kept == <<Clean(SubSeq(anc, pos, Min({next, Len(anc) + 1}) - 1))>>
            IN  CASE l = last /\ r = last -> kept
                  [] l # last /\ r # last /\ hunksInteract(l, r) ->
                        kept \o <<Joint(anc, l, r)>>
                             \o merge[i + 1, j + 1, Max({pos, next, l.to, r.to})]
                  [] OTHER ->
                        IF TakesLocal(l, r)
                        THEN kept \o <<Clean(l.lines)>> \o merge[i + 1, j, Max({pos, next, l.to})]
                        ELSE kept \o <<Clean(r.lines)>> \o merge[i, j + 1, Max({pos, next, r.to})]
    IN  merge[1, 1, 1]

threeWayMerge(anc, l, r) ==
    CASE l = r \/ r = anc -> <<Clean(l)>>
      [] l # r /\ l = anc -> <<Clean(r)>>
      [] OTHER -> mergeFromDiffs(anc, toHunks(anc, l), toHunks(anc, r))

hasConflicts(m) == \E k \in DOMAIN m : m[k].kind = "conflict"

----------------------------------------------------------------------------
(* Markers                                                                 *)

\* renderMarkersFromResult
Render(m) ==
    LET block(s) == <<Ours>> \o s.ours \o <<Base>> \o s.base \o <<Sep>> \o s.theirs \o <<Theirs>>
    IN  FlattenSeq([k \in DOMAIN m |-> IF m[k].kind = "clean" THEN m[k].lines ELSE block(m[k])])

\* Fault: blocks have two sections.
ParsesTwoSections(p, line) ==
    CASE p.at = "clean" /\ line = Ours ->
            [p EXCEPT !.at = "ours", !.segs = Append(@, Conflict(<<>>, <<>>, <<>>))]
      [] p.at = "clean" /\ line # Ours -> [p EXCEPT !.segs = Append(@, Clean(<<line>>))]
      [] p.at # "clean" /\ line = Sep -> [p EXCEPT !.at = "theirs"]
      [] p.at # "clean" /\ line = Theirs -> [p EXCEPT !.at = "clean"]
      [] OTHER -> [p EXCEPT !.segs[Len(p.segs)][p.at] = Append(@, line)]

\* parseConflictMarkers, line by line: `at` is the section a line falls in.  A block that
\* is never closed is kept as far as it goes.
ParseLine(p, line) ==
    CASE p.at = "clean" /\ line = Ours ->
            [p EXCEPT !.at = "ours", !.segs = Append(@, Conflict(<<>>, <<>>, <<>>))]
      [] p.at = "clean" /\ line # Ours -> [p EXCEPT !.segs = Append(@, Clean(<<line>>))]
      [] p.at # "clean" /\ line = Base -> [p EXCEPT !.at = "base"]
      [] p.at # "clean" /\ line = Sep -> [p EXCEPT !.at = "theirs"]
      [] p.at # "clean" /\ line = Theirs -> [p EXCEPT !.at = "clean"]
      [] OTHER -> [p EXCEPT !.segs[Len(p.segs)][p.at] = Append(@, line)]

parseConflictMarkers(text) == FoldLeft(ParseLine, [at |-> "clean", segs |-> <<>>], text).segs

\* resolveConflictChunkLines, for one decision about all blocks; without one, `ours`.
Resolved(segs, kind) ==
    FlattenSeq([k \in DOMAIN segs |->
        CASE segs[k].kind = "clean" -> segs[k].lines
          [] segs[k].kind = "conflict" /\ kind = "local"  -> segs[k].ours
          [] segs[k].kind = "conflict" /\ kind = "remote" -> segs[k].theirs
          [] segs[k].kind = "conflict" /\ kind = "both"   -> segs[k].ours \o segs[k].theirs])

Kinds == {"local", "remote", "both"}

resolveMarkedText(text, kind) == Resolved(parseConflictMarkers(text), kind)

----------------------------------------------------------------------------

Init ==
    /\ ancestor \in Texts
    /\ local = ancestor /\ remote = ancestor

LocalSaves ==
    /\ local = ancestor
    /\ local' \in Texts \ {ancestor}
    /\ UNCHANGED <<ancestor, remote>>

RemoteSaves ==
    /\ remote = ancestor
    /\ remote' \in Texts \ {ancestor}
    /\ UNCHANGED <<ancestor, local>>

Next == LocalSaves \/ RemoteSaves

Spec == Init /\ [][Next]_vars

----------------------------------------------------------------------------
(* Properties.  `Both` are the states where there is something to merge.   *)

Both == local # ancestor /\ remote # ancestor /\ local # remote

Merges == Both /\ Answers(ancestor, local) /\ Answers(ancestor, remote)

LocalHunks  == ToSet(toHunks(ancestor, local))
RemoteHunks == ToSet(toHunks(ancestor, remote))
Result      == threeWayMerge(ancestor, local, remote)

\* The ancestor with the hunks replaced.
Patched(anc, hunks) ==
    LET kept(i) == i <= Len(anc) /\ \A h \in hunks : ~ (h.from <= i /\ i < h.to)
        at(i) == LET hs == SetToSortSeq({h \in hunks : h.from = i},
                                        LAMBDA h, k : isInsert(h) /\ ~ isInsert(k))
                 IN  FlattenSeq([k \in DOMAIN hs |-> hs[k].lines])
                     \o IF kept(i) THEN <<anc[i]>> ELSE <<>>
    IN  FlattenSeq([i \in 1..Len(anc) + 1 |-> at(i)])

\* Whatever anchors and fallbacks a diff found, the ancestor with its hunks replaced is the
\* version it was computed from (diffLines, toHunks).
HunksRebuildTheText ==
    Merges => Patched(ancestor, LocalHunks) = local /\ Patched(ancestor, RemoteHunks) = remote

\* Edits that do not touch merge cleanly, and on both devices into the same text: the
\* ancestor with the hunks of both replaced (mergeFromDiffs).
MergesDisjointEdits ==
    (Merges /\ \A h \in LocalHunks, k \in RemoteHunks : ~ hunksInteract(h, k)) =>
        \A m \in {Result, threeWayMerge(ancestor, remote, local)} :
            ~ hasConflicts(m) /\ Resolved(m, "local") = Patched(ancestor, LocalHunks \cup RemoteHunks)

\* No line that either user typed is dropped: what a hunk brings stands in one piece in the
\* merged text, or in that user's side of a conflict (mergeFromDiffs).
Holds(text, lines) == \E i \in 0..Len(text) - Len(lines) : SubSeq(text, i + 1, i + Len(lines)) = lines

NothingTypedIsDropped ==
    Merges => /\ \A h \in LocalHunks  : Holds(Resolved(Result, "local"), h.lines)
              /\ \A h \in RemoteHunks : Holds(Resolved(Result, "remote"), h.lines)

\* What the panel makes of the marked file is what was merged: each decision gives the
\* lines that the merge had for it (renderMarkersFromResult, parseConflictMarkers).
PanelResolves ==
    Merges => \A kind \in Kinds : resolveMarkedText(Render(Result), kind) = Resolved(Result, kind)

\* Any three versions of a note can be merged: the sort of the anchors looks at piles that
\* are there (longestIncreasingSubsequence).
DiffAnswers == Both => Merges

\* Replacements that overlap and differ end up in one conflict (mergeFromDiffs).
OverlapsAreReported ==
    Merges => \A h \in LocalHunks, k \in RemoteHunks :
        (/\ Max({h.from, k.from}) < Min({h.to, k.to})
         /\ h.lines # k.lines /\ <<>> \notin {h.lines, k.lines}) =>
            \E s \in ToSet(Result) : s.kind = "conflict" /\ s.ours = h.lines /\ s.theirs = k.lines

\* Two devices that merge the same two versions get the same text.
MergeCommutes ==
    (Merges /\ ~ hasConflicts(Result)) =>
        Resolved(Result, "local") = Resolved(threeWayMerge(ancestor, remote, local), "local")
=============================================================================
