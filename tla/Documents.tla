----------------------------- MODULE Documents ------------------------------
(***************************************************************************)
(* Pure transformations of what a run produced: the rows of a table that   *)
(* stand for one entity are merged (processors/dedup.py), and the files of *)
(* a LaTeX submission are put together (parsers/latex.py).                 *)
(***************************************************************************)
EXTENDS Integers, Sequences, SequencesExt, FiniteSets, FiniteSetsExt

-----------------------------------------------------------------------------
(* Duplicate rows.  keys[r] and cells[r] are a row's normalized key and the *)
(* value of a column, 0 when missing; pairs are a matcher's <<keep, drop>>. *)

Rows(keys) == DOMAIN keys

\* _labels(): the rows of each key in its order, then each row without one.
Groups(keys) ==
  LET named == SetToSortSeq({keys[r] : r \in Rows(keys)} \ {0}, <)
      alone == SetToSortSeq({r \in Rows(keys) : keys[r] = 0}, <)
  IN [i \in 1..Len(named) |-> {r \in Rows(keys) : keys[r] = named[i]}]
     \o [i \in 1..Len(alone) |-> {alone[i]}]

\* first(): the first value of a column among the rows.
FirstOf(rows, cells) ==
  LET given == {r \in rows : cells[r] # 0}
  IN IF given = {} THEN 0 ELSE cells[Min(given)]

\* _collapse_keys() and _group_sources(), before any row is absorbed.
Collapsed(keys, cells) ==
  LET groups == Groups(keys)
  IN [cell |-> [i \in DOMAIN groups |-> FirstOf(groups[i], cells)],
      sources |-> groups,
      absorbedBy |-> [i \in DOMAIN groups |-> 0]]

\* Mutant: a row merged away keeps what it is given.
SurvivingItself(i, absorbedBy) == i

\* _surviving_row()
SurvivingRow(i, absorbedBy) ==
  LET survivor[j \in DOMAIN absorbedBy] ==
        IF absorbedBy[j] = 0 THEN j ELSE survivor[absorbedBy[j]]
  IN survivor[i]

\* One pair of the matcher: the kept row's gap is filled, its sources grow.
Merged(table, pair) ==
  LET keeper == SurvivingRow(pair[1], table.absorbedBy)
      drop == pair[2]
  IN IF table.absorbedBy[drop] # 0 \/ keeper = drop THEN table
     ELSE [cell |-> [table.cell EXCEPT ![keeper] = IF @ = 0 THEN table.cell[drop] ELSE @],
           sources |-> [table.sources EXCEPT ![keeper] = @ \union table.sources[drop]],
           absorbedBy |-> [table.absorbedBy EXCEPT ![drop] = keeper]]

\* process(): [cell, sources] of the rows left, in their order.
Deduplicated(keys, cells, pairs) ==
  LET table == FoldLeft(Merged, Collapsed(keys, cells), pairs)
      left == SelectSeq([i \in 1..Len(table.absorbedBy) |-> i], LAMBDA i : table.absorbedBy[i] = 0)
  IN [k \in DOMAIN left |-> [cell |-> table.cell[left[k]], sources |-> table.sources[left[k]]]]

-----------------------------------------------------------------------------
(* LaTeX.  includes[f] are the files that file f inputs, in their order.    *)

\* _expand(): the files of a body in the order they are put in, and all that
\* have been so far; a file already in is left as a reference.
RECURSIVE Expand(_, _, _)
Expand(file, included, includes) ==
  FoldLeft(LAMBDA sofar, target :
             IF target \in sofar.included THEN sofar
             ELSE LET inner == Expand(target, sofar.included, includes)
                  IN [body |-> sofar.body \o inner.body, included |-> inner.included],
           [body |-> <<file>>, included |-> included \union {file}], includes[file])

\* Mutant: what no root is made of includes the files they took in.
LeftoverOfNoRoot(files, roots, included) == SetToSortSeq(files \ roots, <)

Leftover(files, roots, included) == SetToSortSeq(files \ included, <)

\* _assemble(): each root that is not in yet, then the files none reached.
Assemble(includes, roots) ==
  LET expanded ==
        FoldLeft(LAMBDA sofar, root :
                   IF root \in sofar.included THEN sofar
                   ELSE LET inner == Expand(root, sofar.included, includes)
                        IN [body |-> sofar.body \o inner.body, included |-> inner.included],
                 [body |-> <<>>, included |-> {}], SetToSortSeq(roots, <))
  IN expanded.body \o Leftover(DOMAIN includes, roots, expanded.included)

-----------------------------------------------------------------------------
(* Properties *)

\* "A chain of matches never discards data" (dedup.py:30): every row is among the
\* sources of exactly one row left, rows of one key of the same, and that row has
\* a value if one of its sources had, one of theirs.
NothingDiscarded(keys, cells, pairs) ==
  LET out == Deduplicated(keys, cells, pairs)
  IN /\ \A r \in Rows(keys) : \E i \in DOMAIN out :
          /\ r \in out[i].sources /\ \A j \in DOMAIN out \ {i} : r \notin out[j].sources
          /\ \A q \in Rows(keys) : keys[q] = keys[r] /\ keys[r] # 0 => q \in out[i].sources
     /\ \A i \in DOMAIN out :
          LET values == {cells[r] : r \in out[i].sources} \ {0}
          IN IF values = {} THEN out[i].cell = 0 ELSE out[i].cell \in values

\* Every file is in the text exactly once, through include cycles, files that two
\* include and roots that include each other; what a root takes in comes before
\* what none does (latex.py:98-118).
AssembledOnce(includes, roots) ==
  LET text == Assemble(includes, roots)
      reached[n \in 0..Cardinality(DOMAIN includes)] ==
        IF n = 0 THEN roots ELSE reached[n - 1] \union UNION {ToSet(includes[f]) : f \in reached[n - 1]}
      taken == reached[Cardinality(DOMAIN includes)]
  IN /\ IsInjective(text) /\ ToSet(text) = DOMAIN includes
     /\ \A i, j \in DOMAIN text : text[i] \in taken /\ text[j] \notin taken => i < j
=============================================================================
