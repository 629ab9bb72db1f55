-------------------------- MODULE SuiteComposition --------------------------
(***************************************************************************)
(* Native cases with enhancement packs appended                            *)
(* (generation/batch_composer.py, domain/composition.py). An identifier is *)
(* the sequence of its parts between hyphens, so that a namespaced one can *)
(* be equal to one that was there before.                                  *)
(***************************************************************************)
EXTENDS CaseGeneration, SequencesExt

Namespaced(pack) ==
  [i \in DOMAIN pack.cases |-> [pack.cases[i] EXCEPT !.id = pack.packId \o @]]

ComposedCases(base, packs) ==
  base \o FlattenSeq([p \in DOMAIN packs |-> Namespaced(packs[p])])

PackIdsAreUnique(packs) == \A p, q \in DOMAIN packs : packs[p].packId = packs[q].packId => p = q

\* Mutant: namespaced identifiers are taken to be new.
CompositionFails_NoCollisions(base, packs) == packs = <<>> \/ ~PackIdsAreUnique(packs)

\* compose_test_case_batches raises SuiteCompositionError.
CompositionFails(base, packs) ==
  \/ packs = <<>>
  \/ ~PackIdsAreUnique(packs)
  \/ ~DistinctIds(ComposedCases(base, packs))

\* The digest of a batch's canonical JSON is taken to be the batch: it does not
\* depend on how the file is laid out, a batch has the same one when it was
\* written and loaded again, and no other batch has it. (Numbers that JSON cannot
\* express are left out.)
BatchMetadata(cases) == [count |-> Len(cases), sha256 |-> cases]

\* Mutant: the composed batch is described as it was before its cases were renamed.
CompositionRecord_BeforeRenaming(base, packs) == [
  base |-> BatchMetadata(base),
  enhancements |-> [p \in DOMAIN packs |-> [packId |-> packs[p].packId, batch |-> BatchMetadata(packs[p].cases)]],
  composed |-> BatchMetadata(base \o FlattenSeq([p \in DOMAIN packs |-> packs[p].cases]))]

CompositionRecord(base, packs) == [
  base |-> BatchMetadata(base),
  enhancements |-> [p \in DOMAIN packs |-> [packId |-> packs[p].packId, batch |-> BatchMetadata(packs[p].cases)]],
  composed |-> BatchMetadata(ComposedCases(base, packs))]

\* SuiteCompositionRecord.validate_composition, when a record is loaded.
CompositionRecordIsValid(record) ==
  LET upTo[n \in 0..Len(record.enhancements)] ==
        IF n = 0 THEN record.base.count ELSE upTo[n - 1] + record.enhancements[n].batch.count
  IN /\ PackIdsAreUnique(record.enhancements)
     /\ record.composed.count = upTo[Len(record.enhancements)]
=============================================================================
