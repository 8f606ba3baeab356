----------------------- MODULE MC_ManifestAggregation -----------------------
(***************************************************************************)
(* Model-checking instance of ManifestAggregation: every Vec of at most    *)
(* two permission files built from two identifiers (one of them the        *)
(* reserved "default"), a description that may be absent, and files with   *)
(* up to two inline permissions (so a file can repeat an identifier) and   *)
(* one set.                                                                *)
(***************************************************************************)
EXTENDS ManifestAggregation
LOCAL INSTANCE SequencesExt

MCIdentifiers == {"allow-read", "default"}
MCDescriptions == {"d1"}
MCBodies == {"b1"}

MCMembers == {<<>>, <<"allow-read">>}

PermissionChoices ==
  [identifier: MCIdentifiers, description: MCDescriptions \cup {NoValue},
   body: MCBodies]

SetChoices ==
  [identifier: MCIdentifiers, description: MCDescriptions,
   permissions: MCMembers]

DefaultChoices ==
  {NoValue} \cup [description: MCDescriptions \cup {NoValue},
                  permissions: MCMembers]

FileChoices ==
  [default: DefaultChoices,
   set: BoundedSeq(SetChoices, 1),
   permission: BoundedSeq(PermissionChoices, 2)]

MCInputFiles == BoundedSeq(FileChoices, 2)

MCSchemas == {NoValue}
=============================================================================
