--------------------------- MODULE MCYamlBackend ---------------------------
(* Small instances of YamlBackend: five commits, the third of which is      *)
(* broken and the fourth of which has no YAML file.                         *)
EXTENDS YamlBackend

MCBroken == {3}
MCBlank == {4}

\* The clone of GET /resources.
ReadRefs == {"master"}
\* The clone of the new tree in PUT /resources, with or without a COMMIT.
ApplyRefs == {"master", "commit"}
=============================================================================
