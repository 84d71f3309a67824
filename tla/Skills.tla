------------------------------- MODULE Skills -------------------------------
(***************************************************************************)
(* Discovery of skill files (internal/agent/tools_skills.go).  A skill     *)
(* file is a record: the directory it lies in ("skills", ".agents/skills"  *)
(* or "." for a SKILL.md in the root), its entry there, whether the entry  *)
(* is a directory with a SKILL.md in it, its format ("yaml" front matter,  *)
(* "plain" headings, "broken"), the name it gives itself or "", and the    *)
(* names of its tools with a script and without one.                       *)
(***************************************************************************)
EXTENDS Naturals, Sequences, SequencesExt, TLC

SkillFile == [dir : {"skills", ".agents/skills", "."}, entry : STRING, nested : BOOLEAN,
              format : {"yaml", "plain", "broken"}, name : STRING,
              scripts : SUBSET STRING, notes : SUBSET STRING]

(* A file without a name of its own is named after its directory; only front *)
(* matter directly in a skills directory falls back to the file's own name.   *)
ParentDir(f) == IF f.nested THEN f.entry ELSE "skills"

FrontmatterName(f) ==
  CASE f.name # ""                              -> f.name
    [] f.name = "" /\ ParentDir(f) # "skills"   -> ParentDir(f)
    [] f.name = "" /\ ParentDir(f) = "skills"   -> f.entry

LegacyName(f) == IF f.name # "" THEN f.name ELSE ParentDir(f)

SkillName(f) == IF f.format = "yaml" THEN FrontmatterName(f) ELSE LegacyName(f)

(* The first file of a name is the skill; a file that cannot be parsed is none. *)
AddSkill(found, f) ==
  IF f.format = "broken" \/ SkillName(f) \in DOMAIN found THEN found
  ELSE [n \in DOMAIN found \cup {SkillName(f)} |-> IF n = SkillName(f) THEN f ELSE found[n]]

(* Well-known directories in their order, each sorted by entry, then SKILL.md. *)
ScanRoot(found, files) ==
  FoldLeft(AddSkill, found,
           FlattenSeq([d \in 1 .. 3 |-> SelectSeq(files, LAMBDA f :
                         f.dir = <<"skills", ".agents/skills", ".">>[d])]))

(* The gateway's own skills come before those of the repository. *)
ScanSkills(gateway, workspace) == ScanRoot(ScanRoot(<< >>, gateway), workspace)
=============================================================================
