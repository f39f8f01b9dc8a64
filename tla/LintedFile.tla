----------------------------- MODULE LintedFile -----------------------------
(***************************************************************************)
(* What the check of a file keeps of it, from its noqa comments to the     *)
(* violations reported (core/linter/linted_file.py). NoQa follows it       *)
(* through the crawls over one tree, LintVariants through the renderings   *)
(* of a template.                                                          *)
(***************************************************************************)
EXTENDS IgnoreMask

VARIABLES
    comments,    \* the comment of each source line
    used,        \* the places of the directives with used = True in the mask
    violations,  \* the violations collected for the LintedFile
    kept,        \* what get_violations returned
    pc           \* how far the check is
=============================================================================
