# A TLA+ verification of sqlfluff

sqlfluff lints SQL files, templated or not, and fixes what it can. This directory
holds TLA+ models of the parts of it whose behaviour over time is hard to see in
the code, TLC configurations that check them on small instances, and TLAPS proofs
of what matters most for every instance. Paths below are relative to
`src/sqlfluff/` in the repository unless they say otherwise.

## The system

A run of `sqlfluff lint` or `sqlfluff fix` goes through these parts.

| part | state it keeps | operations | what makes it correct |
|---|---|---|---|
| configuration (`core/config`) | layered settings of a file | load, merge, override | the nearest layer wins |
| discovery (`core/linter/discovery.py`) | none | paths to files, less the ignored | each file that should be linted is |
| linter (`core/linter/linter.py`, `lint_paths`) | the result, `expanded_paths`, `files_skipped` | linting all files with a runner, writing fixes as results come | every file is settled once, skips are counted, fixes reach the disk |
| runners (`core/linter/runner.py`) | a pool, `skipped_file_count` | sequential, threads, processes | no result lost or doubled; the pool is quiet in the end |
| templaters (`core/templaters`) | the slices of a templated file | render, with variants | source and templated positions agree |
| lexer, parser (`core/parser`) | segments | lex, match | the tree has the text of the file |
| rules (`core/rules`, `rules/`) | the memory of a crawl | `crawl` | (each its own) |
| rule packs (`core/rules/base.py`) | reference map | register, select | selection by code, name, group, alias |
| fix loop (`linter.py`, `lint_fix_parsed`) | tree, `previous_versions`, `last_fixes`, `changed`, first errors | pass after pass in two phases | ends, converges, or gives up and says so |
| fixes to trees (`core/linter/fix.py`) | anchor information | `apply_fixes` | a tree of the edits, or a refusal |
| noqa masks (`core/rules/noqa.py`) | directives and which were used | build, filter, warn | ignores what comments say, warns of the unneeded |
| source patches (`core/linter/patch.py`, `linted_file.py`) | patches of each variant | generate, merge, slice, rebuild | the source with the edits and nothing else, tags whole |
| replacing files (`linted_file.py`, `_safe_create_replace_file`) | a temporary file | write, sync, move, clean up | the file is never torn |
| linted directories (`core/linter/linted_dir.py`) | records, cached counts | add, discard fixes, persist | counts agree with what they were counted from |
| commands (`cli/commands.py`) | the exit code | lint, fix, format, parse, render | the exit code tells what is left |
| plugins, formatters, timing, API | hooks, output | | |
| `sqlfluffrs` | none | lexer and parser in Rust | same as the Python ones |

How they interact: a command calls `lint_paths`; a runner's generator renders files
(in the main process, in the pool's task thread or in the workers) and its workers
lint them; `lint_parsed` calls the fix loop on the root variant and on each
alternate one, merges their patches and makes a `LintedFile`; the main thread adds
it to its `LintedDir` and, when fixing without `--check`, writes it at once. The
fix loop calls every rule, and every error a rule raises goes through the noqa mask;
`get_violations` passes them through it again. The command then reads the counts.

What is hard: threads and processes that finish in any order and share a counter
with the main thread; exceptions, Ctrl-C, fatal errors and killed workers in the
middle of a run; rules that undo each other's work; decisions made on counts cached
before something was discarded; flags (`used`, `changed`) set from several places
and read from another; slices of source computed by half-open intervals; a file
written while others read it. `PROJECT.json` lists the hazards, each at its line,
with the properties that speak of it or the reason why none does.

## The modules

| module | models | state and actions |
|---|---|---|
| `FixPromise` | what `lint_fix_parsed` promises of the file | the version held, those held before, the answer; adopt, finish, give up |
| `FixLoop` | `lint_fix_parsed` | its local variables under their own names; `StartPass` is the head of the loop over passes, `SkipRule` and the five disjuncts of `CrawlRule` the body of the loop over rules, one for each way it can end, `EndPass` what follows it |
| `MCFixLoop` | instance of `FixLoop` | a fixing main rule, a fixing post rule, a rule that only reports |
| `FixLoopProofs` | theorems about `FixLoop` | |
| `ApplyFixes`, `MCApplyFixes` | `compute_anchor_edit_info`, `AnchorEditInfo`, `apply_fixes` | the fixes given, the info of each anchor, the result; `Collect` for each fix, then `Refuse` or `ApplyFixes`, in which `Apply` is the recursion over the tree, `Reform` one round of it |
| `ApplyFixesProofs` | theorems about `ApplyFixes` | |
| `LintPromise` | what `lint_paths` promises of its files | the fate of each file; settle, halt, return, raise |
| `LintPaths` | `lint_paths` and the runners | main thread, task thread and workers, the pool's queues; one action for each thing one of them does between two points where others can see it |
| `LintPathsProofs` | theorems about `LintPaths` | |
| `IgnoreMask` | noqa comments and the class `IgnoreMask` made of them | operators on comments, the reference map and a mask; the loops over the mask as the sets and places they come to. Its last part says what the comments mean, without the mask |
| `LintedFile` | the variables that `NoQa` and `LintVariants` share | |
| `LintVariants`, `MCLintVariants` | a file with several renderings, from `render_string` over `parse_rendered` and `lint_parsed` to `get_violations` | variants, their trees and faults, the mask of the root, the violations; one action per step of the three loops |
| `Matching` | `MatchResult`, and what `match_algorithms` does with segments: skipping non-code, resolving brackets, looking ahead to terminators | operators |
| `Grammar` | the grammars of `core/parser/grammar`, `longest_match` with pruning and the parse cache, `ParseContext`'s terminators | operators that take segments, place, terminators and cache, and return a match and the cache |
| `Parser`, `MCParser` | `Parser.parse`, `root_parse` | the file, the match of the root grammar, the tree; one step parses one file. Its second half says what a grammar means, independently of how it is matched |
| `NoQa`, `MCNoQa` | noqa masks over one file | comments, the mask and its used directives, by their places in the tree, the violations on their way through it |
| `NoQaProofs` | theorems about `IgnoreMask`, `NoQa` and `LintVariants` | |
| `Patches`, `MCPatches` | patches to fixed source | the buffers of the variants, what is still to be merged, the merged patches, the loop variables of the slicing (`source_idx`, the tags left, `slice_buff`), the fixed source as pieces; one action per round of each loop |
| `PatchesProofs` | theorems about `Patches` | |
| `SafeReplace` | `_safe_create_replace_file` | temporary files, the target, what of them is on disk; one action per call that can fail |
| `SafeReplaceProofs` | theorems about `SafeReplace` | |
| `FixCommand` | `sqlfluff fix` after linting | the counters of a `LintedDir`, consent, files written, exit code |
| `FixCommandProofs` | theorems about `FixCommand` | |
| `RuleSelection` | `RuleSet.rule_reference_map`, `_expand_rule_refs`, `get_rulepack` | operators on a register of rules, and what a selection means, stated without the maps |
| `Configuration`, `MCConfiguration` | `FluffConfig`, the loading and caching of its layers, inline directives, the rules selected | config files on disk, a store of the dicts of each config (so that sharing shows), the rules each document was linted with; `FromRoot`, `LintFile`, `LintString`, and `Edit` by a user |
| `ConfigurationProofs` | theorems about `RuleSelection` and `Configuration` | |

`FixLoop` instantiates `FixPromise` and `LintPaths` instantiates `LintPromise`; each is
checked, and proved, to implement its promise. `NoQa` and `LintVariants` extend `LintedFile`, which extends `IgnoreMask`: the
one follows a single mask and what it marks as used, the other filters each variant through its own mask and the report
through the root's. Both can be extended together, as `NoQaProofs` does, for what `LintVariants` defines (`VariantsInit`, `VariantsNext`,
`VariantsSpec`) has other names than in `NoQa`. `Configuration` extends `RuleSelection`, and `Parser` extends `Grammar`, which extends `Matching`. Elsewhere, where one part calls another, the caller
sees the callee's outcomes as a choice (a crawl
may find anything; a file may turn out to be anything; the walk over a tree may
yield any patches), which is what lets each be checked for whatever the rest does.
`ApplyFixes` shows that the outcomes `FixLoop` chooses from are the ones there are: a conflict, an
invalid tree or a tree with the edits.
The mutants that show the properties to depend on the code stand in the modules,
before the definition they replace, each with a comment that says so.

### What is abstracted

* In `FixLoop` a tree is its `loop_check_tuple`; whether and how `apply_fixes` builds one is a choice
  between its outcomes. The order of `rules_this_phase` is that of the pack.
* Errors are a set, with the rule, the version they were found on, whether they carry
  fixes and whether they lie in a templated area.
* `multiprocessing.pool` is external: a task queue fed by a thread that draws from the
  generator, workers, results in order (threads, `imap`) or by arrival (processes,
  `imap_unordered`), and `terminate`, after which nothing starts and processes are gone. A `terminate` that Ctrl-C
  cuts short may stop the pool at any later time or never.
* noqa comments are of a form (none, bare, malformed, with an action and references);
  globs and regular expressions are left out. A source line has one comment at most.
* Replacement texts are model values. The fixed source is a sequence of pieces: a slice of the source and the
  patch put in its place, if any.
* A file of `FixCommand` has at most one violation of each kind (fixable or not, warning
  or not): the counters add up over files, and two files are enough to mix them. Which files `lint_paths` delivers is a
  choice: an internal error or a swallowed Ctrl-C drops any of them, a fatal violation halts the loop.
* Files of `SafeReplace` are contents: the original, what a fixer writes, or torn.
* In `ApplyFixes` a raw segment is its text, and whether an edited segment parses again is an
  arbitrary set of segments that do not. What an edit brings is its text, and whether it is one segment with the `class_types` of
  the anchor (`alike`), which the code does not validate. Metas, positions and uuids are left out.
* In `LintVariants` a variant is the sequence of the source lines it renders, a violation a line and a
  code, and what parser and rules find there is arbitrary. The report is sorted by line, stably: positions in a line
  are left out. Fixing is left to `FixLoop` and `Patches`.
* In `Configuration` a value is known by its source and the version of that file; the config files of one directory
  are one layer. A list of rules is the set of its references, a glob the references it matches.
* In `Grammar` a segment is its raw, and terminators, brackets, delimiters and excluded patterns are single raws. An
  element has the defaults of the code for what it does not set; `OneOf`, `AnySetOf` and `OptionallyDelimited` are the
  grammars they derive from with other settings, a `Conditional` is its meta where it is enabled. Limits on depth
  and on nodes are left out, and so are `PrecededByMatcher` and typed and regular expression parsers, which match one segment as
  a string parser does. `Sequence` is modelled as written: it does not hand its own terminators down
  and does not look at `reset_terminators`, although its base class takes both. Indices count from 0 as in the code.

## The runs

| run | module | what it shows | bounds |
|---|---|---|---|
| `fixloop` | `MCFixLoop` | the loop ends, only moves forward, converges or gives up cleanly, and reports once | 3 rules, 4 versions, 2 fix lists, 1 error a crawl, `RunawayLimit` 2 |
| `lint_paths` | `LintPaths` | each file settled once; skips counted; fixes written; pool quiet unless Ctrl-C hit its closing; ends | 3 files, 2 workers, 1 killed worker, Ctrl-C in the loops and again in the closing |
| `noqa` | `MCNoQa` | what is kept is what the comments say; unused comments are redundant | 3 lines, 1 rule and the parser, 2 violations, 4 renderings: in order, a loop, out of order, a line left out |
| `patches` | `MCPatches` | the fixed source is the patched source, tags whole, nothing lost but to a collision | 5 characters in 4 slices, 2 texts, 2 variants, 3 patches |
| `safe_replace` | `SafeReplace` | where files can be renamed the target is never torn; a temporary file is left only by a fault in one of two places | 2 fixers, power loss, kills, Ctrl-C and failures at any step, in the clean-up too |
| `fix_command` | `FixCommand` | unparsable files untouched; consent; what the exit code tells of the files delivered | 2 files of every kind, any of them fatal or never delivered, 3 modes |
| `apply_fixes` | `MCApplyFixes` | the result is the text with the edits; the raws of unparsable sections stay but for replacements of the same class; valid means parsed again; source fixes are all kept | 4 trees of up to 4 inner segments, 2 fixes of every type at every anchor, with raws or a segment of its class, any segments failing to parse |
| `apply_fixes_brackets` | `MCApplyFixes` | *violated*: within brackets a failed reparse is forgotten | the same |
| `lint_variants` | `MCLintVariants` | reported is what was found and not ignored, once; other variants only add | 3 templates of 2 variants over 3 lines, 2 comments, 1 error and 1 fault a variant, limits 1 and 2 |
| `configuration` | `MCConfiguration` | the nearest source wins; one reading of each file; configs do not leak into each other; a file's rules are those it asks for | 5 directories, 3 working directories, 2 registers, any 2 settings in files or overrides, 1 edit, 2 documents |
| `parser` | `MCParser` | nothing is lost or claimed twice; no assertion fails; what parses cleanly follows from the grammar; pruning changes nothing, nor does the cache where it gives what was made for the same; indents balance | 6 dialects of 7 to 15 grammars, all files of up to 4 or 5 phrases of 3 to 9 |
| `parser_pairs` | `MCParser` | *violated*: optional delimiters make an assertion fail | 1 dialect, up to 5 of 3 raws |

The type invariants of `FixLoop`, `LintPaths`, `SafeReplace`, `Configuration`, `NoQa`, `LintVariants` and `ApplyFixes` are proved (below) and are not
among the properties of their runs. That of `Parser` says what each variable
holds, for the reader; the runs are kept to what is about the code. `TypeOK` of `Patches` (patches stay sorted) and
of `FixCommand` (counters agree with the files) say more than types and are checked.

Why the bounds are enough to be of use. In `fixloop` a main pass may change the file in
each of two loops, so that the limit is met both with a stable file and with one still
changing, the post phase is entered and itself runs into its limit; four versions allow
three changes, one more than a phase's limit, and two fix lists tell the same fixes
again from others. In `lint_paths` three files and two workers give reordering,
a queue that is waiting, and a file that is still being worked on when another is
fatal; Ctrl-C may come while files are drawn, results awaited or files written, in the clause that
reports it, and during `terminate` and `join`. In `noqa` three lines give a disable, an enable and a violation in any order.
In `patches` there are tags with literals and templated source between them, and
three patches are what it takes for one to be dropped for a conflict with one variant
and another kept beside it. In `fix_command` two files are needed for one of them to
discard what the other must not; the third would repeat one of the two. In `apply_fixes` two fixes
meet at one anchor, at siblings, or above one another, and two are what it takes to condense source fixes; the trees have
whitespace that an edit leaves at an end, brackets without a grammar, an unparsable sibling, and a segment that parses within
an unparsable one. In
`lint_variants` the branches share a line, before or after them, so that a comment stands in one branch, in
the other or in both; a first rendering that is empty gives a root that fails or has nothing to say. In `configuration` two settings
are what it takes for one source to override another; the documents are a file with and one without
directives below the working directory, a file outside of it and a string; the second register has
names, groups and aliases that are codes or names of other rules. In `parser` each dialect has constructs of the
bundled ones where the code is delicate: a greedy clause inside brackets that are greedy themselves, a choice that resets terminators, a list
with a trailing delimiter, options in any order with a greedy value, an element that a keyword may not start, indents beside templated
blocks, one grammar matched at one place with two ends and again by its copy, one matched at one place under two sets of terminators. A phrase is one raw, or a few that only make sense together, so that
four of them reach a nested statement; the files are all that can be put together, most of them not in the
language, and about a tenth parse cleanly.

The runs marked *violated* each check one sentence of a comment or of the documentation
against the code and find that the code does otherwise; `PROJECT.json` quotes them under
`findings`:

* in a segment without a grammar (brackets), `apply_fixes` forgets that a child failed to parse if the last child
  is fine, so that the fix counts as valid without the check its docstring promises; this is a bug
  of the code, not only a divergence;
* `OptionallyDelimited` keeps the last delimiter and appends it a second time where the next one is missing: the
  parse ends in an `AssertionError`; this is a bug of the code too.

Findings without a run, each met while modelling and quoted in `PROJECT.json`:

* the parse cache gives out a match that was found under other terminators. TLC reaches such files: in `MCParser`'s dialect
  `terms`, `a b` parses completely without the cache, and has an unparsable section with it. `CacheIsTransparent` is
  stated of the files where this did not happen (`mixed`), and says that nothing else of what the key leaves out matters.
  A grammar and its modified copy share their key too (`BaseGrammar.copy` keeps it), but no bundled dialect has
  both among the options of its choices;
* `longest_match` does not prefer clean matches to unclean ones;
* a greedy sequence that runs out of segments adds metas to its unparsable section;
* `lint_string` chooses the rules before it reads the string's inline directives;
* with `disable_noqa_except`, a range directive left without references disables
  everything;
* the errors that `fix` reports come from a tree earlier rules of the pass have changed;
* `files_skipped` misses the files that a templater skips;
* `warn_unused_ignores` warns of needed comments in template loops;
* `fix -` exits with 0 though it discarded the fixes of a file with an ignored parse error;
* `fix` can exit with 0 with files that were never delivered, for an internal error or a Ctrl-C that the runner swallowed;
* it can exit with 0 although the fixes of a file came to nothing, or were never written because of a fatal violation: `lint_paths`
  does not look at the result of `persist_tree`. `ExitTellsLeftovers` has these two as its exceptions and no other;
* warnings whose fixes are discarded make `fix` exit with 1;
* the working directory's config is not among the layers of files outside of it;
* `apply_fixes` does not hand `fix_even_unparsable` on, and applies replacements by a segment of the same class in unparsable
  sections, or of a segment that holds one, without it (the exception in `UnparsableKept`), and edits to segments that stand inside one and parse again by themselves (so that `UnparsableKept` is about
  the raws directly in a section);
* a branch's own `noqa: enable` has no effect against a `disable` in the root variant's mask.

Smaller ones: where files cannot be renamed over one
another, `shutil.move` copies over the user's file, which a failure then leaves torn, against the
comment at `linted_file.py:421-423` (`SafeReplace` has this behaviour, and `TargetWhole` excepts it); giving up
(`linter.py:699`) returns errors of templated areas that `ignore_templated_areas` asks to leave out; post rules
run in every main pass, not only in the first (`linter.py:507-509` against 532-535); inline directives win over
the overrides, which `fluffconfig.py:67` says take precedence over all other values; and directories between the home
directory and a file are searched although the working directory is not below home
(`docsv/configuration/index.md:171-173`).

### Fairness

Liveness is checked of the fix loop and of `lint_paths`. The fix loop is sequential
code that never waits: weak fairness of its step. In `lint_paths` the main thread, the
task thread and each worker are scheduled by the operating system and hold no lock while
another waits for it in the model: weak fairness of each. Nothing is assumed of Ctrl-C,
of killed workers, or of what a file turns out to be. `Termination` of `lint_paths` is
stated for runs in which no worker process is killed: the pool replaces the worker but
not its task, and the run then waits for a result that does not come. It excepts too a Ctrl-C that hits the closing:
if `terminate` is cut short, `join` may wait for a pool that nothing stops. `QuietEnd` says what can be said of the end: a return, and an exception
other than a Ctrl-C in the closing, leaves no pool behind.

## The proofs

`FixLoopProofs` proves of `FixLoop`, for every rule pack, set of versions and limit
that satisfy the module's assumptions (a `runaway_limit` of at least 1, which
`core/config/validate.py` enforces; a pack of rules; distinct special values):

* `TypeCorrect`: `TypeOK` is invariant;
* `FixedFilesAreStable`, `EveryRuleHasReported`, `RunawaysAreUnfixable`: the safety
  invariants of the run `fixloop`;
* `ReportIsFrozen`: the action property;
* `LoopImplementsPromise`: `FixLoop` implements `FixPromise`, under the refinement mapping
  that takes `current` to `tree` and `seen` to `previousVersions`.

None of the invariants is inductive. `TypeOK` needs that only errors of rules carry fixes
(`NoqaInv`), for `Runaway` leaves other errors alone. For the others the
invariant is `Invariance`: besides those two, `ControlInv` (only fixing leaves the first
pass, and the rules of the first pass are the whole pack although the phase is the main
one), `VersionInv` (a change means the tree is not the one handed in, which is what makes
giving up a step of the promise; it holds because a version adopted was never held
before), and `PassInv`: halfway through a pass, the rules *before* `idx` have reported, in
a first pass, or are content with the tree, in a post pass that has not changed it. At the
end of a pass `idx` is past the pack and `PassInv` becomes the property. The proof of a
step has a case for each action and, in the cases of crawls, rests on `CrawlRuleCases`,
which reduces the five outcomes to what the invariant can tell apart.

`SafeReplaceProofs` proves of `SafeReplace`, for any number of processes that fix one file:
`TypeCorrect`, `TargetIsWhole` and `OrphansAreRemoved`. The last one says where an orphan can come from: the variable `hits` remembers
at which step each call failed or was interrupted, and a call that left its file was hit before it had kept the name, or while cleaning up. The assumptions are that the texts, the
torn content and the absent file are distinct. `TargetWhole` speaks of the target only; what
makes it inductive is `TempInv` (by the time a call is about to rename its temporary file, that
is complete, synced and of the right permissions), `RenameInv` (nothing is copied where files
can be renamed) and `DiskInv` (every file a power loss might bring back is durable, not just
the one seen now).

`LintPathsProofs` proves of `LintPaths`, for any number of files, any finite set of workers and any
number of killed ones: `TypeCorrect`, `SkipsAreCounted`, `PoolIsQuiet`, `FixesAreWritten` and, with the mapping of
`found` to the promise's fates, `LintPathsKeepsPromise`. What the properties rest on is where a file
is once the generator has yielded it: `FlightInv` and `DistinctInv` say that every task in the queue, with a worker or among
the results stands for a file that is not settled and that no two stand for the same; `CoverInv` that while results
are taken an unsettled file is one of those, unless a worker was killed; `TallyInv` that the tasks
issued are those plus the taken and the lost. Together they give that a loop which ends by
itself has settled everything (`TakeEnd` counts results, not files). `FateInv` ties the counter of skipped files to the fates,
whichever thread counts, `PoolInv` and `ControlInv` say what may still run in each stage (after a Ctrl-C in the closing, anything), and
`DiskInv` what was written so far. `FaultInv` is about the generator's own failure, which takes a place in the
pool without being a file.

`FixCommandProofs` proves of `FixCommand`, for any set of files: `UnparsableStayUntouched`, `WritesWait`,
`CountersAgree` and `ExitCodeTells`, the last of the files delivered. `MapInv` says that the map of unfiltered errors marks the files that did not parse, among those
delivered; `DiscardInv` that after `_handle_unparsable` these have lost their fixes; `StageInv` where
the command can be with which answer. The last two theorems rest on `CountingInvariance`: the counters are
cardinalities of sets of files and violations (`CountInv`), which grow by one file's at a time; what was written follows
from the files linted so far (`WriteInv`); and an exit code of 0 says what was seen on the way (`AskInv`, `ExitInv`).

`NoQaProofs` proves of `NoQa`, for any number of lines and violations, any comments and references and any rendering:
`TypeCorrect`, `CommentsDecide` and `UnusedCanGo`. The heart is not the steps but the mask: `IgnoredAsAsked`
shows that the directives of a rendering, passed in the order of lines, ignore a violation exactly if the comments
rendered ask for it, and `UsedSuffice` that whatever the mask ignores it also ignores with the used directives
alone. Both rest on there being a first and a last element of a set of directives (`FirstExists` and its kin, from
the well-foundedness of the naturals). `Inv` then says that each violation is in the report, on its way, or dropped
because the mask ignores it (`ListInv`), and that the directive that ignored it is marked (`MarkInv`), in whatever
order the crawls find them.

The lemmas about the mask are about any comments, any sequence of lines and the mask made of them, so that they serve the
several masks of `LintVariants` too, of which `NoQaProofs` proves, for any template, number of variants, limit, errors and faults:
`VariantsTyped`, `CommentsDecideVariants` and `AlternatesAdd`. The invariant, `VariantsInv`, says what the list of violations
holds (`ListedInv`: the templater's errors, those of the root, and what each variant linted so far had left by its own mask; without a
root the errors of all variants and the malformed comments of the source), which mask is the file's from when on, and that what the
mask lets through is kept once (`KeptInv`). It is about lists, which the code concatenates, flattens, deduplicates and sorts:
`FlattenedAre`, `FirstsAre` and `SortedAre` say that nothing is lost or made up on the way, the last one by ranking places in the
list by how many come before them (`Ranked`). At the end a violation has been through the mask of the variant it was found
in and that of the root. `MasksAgree` shows where the two ask for the same as the comments of the whole source: everywhere if
range comments are shared (the hypothesis `RangesAreShared` of the property itself), for a comment on a line is read by every
variant that has a violation there, and a malformed one is no directive. `AlternatesAdd` needs no such hypothesis.

`PatchesProofs` proves of `Patches`, for any source, any raw slices of it, any number of variants and whatever their
trees yield: `TypeCorrect`, `FixedIsPatched`, `TagsStay` and `NoPatchIsLost`. `MergeInv` says that the merged patches
are sorted, all certain and free of overlaps, and that each patch taken from the buffers shares its slice with a merged one or
overlaps it. `SliceInv` is about the slicing: the slices so far tile the source up to `source_idx` without a repetition
(`Chain`); a tag still ahead has not been reached into (`TagsInv`), which is so because a patch that
`generate_source_patches` keeps covers no tag or is a source fix of exactly that tag (`CertainSparesTags`); and a patch that was
passed over is an insertion strictly inside one that was cut out (`Handled`): it is what makes the branch whose comment
says "this shouldn't happen" safe. It needs `AtInv`, that what was cut last is a patch or a tag before the patches left.

`ConfigurationProofs` proves of `RuleSelection` `RulepackIsAsAsked`: for every register in which a code is registered once, and every
two lists of references and globs, what `get_rulepack` computes by merging maps and expanding over
the merged keys is what the references mean one by one under the documented precedence. The run
`configuration` uses the same reference definition for the configs it builds.

It proves of `Configuration`, for any directories and their ancestry, files, strings, directives,
lists and registers: `TypeCorrect`, `ConfigsAreIsolated`, `ReadingsAgree`, `RulesAreAsConfigured` and `NearestSourceWins`. It assumes that
documents, layers and the other sources are distinct (`SourcesAssumption`). `Isolation` is not
evident from any one step: an assignment to one config reaches whoever holds the same dict. The invariant therefore has `Sound` (a config that was made
holds sections of its own, so that a directive reaches one config), `Readings` (a value from a layer is in the store only
once that layer is cached, so that loading a layer never adds a second version of a value some config already holds),
`SplitInv` (the lists of each config are those of its values, after directives too) and `PackInv` (a file has the rules of its
lists). `RulesAreAsConfigured` then follows with `RulepackIsAsAsked`. `NestedCombine` picks the last part that sets a key with a
`CHOOSE`; `BoundedHasLargest` shows from the well-foundedness of the naturals that there is one, and `CommonPathIsAPath`
likewise for the common path of two directories. `NearestSourceWins` needs a second invariant, `OrderInv`: where two sources of a
config set one key, its value is of the later in the order of layers. It is kept by each `NestedCombine`, as long as what is
combined are runs of sources one after the other (the layers, the overrides, the directives), and by the caches, which hold
what a layer said when it was read.

`ApplyFixesProofs` proves of `ApplyFixes`, for any trees whose segments have their places (`TreesAssumption`), any fixes of
them and whatever fails to parse: `TypeCorrect`, `SourcesAreKept`, `ValidIsReparsed`, `TextAsEdited` and `UnparsableStays`. The
steps are few: `GatherInv` says that what is known of an anchor is about it and has the sources of each source edit told of
it, in the first replacement there (`AddKeeps`), and `ResultInv` that a result is that of the recursion. What has to be shown is about the
recursion, for trees of any depth. A theorem of induction that takes an operator cannot be instantiated here, so induction
goes through sets: `TreeInduction` says that a set of segments which has a segment whenever it has those of its children is
all of them, from heights and the well-foundedness of the naturals, and `SeqInduction` the same for the prefixes of a sequence
(for `FlattenSeq`). `TreeRecursion` builds, height by height, the function that a recursive definition on the tree asks for, which
makes `BelowIs`, `ContentIs` and `ApplyIs` facts to unfold. Each theorem then has one step of the induction:

* `TextAsEdited`: what a segment's result holds, with the non-code that leaves it at either end (`Full`), is its content with the
  edits carried out (`FullStep`), but below a segment that gave up none are. Which edits those are depends on the segments above only,
  for a segment has one parent (`ContentLocal`);
* `ValidIsReparsed`: a valid result leaves unchecked only segments that have one without a grammar around them, or are one
  (`CheckedStep`): everywhere else a child that failed makes its parent parse again;
* `UnparsableStays`: on the way from an unparsable section to the root every segment keeps the raw, gives up, or is replaced by a segment of its
  class, which then stands in the text whole (`KeptStep`; `BelowBelow` says that the raws below a segment below another are below that one).

Only model-checked: liveness (out of the prover's reach), and the invariants of the parser, whose operators in `Parser`,
`Grammar` and `Matching` are declared RECURSIVE: they call each other for as long as the grammar says, which no function on a set known
beforehand follows, and the prover has no SMT backend in modules with such operators.

## Not modelled

`PROJECT.json` lists every component with its status. Left out for good: the rules,
dialects and reflow (large bodies of data and of pattern matching; the models hold whatever
they do), file discovery and formatters (input and output), plugins, timing, the API
and the Rust port. The dialects alone are some two thirds of the implementation's lines: they are grammars,
data that the parser interprets, and a share of lines covered by models stays small for that reason.
Templaters and the lexer turn text into slices in one pass; their results are inputs of the
models. The parser is modelled over small dialects of its own; what the rest of the system relies on, a tree or
none and sections marked unparsable, stays an arbitrary input of `LintVariants` and `ApplyFixes`.

## Plan

Done: the fix loop with its promise and proofs; applying fixes to trees, with proofs; `lint_paths` with its promise and
proofs; variants, with proofs; noqa, with proofs; patches, with proofs; replacing files, with proofs; the fix command, with
proofs; configuration and rule selection, with proofs; the parser.

What would come next, in this order:

1. `ApplyFixes`: metas and positions, and the refinement of the outcomes that `FixLoop` chooses from.
2. `ignore` and `warnings` in `LintVariants`, which mark violations before they are deduplicated.
3. Pure algorithms over bounded inputs: `templated_slice_to_source_slice`, positions in `MatchResult.apply`.
4. In `Grammar`: terminators and exclusions that are grammars themselves, and `PrecededByMatcher`.
