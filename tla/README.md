# A verification model of xml-oxydizer

`xml-oxydizer` validates XML files in one forward pass. A program declares,
once, a *descriptor tree*: which elements it expects, which rules to run on
each, and whether an element is read in *streaming* or in *capture* mode. For
every file the parser runs the rules of each declared element when the element
closes and sends their diagnostics on a crossbeam channel; a rayon pool
validates files side by side.

This directory holds TLA+ modules translated from the Rust sources under
`src/src/`, TLC configurations that check them on small instances, and proofs
for TLAPS. `PROJECT.json` maps every definition to the lines it models.

## The system

| component | state it keeps | operations | meets the others through |
|---|---|---|---|
| `tree/builder.rs`, `tree/descriptor.rs` | the declarations, the cursor `parent_stack`, the capture limit; then an immutable tree | `new`, `streaming`, `capture_subtree`, `rule`, `node`, `done`, `capture_limit`, `build`; `child_of` | the tree, shared by all parsers through `Arc` |
| `reader/parser.rs` (event loop), `reader/context.rs` | stacks of contexts, descriptors and sibling counters, two pools, the mode, `skip_depth`, the diagnostics buffer; all local to one call | one handler per tokenizer event | events from quick-xml, rules through a view, diagnostics by `Sender::send` |
| `reader/capture.rs` | stack of `BuildNode`s, bytes used | `start_element`, `end_element`, `text`, `finalize` | owned by the parser's `Capturing` mode |
| `macros.rs` | none; an expansion is a chain of builder calls | `build_tree!` | calls of `TreeBuilder` |
| `view.rs`, `rule.rs` | the packed results of an element's rules; the stack of a running subtree query | what a rule may ask of an element, its ancestors, its closed children, its subtree | built by the parser for the duration of one evaluation |
| `pipeline.rs` | the files to do, the errors so far | `run_pipeline`, `run_pipeline_streaming`, `process_file` | rayon workers, the channel of files, the channel of diagnostics |
| quick-xml, rayon, crossbeam, the rules, the caller | external | | |

What is hard in it:

* the parser is one loop over four modes of bookkeeping (streaming, skipping an
  undeclared subtree, capturing, outside any element) whose state lives in
  parallel stacks, popped in two places and pushed in one, and in counters that
  would underflow if an end tag were handled in the wrong mode;
* rules see *other* elements: ancestors still open, children already closed.
  What is kept for them is decided ahead of time from the `needs` flags;
* contexts and counter maps are recycled;
* results of rules are packed in one word, which a node with many rules exceeds;
* the macro expands by a dozen arms, which must agree on where `done()` goes;
* diagnostics are buffered over elements and lost on an error return;
* workers send on a bounded channel, inside the call that the caller waits for.

The `hazards` of `PROJECT.json` name each of these at its line, with the
properties that cover it.

What makes each component correct: for the *builder*, that the tree is the one
the chain of calls reads as, that `build` returns each of its errors exactly when it documents it and
that every piece of data some rule may read is flagged as needed; for the
*parser*, that the rules of every element on a declared path and outside
captures run once, at its close, on a view that agrees with the document, and
that an accepted document's diagnostics all arrive in order; for the *capture
buffer*, that it holds the subtree and never more than the limit; for the
*pipeline*, that every file is validated once, none disturbs another, the call
returns, and the receiver can tell that it has everything.

## Modules

| module | models | uses |
|---|---|---|
| `DescriptorTree` | `build()` as operators (checks, needs, summary needs), `child_of` | |
| `TreeBuilder` | the fluent chain as a state machine; the order of siblings and the bisection in `child_of` | `DescriptorTree` |
| `Nesting` | the places in something nested: captured elements, the text of a macro | |
| `BuildTreeMacro` | `build_tree!`, expanded item by item into calls of the builder | `TreeBuilder`, `Nesting` |
| `Capture` | `CaptureBuilder` | |
| `Views` | `NodeAccess` as `StreamingViewOwned` and `SubtreeView` implement it; the rules as an arbitrary choice of diagnostics | |
| `RuleResults` | the packed word as the set of its bits, its width a parameter; used by the parser and by the loop over the rules | |
| `RuleEvaluation` | the loop over an element's rules, which `Parser` takes in one step; the subtree queries and their iterator | `RuleResults`, `Views`, `Nesting` |
| `CaptureMemory` | what the memory limit of a capture promises, over the document | `Parser` |
| `XmlDocument` | quick-xml: the document read so far, as its open elements | |
| `DocumentValidation` | *abstract specification*: what validation of one document promises, stated over the document alone | `DescriptorTree`, `XmlDocument`, `Views` |
| `FileOutput` | *abstract specification*: what the receiver is promised of one file's diagnostics | |
| `Parser` | `parse_file` / `parse_slice`: every event arm and handler | `Capture`, `DescriptorTree`, `DocumentValidation`, `FileOutput`, `RuleResults`, `Views`, `XmlDocument` |
| `Pipeline` | workers, both channels, producer and receiver | |
| `PipelineOutput` | one file of the pipeline, `Watched`, as the receiver sees it | `Pipeline`, `FileOutput` |
| `SequenceFacts` | lemmas on sequences and positions, and induction over the natural numbers | `Nesting` |
| `ParserProofs` | types and stacks of `Parser`; `Parser` implements `FileOutput` | `Parser` |
| `ContextProofs` | contexts, pools and the capture buffer follow the document | `ParserProofs` |
| `ValidationProofs` | `Parser` implements `DocumentValidation`; the limit of a capture | `ContextProofs`, `CaptureMemory` |
| `TreeBuilderProofs` | theorems about the builder, called by hand and by the macro | `BuildTreeMacro` |
| `RuleProofs` | theorems about `RuleEvaluation` | `RuleEvaluation` |
| `PipelineProofs` | types of `Pipeline`, and what its return means | `Pipeline` |
| `DeliveryProofs` | what the receiver gets; `Pipeline` implements `FileOutput` for each file | `PipelineProofs`, `PipelineOutput` |
| `MCParser`, `MCTreeBuilder`, `MCRuleEvaluation`, `MCPipeline` | instances for TLC; `MCParser` also states what the repository's comments promise and the code does not keep | |

### Reading Parser

One step of `Parser` is one tokenizer event with its whole handler. The
variables carry the names of the locals of `parse_file`. `selfclosing` is the
program point between the two handlers of `<a/>`. Three variables belong to the
specification and not to the program: `doc` is the document read so far,
`events` counts events, and `observed` shows the view on which the step ran
rules, if it ran any. In `doc`, `evaluated` records the verdict on each closed
child whose rules ran.

`HandleStart` and `HandleEnd` are disjunctions with one case per path through
`handle_start` and `handle_end`; the error paths of the former are
`StartFails`. An error return leaves the locals unchanged and sets `status`,
since nothing reads them any more. A step that runs rules takes any sequence of
at most `MaxDiags` diagnostics in the order of the rules; rules that panic are
left out. Which rules stayed silent (`Passed`) goes into the child's summary as the
packed word (`Packed`, of `Width` bits, wrapping like a build without overflow
checks), and into `doc` as the exact set: that a rule reading the word reads the
truth is something to show, and needs `RulesFit`, no declaration with more rules
than the word has bits. `view.rs:6` documents that limit ("up to 64 rules on a
single element"); `build()` does not check it.

Abstracted: text is a sequence of pieces (one per Text event), an attribute is
one name, a rule is the set of flags it needs, counters are functions from
hashes instead of association lists, sizes are units, `NodeId`s count from 1.
Names and text that are not UTF-8 are the value `Garbled`, which only
`parse_file` can meet after its start, as `parse_slice` decodes the whole input
first and may return `Utf8` before any event.

quick-xml checks that an end tag matches the innermost open element. It reports
neither unclosed elements at the end of the input nor a second outermost
element; `Eof` is therefore enabled at any time, and several outermost elements
may follow each other. It may fail anywhere (`TokenizerError`).

### DocumentValidation and the refinement

`DocumentValidation` has no stacks, counters, modes or pools. An open element
is declared if there is a node with its path; it is `Visible` if it is declared
and no element above it is captured. A visible element's close runs its rules on
a view that must *show the element* (tag, path, index among its same-tag
siblings, and the attributes, text, subtree or children that its needs name,
each child with the exact set of its rules that passed)
and *show its ancestors* as they are at that moment; nothing else is ever
evaluated. What has been delivered is always a prefix of what the rules have
produced, and all of it when the document is accepted. `Parser` maps the
produced diagnostics to `sent \o diag_buffer` and the delivered ones to `sent`,
and states the specification as its property `ValidatesDocument`.

The specification states three choices of the code that a reader may not
expect: declarations below a captured element are never evaluated, a document
is accepted wherever its input ends, and character data outside of Text events
(`OtherText`) shows up nowhere.

### FileOutput, where Parser and Pipeline meet

`Pipeline` does not contain `Parser`: the product would be out of reach, and
what the workers share is only the output. `FileOutput` is that output: what
the rules of one file produced, what of it was delivered, and the verdict.
`Parser` implements it (`DeliversInOrder`) with `sent \o diag_buffer` and
`sent`. `Pipeline` implements it for each file (`FileAsAlone` of
`PipelineOutput`), with what was reported of the file as produced and its
diagnostics picked out of `received \o channel` as delivered. So nothing that
`Pipeline` leaves out of a file matters to what the receiver is promised, and
nothing that the other files do. The file is the constant `Watched`: TLC checks
one, the theorem `EachFileAsAlone` is for any. The receiver must stay: one that
leaves is promised nothing.

### Reading RuleEvaluation

One step is one call of the iterator, one diagnostic buffered, or the end of a
rule. A captured element is a set of positions: a node is known by the numbers
of the children that lead to it, so that `StartsBefore`, the order of the start
tags in the document, compares two positions and walks nothing. `WalksDepthFirst` says
that at every step of a query the nodes visited come before all others, and that
what was found is what the query asks for of them, in that order.
`AsOneStep` relates the end of the loop to the step `RunRules` of `Parser`: the
same diagnostics in the order of the rules, the same packed word, the
same remainder in the buffer. `ResultsPacked` says what a parent's rule reads
back from the word: with at most `Width` rules the exact result, beyond that a
panic in a build with overflow checks, and a bit shared by the rules that are
equal modulo `Width` in one without. The rules are external: they are those that
report on what `find` and `find_all` yield.

### Reading BuildTreeMacro

The text between the parentheses is its items by position, as in
`RuleEvaluation`: the root is `<<>>`, and `Append(p, i)` is the `i`-th item in the
body of node `p`. An expansion is a list of owed calls, `pending`: expanding a
child calls `node` and puts its mode, its body and a `done` before the rest, as
the arms of `@items` do. The specification includes all chains written by hand
(`Chain`), so one run checks both. `MacroBuilds` expands nothing: it finds the
declaration of a node by counting the nodes that start before it in the text
(`Place`), and says what must be declared there.

### Reading Pipeline

Each worker takes a file (`Take`), then reports diagnostics, flushes, and
accepts or rejects. `Flush` is one `send` of `flush_diagnostics`: it waits while
the channel is full and discards when the receiver is gone. `Return` is the
return of the parallel iterator and drops `diag_tx`. `Entry` chooses between the
two functions: a batch is handed out in any order, a channel in its own.
`Consumer` is what the caller does with the receiver: read concurrently, read
after the call, or read and then drop it. `buffer_diagnostic` and the drop of
the buffer on an error are those of `Parser` with the document left out. A
rendezvous channel (capacity 0) is outside the model.

## What the runs check

All `pass` runs check deadlock too: the only end is the stuttering `Returned`,
`Over` or `Consumed`.

| run | bounds | shows |
|---|---|---|
| `parser_structure` | `parse_slice`, 3 tags, 6 events, 3 trees, buffer of 2 | `StackInv`, `ContextsFollowDocument`, `PoolsBounded`, `ValidatesDocument`, `DeliversInOrder` |
| `parser_data` | `parse_file`, 2 tags, 5 events, 2 trees with a limit of 9 units (nodes of 2, attributes and text of 1), legible, garbled and malformed attributes, legible and garbled text | `TypeOK`, `CaptureFollowsDocument`, `CaptureBudget`, `ValidatesDocument` |
| `tree_builder` | 3 tags, 4 declarations, 1 rule; macros of 2 tags with up to 3 items below the root | `TypeOK`, `CursorIsPath`, `Accepts`, `NeedsCovered`, `BuildsTree`, `LookupByPath`, `MacroBuilds` |
| `rule_evaluation` | words of 2 bits, up to 3 rules of 4 kinds, up to 3 nodes below the root, buffer of 2 | `TypeOK`, `WalksDepthFirst`, `ResultsPacked`, `AsOneStep` |
| `pipeline_batch` | 3 files of up to 3 diagnostics, one of them watched, 2 workers, buffer of 2, channel of 1 | `TypeOK`, `OnePlace`, `Delivery`, `FileAsAlone` |
| `pipeline_streaming` | 3 files of up to 2 diagnostics, channels of 1, a receiver that may leave | `Complete`, `ArrivedIsValidated`, `Returns`, `IterationEnds` |

Why the bounds are enough. Six events hold every combination of two levels with
two siblings, and three nested levels; the trees have a declaration with the
tag of the root two levels down, a captured element among streaming siblings, a
captured root with a declaration below it, and (in `parser_data`) one where
nothing is asked for. A buffer of 2 is filled, flushed and left with a rest. In
`parser_data` a capture can reach its limit exactly and pass it by an element,
an attribute or a piece of text. Four declarations give three nested levels
below the root and three siblings to bisect, and a rule that needs the subtree on a node of either mode, alone
and together with a repeated path or a nested capture; three items put a rule before,
after and inside a child, last or not. The words of the parser's runs have two bits,
and a node of two rules uses both. Three rules are one more than a word of
two bits holds; three nodes below the root make a tree in which breadth-first,
reversed and depth-first order all differ. With a channel of 1 and a buffer
of 2 every flush blocks; with three files on two workers a worker takes a
second file while another is in mid-flush.

Runs that end in a violation each refute one statement of the repository:

| run | statement | what the code does |
|---|---|---|
| `parser_below_capture` | `descriptor.rs:59`, rules are "evaluated at element close" | rules declared below a captured node never run, and `build()` accepts them |
| `parser_capture_summaries` | `IMPROVEMENT.md:513`, `children_summaries()` works "in either mode" | a captured element's view has none |
| `parser_streaming_memory` | `builder.rs:45`, `README.md:297`, "O(depth) memory" | a context keeps one summary per closed child until it closes, asked for or not |
| `parser_root_mismatch` | `error.rs:40`, "unexpected root element" is an error of parsing | another root is skipped as undeclared, the document accepted; nothing constructs the error |
| `parser_text_content` | `rule.rs:18`, `text()` is the "direct text content of this element" | CDATA sections and references are events of their own, which `Ok(_) => {}` drops |
| `pipeline_undrained` | `README.md:174-214`, diagnostics read after the call or never | the call never returns once the files report more than the channel holds |

`parser_streaming_memory` states O(depth) with the factor 2 (two records for
each open element). A larger factor needs as many more siblings: the counterexample
grows by one summary per `<a></a>`.

## Fairness

Only `Pipeline` states liveness. Its fairness is that of threads: each worker
that can take its next step inside a file eventually does, `Return` happens once
it can, and so do the receiver's steps. For taking files it is weaker: *some*
idle worker eventually takes a file that is there, because rayon does not say
which. The producer is under no fairness at all, so `Returns` starts from
`file_tx = "dropped"` and `ArrivedIsValidated` holds for a producer that stops
half-way. A file ends, so a worker cannot report for ever: `MaxPerFile` bounds
it. Sends need no strong fairness: the other workers can fill the channel ahead
of a waiting one only as often as their files have diagnostics.

## What is proved

Every property that a passing run checks is a theorem too, except those listed at
the end of this section.

### The builder (`TreeBuilderProofs`)

For all tags, rules, limits and chains of calls of any length: `TypeCorrect`,
`CursorFollows`, `Accepted`, `AllNeedsCovered`, `TreeAsAssumed` and
`LooksUpByPath`, which state `TypeOK`, `CursorIsPath`, `Accepts`,
`NeedsCovered`, `BuildsTree` and `LookupByPath`.

None of the last four can be read off one step: they speak of what `build()`
makes of the whole chain. The inductive invariant `BInv` says what the chain
leaves behind: the cursor is the path to the current node, every declaration but
the first comes after its parent and has the parent's path with one tag added
(`ParentsFirst`), and what `build()` returned is its verdict on the declarations
(`Verdict`). The rest is about declarations that satisfy it.

* `Accepted`: `Accepts` says of each outcome of `build()` exactly when it is
  returned: `DuplicatePath` if a path is repeated, else `IncompatibleAccessMode` if
  a rule needs the subtree at a path that is not captured, else `NestedCapture` if
  a capture is below a capture, else a tree. It goes by the paths of
  the declarations, and the code by the order of declaration and by parent
  indices: a walk along `parent_index` goes to lower and lower numbers, so it
  ends, and meets exactly the declarations whose paths are prefixes.
* `AllNeedsCovered` and `TreeAsAssumed`: the three passes of propagation.
* `LooksUpByPath`: a finite set with distinct keys can be listed in the order of
  its keys, so `sort` has a result; in a sorted sequence every step of the
  bisection keeps the tag between its bounds, if it is there; and no two
  children of a parent have one tag, since no two paths are equal.

`TreeAsAssumed` closes a gap between modules: `Parser` assumes `IsTree` of its trees,
and this is what `build()` returns. `LooksUpByPath` closes another:
`DescriptorTree!ChildOf`, by which `Parser` looks children up, is the search
that the code does.

The macro has two theorems, for any text nested to any depth: `MacroAsWritten`
(`MacroBuilds`), and `MacroAsChain`, that all of the above holds of the macro's
calls too. The inductive invariant `MacroInv` adds to `BInv` what an expansion in
progress has done and owes (`Expanding`):

* `Linked`: each owed call leaves the cursor at the node where the next one
  expects it, and the last is `build()` at the root. This is where a `done()` too
  few or too many would show; that `done()` never meets the root follows.
* `ItemsInOrder`: the items among the owed calls stand in the text from left to
  right, so what they will read is disjoint and in order.
* `ReadSoFar`: all that was read starts before all that is unread, and the nodes
  read are declared, each at its `Place`, with its path, its mode, unless that
  call is the next, and those of its rules that were read. A node that is declared
  next is therefore the one whose `Place` is the next number, and a rule that is
  added comes after those that stand before it, even with children in between.
* `CursorOn`: `parent_stack` is the places of the nodes around the cursor.

### The event loop

Except where a hypothesis is named, all of this is for all trees that satisfy `IsTree`, all tags, attributes, texts,
buffer sizes, memory limits, outcomes of the rules and lengths of document.

`ParserProofs` proves `TypeCorrect` (`TypeOK`) and `StacksConsistent`
(`StackInv`). Neither is inductive alone. That `skip_depth - 1` and `depth - 1`
stay natural numbers and that `Front` and `Last` are applied to non-empty stacks
follows from `StackInv`; that the stacks can be appended to and indexed follows
from `TypeOK`. The inductive invariant is their conjunction `IInv`. The
argument: an opening handler pushes all three stacks and one level of `doc`;
`CloseCapture` and `CloseStreaming` pop all of them; skipping and capturing
change one counter with one level of `doc` (`Accounted`); while capturing,
nothing moves the stacks, so the context at `context_stack_index` stays the
innermost one (`CaptureOnTop`). `BufferDiagnostics` leaves the remainder of a
division by `DiagBuffer` (`BufferBounded`). In the code this means that no
`expect`, `unwrap` or subtraction on the paths of the event loop can fail and
that fewer than 256 diagnostics are lost with a rejected document.

`ParserProofs` also proves `OutputImplemented` (`DeliversInOrder`), the refinement of
`FileOutput`. `OutputEffect` sorts all events into four by what they do to the
diagnostics: nothing; buffer those of one element; return an error; flush and
accept. The middle of the argument is `BufferKeepsOrder`: however
`buffer_diagnostic` drains the buffer, sent and waiting together are what they
were followed by the new diagnostics.

`ContextProofs` proves `PoolsStayBounded` (`PoolsBounded`), `CaptureFollows`
(`CaptureFollowsDocument`) and `PathsFollow`, the first half of
`ContextsFollowDocument`. The inductive invariant `FInv` adds to `IInv` that the
descriptor of each context has the path of its element, that each `BuildNode` is
the copy of what was read of its element, and that while capturing the context
pool is empty. For the pools: a map taken from the pool was given back, so those in use
and in the pool together only grow when the stack is deeper than ever before,
and the stack of contexts is no deeper than a declared path is long.

`ValidationProofs` proves, over tags that the hash tells apart, `ContextsFollow`
(`ContextsFollowDocument`) and, over trees that also satisfy `RulesFit`,
`Validates` (`ValidatesDocument`), the refinement of `DocumentValidation`. The inductive invariant `VInv` adds `Told` to `FInv`:
what each context, counter, mode and skip depth says is true of `doc`. Of each open
element that runs rules later, the context holds the index, the attributes and
the text if they are needed, and the summaries of the closed children, complete
where they are asked for and with nothing but the tag and the verdict where they
are not (`ChildrenTold`); the counter of a tag counts the
children of that tag opened so far, if such a child is declared
(`CountersTold`); what is skipped has no declaration (`SkippedTold`); a captured
element is the last on the stack (`CaptureTold`). At a close these are the data
of the view, so what the rules see is what `DocumentValidation` demands; that
nothing *else* is evaluated is `SkippedTold` and `CaptureTold`; the order of
delivery is `OutputImplemented`.

That `hash_tag` tells the tags apart (`IsInjective(HashOf)`) is a hypothesis of
these two theorems, and `RulesFit` of the second, and neither is an assumption of
the module, since the code does not ensure them. `VInv` is inductive without
them: what it says of counters, and of the indices read from them, holds *if* the
tags are told apart, what it says of the results of closed children holds *if*
these also fit the word (`WordFits`), and the rest holds of any hash and any number of rules. TLC
evaluates both hypotheses on the instances (`HypothesesAssumption` of `MCParser`).

The last section of `ValidationProofs` proves `CaptureBounded` (`CaptureBudget`),
for any hash: a capture that goes on holds no more than the limit, and one that
is refused had gone over it. Here the size of a subtree, a sum over nested
nodes, is known only by how it grows (`IsSize`): by what an opened node costs, by
one unit for a piece of text, and by the size of a child that is appended. The
sum node by node grows like this; TLC checks it (`SizeAssumption` of `MCParser`).
The inductive invariant `MInv` adds to `VInv` that the builder's count of bytes
is the total of the open elements from the captured one down (`WithinLimit`),
which never shrinks: a close moves a child's size into its parent.

### The rule loop (`RuleProofs`)

For all captured elements, lists of rules, widths of the word, buffer sizes and
both build profiles: `TypeCorrect`, `QueriesWalk`, `ResultsTold` and
`LoopIsOneStep`, which state `TypeOK`, `WalksDepthFirst`, `ResultsPacked` and
`AsOneStep`. The last two speak of the end of the loop. The inductive invariant
`RInv` says what is true before it:

* `StackInOrder`: each node on the iterator's stack is to the right of all above
  it, so the subtrees that are ahead are disjoint and in order. The next step
  keeps `WalksDepthFirst` because the top of the stack comes before its own
  descendants, and these before all that is below on the stack.
* `AnswerTold`: a rule reports nothing exactly if it passes. This is where what
  the iterator found meets `Passes`, which knows no iterator.
* `BufferedSoFar`: what was sent or is buffered is `earlier` followed by the
  diagnostics of the rules up to the current one, in order, and the buffer holds
  the remainder of a division.
* `SetSoFar`: a bit is set exactly if a rule before `index` with that residue
  passes.

### The pipeline

All of this is for any number of files and workers, both entry functions, all
capacities and buffer sizes. None of it uses fairness: a send that blocks for
ever delays the return, and cannot make it wrong.

`PipelineProofs` proves `TypeCorrect` (`TypeOK`) and `ReturnsComplete`
(`Complete`). `Complete` speaks only of states in which the call has returned.
The inductive invariant `IInv` adds two parts. `NoneForgotten`: each file is
still with the producer, in the queue, in a worker's hands, or has an outcome.
`Settled`: after the producer has dropped its end nothing is unsent, and after
the return the queue is empty, all workers are idle and `errors` is the set of
failed files. At `Return` three of the four places of `NoneForgotten` are empty,
which leaves the outcome.

`DeliveryProofs` proves `FilesInOnePlace` (`OnePlace`), `Delivered`
(`Delivery`) and `EachFileAsAlone` (`FileAsAlone`). The inductive invariant
`DInv` adds three parts. `Apart`: no file is in two places, and nothing has been
reported of one that waits. `BuffersLast`: a worker's buffer holds the last
diagnostics reported of its file, and while the file is parsed as many as those
since the last full buffer.
`RestIsSent`: what has left the buffer has been sent, each once and in order.
Per file these are places and numbers, so a step of one worker touches those of
its own file alone, whatever the others have put in between on the channel.

`EachFileAsAlone` is the refinement of `FileOutput`, for any file `Watched` and a
receiver that stays (`Consumer # "drops"`, the hypothesis of the theorem). It
goes on from `Delivery` by the function `Of`, which picks the file's diagnostics
out of what was sent: if the first `n` of a file were sent in order and no
other of it, `Of` is the sequence of these. A `Flush` by the worker that
has the file appends to it one of the diagnostics that were produced; every other
step is an addition to what was produced, the verdict, or a stutter.

### Assumptions

All are named in the module that declares the constant, and TLC evaluates them in
the runs: `BatchAssumption` (the files are a sequence without repetition, which
only `DeliveryProofs` uses: of a file given twice the diagnostics of the two
passes could not be told apart), `CapacityAssumption`, `WatchedAssumption`;
`TagOrderAssumption` (the order of tags is total), `RuleNeedsAssumption`,
`LimitsAssumption`; `RootsAssumption` (a captured element is a tree),
`MacrosAssumption` (the text of a macro is finite and nested, its root a node),
`RuleListsAssumption`, `BuffersAssumption`, `WidthAssumption`; and of `Parser`,
`TreesAssumption` (which `TreeAsAssumed` justifies), `HashAssumption`, `BoundsAssumption`, `AttrListsAssumption`,
`SizesAssumption` and `IllegibleAssumption`. `MaxEvents`, `MaxDiags` and
`MaxPerFile` bound TLC's search; the theorems hold for each value of them.

TLC finds `BInv`, `MacroInv`, `FInv`, `VInv`, `MInv`, `RInv`, `DInv` and both `IInv` invariant
on the instances of the runs; each was checked there before it was proved.

### Induction over data

The library's induction theorems are about an operator, which the installed
provers cannot instantiate. `SequenceFacts` states induction for a *set* of
natural numbers instead (`NaturalsByInduction`). With it a
recursive function over numbers can be shown to exist and to satisfy its
equation: the ancestors of a declaration, the sorted listing of a finite set,
the bisection, `Of`, the sum of a sequence. Recursion over nested data stays out of
reach; captured elements and the text of a macro are therefore sets of
positions, on which order and containment need no recursion.

### Only model-checked

Liveness (`ArrivedIsValidated`, `Returns`, `IterationEnds`), which rests on
fairness and on which actions are enabled.

## Faulty variants

Beside some definitions stands a *faulty variant*: the same operator with a
plausible mistake (a recycled map not cleared, a comparison off by one, a
receiver's disappearance not handled). They are used by no specification;
substituted for the definition they follow, each makes the property that
`PROJECT.json` pairs it with fail.

## Not modelled

* In a build with overflow checks: the end of `parse_file` by the panic at a rule
  beyond the width that passes (`RuleEvaluation` has the panic, `Parser` follows a
  build without the checks), and `get(index)` with an index of 64 or more, which
  panics in the rule that calls it.
* `StreamingView`, which nothing constructs; lookup of an attribute by name.
* Hash collisions: the runs give distinct tags distinct hashes, and the two
  theorems that depend on it say so; overflow of the 32-bit sibling counters.
* Comments, declarations and processing instructions, which change nothing.
* Panicking rules and stream factories: what becomes of the other files is
  rayon's to say.
* I/O (an I/O error is a tokenizer error), memory other than the counts above,
  `PipelineConfig` (of its fields, `diagnostics_buffer_size` is read nowhere),
  the contents of diagnostics and the wording of messages.
* How rustc matches the tokens of `build_tree!`.

## Plan

Done: all components that are listed as modelled, the abstract specifications
with their refinements checked and proved, and every safety property that a run
checks as a theorem. What remains unmodelled is listed above. Next: a panicking rule
or stream factory in `Pipeline`, once the crate says what becomes of the other files, and
the lookup of attributes by name, which needs attributes with values.
