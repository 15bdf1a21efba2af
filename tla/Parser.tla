------------------------------- MODULE Parser -------------------------------
(***************************************************************************)
(* The event loop of parse_file and parse_slice (reader/parser.rs): one    *)
(* document, one descriptor tree.  Each iteration takes one event from the *)
(* tokenizer and runs its handler.  In streaming mode declared elements    *)
(* live on a stack of contexts and their rules run when they close; an     *)
(* undeclared element is skipped with everything in it; a capture element  *)
(* switches the loop to capturing, where events only feed a CaptureBuilder *)
(* until the element closes and its rules run on the assembled subtree.    *)
(*                                                                         *)
(* An error return drops all locals, so it leaves them UNCHANGED here and  *)
(* sets status; nothing reads them afterwards.  Sending on the diagnostics *)
(* channel never blocks here: module Pipeline has the bounded channel.     *)
(***************************************************************************)
EXTENDS DescriptorTree, Capture, Views, RuleResults, XmlDocument, SequencesExt

CONSTANTS Trees,       \* descriptor trees that build() returned
          Entry,       \* "file" or "slice": the function called
          Hashes,      \* results of hash_tag
          HashOf,      \* hash_tag
          DiagBuffer,  \* DIAG_BUFFER_DEFAULT
          MaxEvents    \* bound on the events of a document

ASSUME TreesAssumption == \A t \in Trees : IsTree(t)
ASSUME EntryAssumption == Entry \in {"file", "slice"}
ASSUME HashAssumption == HashOf \in [Tags -> Hashes]
ASSUME BoundsAssumption ==
  DiagBuffer \in Nat \ {0} /\ MaxEvents \in Nat /\ MaxDiags \in Nat

VARIABLES
  tree, doc, events,                  \* the inputs: declaration, tokens so far
  selfclosing,                        \* between the two handlers of `<a/>`
  context_stack, descriptor_stack,
  sibling_counters, sibling_pool,
  ctx_pool,
  mode, skip_depth,
  diag_buffer, sent,                  \* unsent and sent diagnostics
  observed,                           \* <<view>> if this step ran rules on it
  status

stacks == <<context_stack, descriptor_stack, sibling_counters, sibling_pool,
            ctx_pool>>
output == <<diag_buffer, sent>>
vars == <<tree, doc, events, selfclosing, stacks, mode, skip_depth, output,
          observed, status>>

Streaming == [kind |-> "Streaming"]

Capturing(builder, depth, descriptor_id, context_stack_index) ==
  [kind |-> "Capturing", builder |-> builder, depth |-> depth,
   descriptor_id |-> descriptor_id, context_stack_index |-> context_stack_index]

IsStreaming == mode.kind = "Streaming"
IsCapturing == mode.kind = "Capturing"

-----------------------------------------------------------------------------
(* Sibling counters: (hash, count) entries, absent ones reading 0.         *)
NoCounts == [h \in Hashes |-> 0]

(* Faulty variant: a recycled map keeps its counts.                        *)
StaleCounters == [pool |-> IF sibling_pool = <<>> THEN <<>> ELSE Front(sibling_pool),
                  map  |-> IF sibling_pool = <<>> THEN NoCounts ELSE Last(sibling_pool)]

(* Faulty variant: a map in use stays in the pool.                         *)
SharedCounters == [pool |-> sibling_pool, map |-> NoCounts]

(* A map taken from the pool is cleared before use.                        *)
FreshCounters == [pool |-> IF sibling_pool = <<>> THEN <<>> ELSE Front(sibling_pool),
                  map  |-> NoCounts]

Recycle(pool, counters) ==
  IF counters = <<>> THEN pool ELSE Append(pool, Last(counters))

SiblingIndexOf(tag) ==
  IF sibling_counters = <<>> THEN 0 ELSE Last(sibling_counters)[HashOf[tag]]

CountSibling(tag) ==
  IF sibling_counters = <<>> THEN sibling_counters
  ELSE [sibling_counters EXCEPT ![Len(sibling_counters)][HashOf[tag]] = @ + 1]

(* Contexts: a recycled one has every field reset.                         *)
Context(id, attrs, index) ==
  [attrs |-> attrs, text |-> <<>>, children |-> <<>>, descriptor_id |-> id,
   index |-> index]

Acquire(pool, id, attrs, index) ==
  IF pool = <<>> THEN Context(id, attrs, index)
  ELSE [Last(pool) EXCEPT !.descriptor_id = id, !.attrs = attrs, !.text = <<>>,
                          !.children = <<>>, !.index = index]

Acquired(pool) == IF pool = <<>> THEN <<>> ELSE Front(pool)

Release(pool, ctx) ==
  Append(pool, [ctx EXCEPT !.attrs = <<>>, !.text = <<>>, !.children = <<>>])

-----------------------------------------------------------------------------
(* Faulty variant: the buffer is drained when it is past DiagBuffer.       *)
FlushedPast(n) == n - (n % (DiagBuffer + 1))

(* buffer_diagnostic, applied to a sequence of diagnostics: the buffer is  *)
(* drained to the channel whenever it reaches DiagBuffer.                  *)
Flushed(n) == n - (n % DiagBuffer)

BufferDiagnostics(diags) ==
  LET all == diag_buffer \o diags
      n   == Flushed(Len(all))
  IN /\ sent' = sent \o SubSeq(all, 1, n)
     /\ diag_buffer' = SubSeq(all, n + 1, Len(all))

(* Faulty variant: kept is what the node's own rules need.                 *)
SummaryOfOwnNeeds(node, attrs, text, index, results) ==
  LET needed == tree.nodes[node].needs
  IN [attrs |-> IF "ATTRS" \in needed THEN attrs ELSE <<>>,
      text |-> IF "TEXT" \in needed THEN text ELSE <<>>,
      descriptor_id |-> node, index |-> index, rule_results |-> results]

(* ChildSummary: attributes and text only if the parent needs summaries.   *)
Summary(node, attrs, text, index, results) ==
  LET needed == tree.nodes[node].summary_needs
  IN [attrs |-> IF "ATTRS" \in needed THEN attrs ELSE <<>>,
      text |-> IF "TEXT" \in needed THEN text ELSE <<>>,
      descriptor_id |-> node, index |-> index, rule_results |-> results]

PushToParent(stack, summary) ==
  IF stack = <<>> THEN stack
  ELSE [stack EXCEPT ![Len(stack)].children = Append(@, summary)]

(* The tail both close paths share, for the popped context ctx: run the    *)
(* rules of node on the view, send, summarize, pop every stack.            *)
RunRules(view, node, ctx, text) ==
  \E diags \in Evaluations(tree, node) :
    LET passed == Passed(tree, node, diags)
    IN /\ BufferDiagnostics(diags)
       /\ context_stack' =
            PushToParent(Front(context_stack),
                         Summary(node, ctx.attrs, text, ctx.index, Packed(passed)))
       /\ descriptor_stack' = Front(descriptor_stack)
       /\ sibling_counters' = Front(sibling_counters)
       /\ sibling_pool' = Recycle(sibling_pool, sibling_counters)
       /\ observed' = <<view>>
       /\ doc' = Close(doc, <<ChildVerdict(doc, node, passed)>>)

-----------------------------------------------------------------------------
(* handle_start.                                                           *)
Lookup(tag) ==
  IF descriptor_stack = <<>> THEN RootIfTagged(tree, tag)
  ELSE ChildOf(tree, Last(descriptor_stack), tag)

NeedsAttrs(node) ==
  LET n == tree.nodes[node]
  IN "ATTRS" \in n.needs \cup n.summary_needs \/ IsCapture(n.needs)

(* parse_attributes_into: the first attribute that does not parse.         *)
AttrError(attrs) ==
  LET bad == {i \in DOMAIN attrs : attrs[i] \in Illegible}
  IN IF bad = {} THEN "none"
     ELSE IF \E i \in bad : attrs[i] = Garbled /\ \A j \in bad : i <= j
     THEN "Utf8"
     ELSE "XmlParse"

CaptureRoot(tag, attrs) ==
  StartElement(NewBuilder(tree.capture_memory_limit), tag, attrs)

(* The error handle_start returns for a tag it does not skip.              *)
StartError(tag, attrs) ==
  IF tag = Garbled THEN "Utf8"
  ELSE IF IsCapturing
  THEN IF AttrError(attrs) # "none" THEN AttrError(attrs)
       ELSE IF Overflows(StartElement(mode.builder, tag, attrs))
       THEN "CaptureOverflow" ELSE "none"
  ELSE IF Lookup(tag) = NoNode \/ ~NeedsAttrs(Lookup(tag)) THEN "none"
  ELSE IF AttrError(attrs) # "none" THEN AttrError(attrs)
  ELSE IF /\ IsCapture(tree.nodes[Lookup(tag)].needs)
          /\ Overflows(CaptureRoot(tag, attrs))
  THEN "CaptureOverflow" ELSE "none"

(* Faulty variant: elements inside an undeclared one are not counted.      *)
SkipStartUncounted ==
  /\ skip_depth > 0
  /\ UNCHANGED <<stacks, mode, skip_depth, status>>

SkipStart ==
  /\ skip_depth > 0
  /\ skip_depth' = skip_depth + 1
  /\ UNCHANGED <<stacks, mode, status>>

StartFails(tag, attrs) ==
  /\ skip_depth = 0
  /\ StartError(tag, attrs) # "none"
  /\ status' = StartError(tag, attrs)
  /\ UNCHANGED <<stacks, mode, skip_depth>>

CaptureStart(tag, attrs) ==
  /\ skip_depth = 0
  /\ IsCapturing
  /\ StartError(tag, attrs) = "none"
  /\ mode' = [mode EXCEPT !.builder = StartElement(@, tag, attrs), !.depth = @ + 1]
  /\ UNCHANGED <<stacks, skip_depth, status>>

OpenUndeclared(tag, attrs) ==
  /\ skip_depth = 0
  /\ IsStreaming
  /\ StartError(tag, attrs) = "none"
  /\ Lookup(tag) = NoNode
  /\ skip_depth' = 1
  /\ UNCHANGED <<stacks, mode, status>>

OpenDeclared(tag, attrs) ==
  LET id   == Lookup(tag)
      kept == IF NeedsAttrs(id) THEN attrs ELSE <<>>
  IN /\ skip_depth = 0
     /\ IsStreaming
     /\ StartError(tag, attrs) = "none"
     /\ id # NoNode
     /\ descriptor_stack' = Append(descriptor_stack, id)
     /\ sibling_counters' = Append(CountSibling(tag), FreshCounters.map)
     /\ sibling_pool' = FreshCounters.pool
     /\ context_stack' =
          Append(context_stack, Acquire(ctx_pool, id, kept, SiblingIndexOf(tag)))
     /\ ctx_pool' = Acquired(ctx_pool)
     /\ mode' = IF IsCapture(tree.nodes[id].needs)
                THEN Capturing(CaptureRoot(tag, attrs), 1, id, Len(context_stack))
                ELSE mode
     /\ UNCHANGED <<skip_depth, status>>

HandleStart(tag, attrs) ==
  /\ doc' = Open(doc, tag, attrs)
  /\ observed' = <<>>
  /\ \/ SkipStart
     \/ StartFails(tag, attrs)
     \/ CaptureStart(tag, attrs)
     \/ OpenUndeclared(tag, attrs)
     \/ OpenDeclared(tag, attrs)
  /\ UNCHANGED output

-----------------------------------------------------------------------------
(* handle_end.                                                             *)
(* Faulty variant: skip_depth is decremented at every end tag.             *)
SkipEndAlways ==
  /\ skip_depth' = skip_depth - 1
  /\ doc' = Close(doc, <<>>)
  /\ observed' = <<>>
  /\ UNCHANGED <<stacks, mode, output>>

SkipEnd ==
  /\ skip_depth > 0
  /\ skip_depth' = skip_depth - 1
  /\ doc' = Close(doc, <<>>)
  /\ observed' = <<>>
  /\ UNCHANGED <<stacks, mode, output>>

CaptureEnd ==
  /\ skip_depth = 0
  /\ IsCapturing
  /\ mode.depth # 1
  /\ mode' = [mode EXCEPT !.builder = EndElement(@), !.depth = @ - 1]
  /\ doc' = Close(doc, <<>>)
  /\ observed' = <<>>
  /\ UNCHANGED <<stacks, skip_depth, output>>

(* context_stack_index counts from 0.                                      *)
CloseCapture ==
  LET index == mode.context_stack_index + 1
      ctx   == context_stack[index]
      root  == Finalize(EndElement(mode.builder))
      view  == SubtreeView(root, mode.descriptor_id, ctx.index,
                           SubSeq(context_stack, 1, index - 1))
  IN /\ skip_depth = 0
     /\ IsCapturing
     /\ mode.depth = 1
     /\ mode' = Streaming
     /\ RunRules(view, mode.descriptor_id, ctx, root.text)
     /\ ctx_pool' = Release(ctx_pool, Last(context_stack))
     /\ UNCHANGED skip_depth

(* The source does nothing when no context is open; an end tag then has no *)
(* start, which the tokenizer reports as an error (invariant Accounted).   *)
CloseStreaming ==
  LET ctx  == Last(context_stack)
      view == StreamingViewOwned(ctx, Front(context_stack))
  IN /\ skip_depth = 0
     /\ IsStreaming
     /\ context_stack # <<>>
     /\ RunRules(view, ctx.descriptor_id, ctx, ctx.text)
     /\ UNCHANGED <<ctx_pool, mode, skip_depth>>

HandleEnd ==
  /\ SkipEnd \/ CaptureEnd \/ CloseCapture \/ CloseStreaming
  /\ UNCHANGED status

-----------------------------------------------------------------------------
(* The Text arm.                                                           *)
NeedsText(node) ==
  "TEXT" \in tree.nodes[node].needs \cup tree.nodes[node].summary_needs

(* Text that is wanted, by the builder or by the innermost context.        *)
TextWanted ==
  /\ skip_depth = 0
  /\ \/ IsCapturing
     \/ /\ context_stack # <<>>
        /\ NeedsText(Last(context_stack).descriptor_id)

IgnoreText ==
  /\ ~TextWanted
  /\ UNCHANGED <<stacks, mode, status>>

TextFails(piece) ==
  /\ TextWanted
  /\ \/ piece = Garbled /\ status' = "XmlParse"
     \/ /\ piece # Garbled
        /\ IsCapturing
        /\ Overflows(TextPiece(mode.builder, piece))
        /\ status' = "CaptureOverflow"
  /\ UNCHANGED <<stacks, mode>>

CaptureText(piece) ==
  /\ TextWanted
  /\ IsCapturing
  /\ piece # Garbled
  /\ ~Overflows(TextPiece(mode.builder, piece))
  /\ mode' = [mode EXCEPT !.builder = TextPiece(@, piece)]
  /\ UNCHANGED <<stacks, status>>

AppendText(piece) ==
  /\ TextWanted
  /\ IsStreaming
  /\ piece # Garbled
  /\ context_stack' =
       [context_stack EXCEPT ![Len(context_stack)].text = Append(@, piece)]
  /\ UNCHANGED <<descriptor_stack, sibling_counters, sibling_pool, ctx_pool,
                 mode, status>>

-----------------------------------------------------------------------------
(* The event loop.  quick-xml checks that an end tag matches the innermost *)
(* open element, reports neither unclosed elements at the end of input nor *)
(* several outermost ones, and may fail at any point.                      *)
TagsOf == IF Entry = "slice" THEN Tags ELSE Tags \cup {Garbled}
TextsOf == IF Entry = "slice" THEN Texts ELSE Texts \cup {Garbled}
AttrListsOf ==
  {attrs \in AttrLists : Entry = "slice" => Garbled \notin ToSet(attrs)}

(* parse_slice decodes the whole input before it reads an event.           *)
Init ==
  /\ tree \in Trees
  /\ doc = <<>>
  /\ events = 0
  /\ selfclosing = FALSE
  /\ context_stack = <<>> /\ descriptor_stack = <<>>
  /\ sibling_counters = <<>> /\ sibling_pool = <<>>
  /\ ctx_pool = <<>>
  /\ mode = Streaming
  /\ skip_depth = 0
  /\ diag_buffer = <<>> /\ sent = <<>>
  /\ observed = <<>>
  /\ status \in IF Entry = "slice" THEN {"reading", "Utf8"} ELSE {"reading"}

ReadEvent ==
  /\ status = "reading"
  /\ ~selfclosing
  /\ events < MaxEvents
  /\ events' = events + 1
  /\ UNCHANGED tree

(* `<tag>`, and `<tag/>`, whose end is handled at once if its start was.   *)
StartTag(tag, attrs) ==
  /\ ReadEvent
  /\ HandleStart(tag, attrs)
  /\ selfclosing' \in BOOLEAN
  /\ status' # "reading" => ~selfclosing'

EndTag ==
  /\ ReadEvent
  /\ doc # <<>>
  /\ HandleEnd
  /\ UNCHANGED selfclosing

SelfClose ==
  /\ status = "reading"
  /\ selfclosing
  /\ HandleEnd
  /\ selfclosing' = FALSE
  /\ UNCHANGED <<tree, events>>

TextRun(piece) ==
  /\ ReadEvent
  /\ doc' = AddText(doc, piece)
  /\ IgnoreText \/ TextFails(piece) \/ CaptureText(piece) \/ AppendText(piece)
  /\ observed' = <<>>
  /\ UNCHANGED <<selfclosing, skip_depth, output>>

(* `Ok(_) => {}`.                                                          *)
IgnoreOther(event) ==
  /\ ReadEvent
  /\ doc' = AddOther(doc)
  /\ observed' = <<>>
  /\ UNCHANGED <<selfclosing, stacks, mode, skip_depth, output, status>>

TokenizerError ==
  /\ ReadEvent
  /\ status' = "XmlParse"
  /\ observed' = <<>>
  /\ UNCHANGED <<doc, selfclosing, stacks, mode, skip_depth, output>>

(* Faulty variant: the last flush is forgotten.                            *)
KeepDiagnostics == UNCHANGED output

FlushDiagnostics == sent' = sent \o diag_buffer /\ diag_buffer' = <<>>

(* End of input, wherever it comes: whatever is still open is forgotten.   *)
Eof ==
  /\ status = "reading"
  /\ ~selfclosing
  /\ FlushDiagnostics
  /\ status' = "ok"
  /\ observed' = <<>>
  /\ UNCHANGED <<tree, doc, events, selfclosing, stacks, mode, skip_depth>>

Returned == status # "reading" /\ UNCHANGED vars

Next ==
  \/ \E tag \in TagsOf, attrs \in AttrListsOf : StartTag(tag, attrs)
  \/ EndTag
  \/ SelfClose
  \/ \E piece \in TextsOf : TextRun(piece)
  \/ \E event \in OtherData : IgnoreOther(event)
  \/ TokenizerError
  \/ Eof
  \/ Returned

Spec == Init /\ [][Next]_vars

-----------------------------------------------------------------------------
(* Types.  Elements nest without bound, so a BuildNode or an open element  *)
(* is typed only as far as the handlers look into it.                      *)
IsSeq(s) == s \in Seq(Range(s))

AttrSeqs == Seq(Attrs \cup Illegible)
TextSeqs == Seq(Texts \cup {Garbled})

ChildSummaries ==
  [attrs : AttrSeqs, text : TextSeqs, descriptor_id : NodeIds(tree),
   index : Nat, rule_results : SUBSET Nat]

NodeContexts ==
  [attrs : AttrSeqs, text : TextSeqs, children : Seq(ChildSummaries),
   descriptor_id : NodeIds(tree), index : Nat]

Diagnostics == [node : NodeIds(tree), rule : Nat]

IsBuildNode(n) ==
  n \in [tag : {n.tag}, attrs : AttrSeqs, text : TextSeqs, children : {n.children}]

IsBuilder(b) ==
  /\ b \in [stack : {b.stack}, memory_usage : Nat,
            memory_limit : {tree.capture_memory_limit}]
  /\ IsSeq(b.stack)
  /\ \A j \in 1 .. Len(b.stack) : IsBuildNode(b.stack[j])

StacksOK ==
  /\ context_stack \in Seq(NodeContexts)
  /\ descriptor_stack \in Seq(NodeIds(tree))
  /\ sibling_counters \in Seq([Hashes -> Nat])
  /\ sibling_pool \in Seq([Hashes -> Nat])
  /\ ctx_pool \in Seq(NodeContexts)

ModeOK ==
  \/ mode = Streaming
  \/ /\ mode \in [kind : {"Capturing"}, builder : {mode.builder}, depth : Nat,
                  descriptor_id : NodeIds(tree), context_stack_index : Nat]
     /\ IsBuilder(mode.builder)

OutputOK ==
  /\ diag_buffer \in Seq(Diagnostics)
  /\ sent \in Seq(Diagnostics)

TypeOK ==
  /\ tree \in Trees
  /\ IsSeq(doc)
  /\ events \in 0 .. MaxEvents
  /\ selfclosing \in BOOLEAN
  /\ StacksOK
  /\ ModeOK
  /\ skip_depth \in Nat
  /\ OutputOK
  /\ status \in {"reading", "ok", "XmlParse", "Utf8", "CaptureOverflow"}

-----------------------------------------------------------------------------
(* The three per-element stacks grow and shrink together, and the lookup   *)
(* key is the descriptor of the innermost context (parser.rs pops them in  *)
(* two different places and pushes them in one).                           *)
StacksAligned ==
  /\ Len(descriptor_stack) = Len(context_stack)
  /\ Len(sibling_counters) = Len(context_stack)
  /\ \A k \in DOMAIN context_stack :
        descriptor_stack[k] = context_stack[k].descriptor_id

(* While capturing, the element whose rules will run, the context indexed  *)
(* by context_stack_index and the context popped are the same one, the     *)
(* builder has one node per open captured element, and nothing is skipped: *)
(* so neither `depth -= 1` nor the expect()s of the builder can panic.     *)
CaptureOnTop ==
  IsCapturing =>
    /\ context_stack # <<>>
    /\ mode.context_stack_index = Len(context_stack) - 1
    /\ mode.descriptor_id = context_stack[Len(context_stack)].descriptor_id
    /\ mode.depth > 0
    /\ Len(mode.builder.stack) = mode.depth
    /\ skip_depth = 0

(* Every open element of the document is accounted for exactly once: by a  *)
(* context, by skip_depth, or by the depth inside the capture, whose root  *)
(* has both.  So an end tag always closes what its start opened.           *)
Accounted ==
  status = "reading" =>
    Len(doc) = Len(context_stack) + skip_depth
                 + (IF IsCapturing THEN mode.depth - 1 ELSE 0)

(* Less than a full buffer waits at any time, so a rejected document loses *)
(* fewer than DiagBuffer diagnostics (buffer_diagnostic).                  *)
BufferBounded == Len(diag_buffer) < DiagBuffer

StackInv == StacksAligned /\ CaptureOnTop /\ Accounted /\ BufferBounded

(* Context k describes the k-th open element: its declaration is the one   *)
(* at the element's path, and its index counts the earlier siblings of the *)
(* same tag, which handle_start tracks by hash in the parent's counters.   *)
PathsFollowDocument ==
  status = "reading" =>
    \A k \in DOMAIN context_stack :
       tree.nodes[context_stack[k].descriptor_id].full_path = PathOfDoc(doc, k)

IndexesFollowDocument ==
  status = "reading" =>
    \A k \in DOMAIN context_stack :
       context_stack[k].index = SiblingIndex(SubSeq(doc, 1, k))

ContextsFollowDocument == PathsFollowDocument /\ IndexesFollowDocument

(* The depth of the deepest declaration.                                   *)
LongestPath(t) ==
  CHOOSE d \in {Len(t.nodes[n].full_path) : n \in NodeIds(t)} :
     \A n \in NodeIds(t) : Len(t.nodes[n].full_path) <= d

(* The pools keep no more than the deepest declared path can use again,    *)
(* however long the document is: maps go back and forth between stack and  *)
(* pool, and of contexts only the last captured one waits, since to close  *)
(* another the loop has to acquire one first.                              *)
PoolsBounded ==
  /\ Len(sibling_counters) + Len(sibling_pool) <= LongestPath(tree)
  /\ Len(ctx_pool) <= 1

(* The builder holds, node by node, the open elements of the captured      *)
(* subtree with everything read inside them so far.                        *)
CaptureFollowsDocument ==
  status = "reading" /\ IsCapturing =>
    \A j \in DOMAIN mode.builder.stack :
       mode.builder.stack[j] = Dom(doc[mode.context_stack_index + j])

-----------------------------------------------------------------------------
FO == INSTANCE FileOutput
        WITH produced  <- sent \o diag_buffer,
             delivered <- sent,
             verdict   <- IF status = "reading" THEN "none"
                          ELSE IF status = "ok" THEN "ok"
                          ELSE "failed"

(* What becomes of the rules' diagnostics is what FileOutput promises,     *)
(* whatever becomes of the document (buffer_diagnostic, flush_diagnostics  *)
(* and every return of the event loop).                                    *)
DeliversInOrder == FO!Spec

DV == INSTANCE DocumentValidation
        WITH diagnostics <- sent \o diag_buffer, delivered <- sent

(* No declaration has more rules than RuleResults is documented for ("up   *)
(* to 64 rules on a single element").  build() does not check it: beyond,  *)
(* two rules share a bit, or a build that checks overflow panics.          *)
RulesFit ==
  \A t \in Trees : \A n \in NodeIds(t) : Len(t.nodes[n].rules) <= Width

(* The parser validates a document as DocumentValidation says: the rules   *)
(* of each declared element run once, at its close, on a view that is true *)
(* of the document at that moment.                                         *)
ValidatesDocument == DV!Spec
=============================================================================
