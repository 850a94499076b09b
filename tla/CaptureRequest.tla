---------------------------- MODULE CaptureRequest ----------------------------
(***************************************************************************)
(* From what a caller asks for to the configuration of a capture: the      *)
(* arguments of `sniff capture` (crates/sniff-css/src/cli/capture.rs), the *)
(* request of the MCP tool sniff_page (crates/sniff-css-mcp/src/server.rs) *)
(* and the parsers they share (crates/sniff-core/src/config.rs).           *)
(*                                                                         *)
(* The colon-separated specs are sequences of tokens: a number of          *)
(* milliseconds, or a text as its comma-separated parts.  The options that *)
(* both surfaces hand on unchanged are one record, rest.                   *)
(***************************************************************************)
EXTENDS Integers, Sequences, FiniteSets, SequencesExt, TLC

CONSTANTS KnownCategories  \* the names parse_category knows

Token == [digits : BOOLEAN, n : Nat, parts : Seq(STRING)]

Ms(n)    == [digits |-> TRUE, n |-> n, parts |-> << >>]
Word(t)  == [digits |-> FALSE, n |-> 0, parts |-> <<t>>]
List(ts) == [digits |-> FALSE, n |-> 0, parts |-> ts]
Blank    == Word("")

Failed == [ok |-> FALSE]
Ok(v)  == [ok |-> TRUE, value |-> v]

\* collect::<Result<Vec<_>, _>>: all of them, or a failure.
Collect(results) ==
  IF \A i \in DOMAIN results : results[i].ok
  THEN Ok([i \in DOMAIN results |-> results[i].value]) ELSE Failed

\* The parts of a list that are not empty, in their order.
NonEmpty(names) ==
  LET kept   == {i \in DOMAIN names : names[i] # ""}
      nth(k) == CHOOSE i \in kept : Cardinality({j \in kept : j <= i}) = k
  IN  [k \in 1..Cardinality(kept) |-> names[nth(k)]]

-----------------------------------------------------------------------------
(* The parsers of config.rs. *)

\* What each wait strategy takes after its name, and the timeout it has when none is given.
Takes ==
  [delay |-> <<"ms">>, network_idle |-> <<"ms", "timeout">>, fonts_loaded |-> <<"timeout">>,
   selector |-> <<"text", "timeout">>, element_ready |-> <<"text", "conditions", "timeout">>,
   app_flag |-> <<"text", "timeout">>]

DefaultTimeout == [network_idle |-> 30000, fonts_loaded |-> 15000, selector |-> 30000,
                   element_ready |-> 30000, app_flag |-> 15000]

ReadyConditions == {"visible", "has-size", "size", "opacity=1"}

Fits(token, want) ==
  CASE want = "text" -> TRUE
    [] want = "conditions" -> /\ ~ token.digits
                              /\ \E i \in DOMAIN token.parts : token.parts[i] # ""
                              /\ Range(token.parts) \subseteq ReadyConditions \cup {""}
    [] OTHER -> token.digits

\* parse_wait_strategy: tokens beyond those it takes are ignored.
ParseWaitStrategy(spec) ==
  IF spec.name \notin DOMAIN Takes THEN Failed
  ELSE LET takes == Takes[spec.name]
           given == {k \in DOMAIN takes : k <= Len(spec.tokens)}
       IN  IF \/ \E k \in DOMAIN takes \ given : takes[k] # "timeout"
              \/ \E k \in given : ~ Fits(spec.tokens[k], takes[k])
           THEN Failed
           ELSE Ok([name |-> spec.name,
                    args |-> [k \in DOMAIN takes |->
                      IF k \in given THEN spec.tokens[k] ELSE Ms(DefaultTimeout[spec.name])]])

\* WaitStrategy::default_pipeline
DefaultPipeline(selector) ==
  <<[name |-> "selector", args |-> <<selector, Ms(10000)>>],
    [name |-> "network_idle", args |-> <<Ms(400), Ms(30000)>>],
    [name |-> "element_ready", args |-> <<selector, List(<<"visible", "has-size">>), Ms(10000)>>]>>

Action(kind, selector, given, timeout, settle) ==
  [kind |-> kind, selector |-> selector, given |-> given, timeout |-> timeout, settle |-> settle]

DefaultTimeoutMs == 10000
DefaultSettleMs  == 150

\* How many tokens at the end of a spec are all digits.
Trailing(tokens) ==
  Cardinality({i \in DOMAIN tokens : \A j \in i..Len(tokens) : tokens[j].digits})

\* Mutated: the options are read from the end on
OptionsFromTheEnd(spec) ==
  LET k == Trailing(spec.tokens)
      selector == SubSeq(spec.tokens, 1, Len(spec.tokens) - k)
      option(i) == spec.tokens[Len(spec.tokens) - i + 1].n
  IN  IF k > 2 \/ selector \in {<< >>, <<Blank>>} THEN Failed
      ELSE Ok(Action(spec.kind, selector, << >>,
                     IF k >= 1 THEN option(1) ELSE DefaultTimeoutMs,
                     IF k = 2 THEN option(2) ELSE DefaultSettleMs))

\* click:<selector>[:<timeout_ms>[:<settle_ms>]]; the selector may hold colons itself.
ParsePointer(spec) ==
  LET k == Trailing(spec.tokens)
      selector == SubSeq(spec.tokens, 1, Len(spec.tokens) - k)
      option(i) == spec.tokens[Len(selector) + i].n
  IN  IF k > 2 \/ selector \in {<< >>, <<Blank>>} THEN Failed
      ELSE Ok(Action(spec.kind, selector, << >>,
                     IF k >= 1 THEN option(1) ELSE DefaultTimeoutMs,
                     IF k = 2 THEN option(2) ELSE DefaultSettleMs))

\* type:<selector>:<text>, upload:<selector>:<file1,file2>; a list of empty names is no error.
ParseEntry(spec) ==
  LET rest == SubSeq(spec.tokens, 2, Len(spec.tokens))
  IN  IF spec.tokens \in {<< >>, <<Blank>>} \/ spec.tokens[1] = Blank \/ rest \in {<< >>, <<Blank>>}
      THEN Failed
      ELSE Ok(Action(spec.kind, SubSeq(spec.tokens, 1, 1),
                     IF spec.kind = "type" THEN rest
                     ELSE NonEmpty(rest[1].parts),
                     DefaultTimeoutMs, DefaultSettleMs))

ParseAction(spec) ==
  CASE spec.kind \in {"click", "hover"} -> ParsePointer(spec)
    [] spec.kind \in {"type", "upload"} -> ParseEntry(spec)
    [] OTHER -> Failed

\* OutputFormat::parse_cli
Formats == [jsonl |-> "JsonLines", ndjson |-> "JsonLines", jsonl_flat |-> "JsonLinesFlat",
            json |-> "Json", summary |-> "Summary", slim |-> "Summary"]

ParseFormat(name) == IF name \in DOMAIN Formats THEN Ok(Formats[name]) ELSE Failed

\* Viewport::parse_cli: a width and a height, neither of them zero.
ParseViewport(spec) == IF Len(spec) = 2 /\ 0 \notin Range(spec) THEN Ok(spec) ELSE Failed

\* parse_categories: empty parts are skipped, and something must be left.
ParseCategories(names) ==
  LET named == NonEmpty(names)
  IN  IF named # << >> /\ Range(named) \subseteq KnownCategories THEN Ok(named) ELSE Failed

\* What --full turns off, whatever else is asked of it; --ax-tree implies its facet all the same.
Toggles == {"compact", "contrast", "ax", "custom_props", "stabilize"}

-----------------------------------------------------------------------------
(* The command line: CaptureArgs as they are when nothing is given. *)

PageArgs ==
  [url |-> [scheme |-> "none", host |-> ""], selector |-> Blank, categories |-> <<"all">>,
   props |-> << >>, wait |-> << >>, actions |-> << >>, header |-> << >>, storage_state |-> "",
   shortcuts |-> [click |-> << >>, hover |-> << >>, type |-> << >>, upload |-> << >>]]

OutputArgs ==
  [output |-> "summary", summary |-> FALSE, no_summary |-> FALSE, pretty |-> FALSE, hidden |-> {},
   on |-> Toggles, off |-> {}, ax_tree |-> FALSE, effects |-> TRUE, rest |-> "defaults"]

DeviceArgs == [backend |-> "auto", device |-> "", avd |-> ""]

CaptureArgs ==
  PageArgs @@ OutputArgs @@ DeviceArgs @@ [viewport |-> {}, persist |-> {}, full |-> FALSE]

IsFlutter(args) ==
  args.backend = "flutter" \/ (args.backend = "auto" /\ args.url.scheme = "flutter")

\* The adb serial in a flutter:// URL.
FlutterDevice(url) == IF url.scheme = "flutter" THEN url.host ELSE ""

\* --action alone, or the shortcuts: clicks, hovers, types, uploads.
ActionSpecs(args) ==
  IF args.actions # << >> THEN args.actions
  ELSE LET of(kind) == [i \in DOMAIN args.shortcuts[kind] |->
                          [kind |-> kind, tokens |-> args.shortcuts[kind][i]]]
       IN  of("click") \o of("hover") \o of("type") \o of("upload")

\* merge_headers: those of SNIFF_DEFAULT_HEADERS whose values are strings, then the flags'.
MergeHeaders(env, specs) ==
  IF env.malformed \/ \E i \in DOMAIN specs : "" \in Range(specs[i]) THEN Failed
  ELSE LET named(h) == {i \in DOMAIN specs : specs[i][1] = h}
           strings == {h \in DOMAIN env.headers : env.headers[h] # "number"}
       IN  Ok([h \in strings \cup {specs[i][1] : i \in DOMAIN specs} |->
                 IF named(h) = {} THEN env.headers[h]
                 ELSE specs[CHOOSE i \in named(h) : \A j \in named(h) : j <= i][2]])

\* CaptureArgs::into_config
IntoConfig(args, env) ==
  LET selector == IF args.selector = Blank /\ IsFlutter(args) THEN Word("root") ELSE args.selector
      wait == IF args.wait = << >> THEN Ok(DefaultPipeline(selector))
              ELSE Collect([i \in DOMAIN args.wait |-> ParseWaitStrategy(args.wait[i])])
      specs == ActionSpecs(args)
      actions == Collect([i \in DOMAIN specs |-> ParseAction(specs[i])])
      headers == MergeHeaders(env, args.header)
      viewport == IF args.viewport = {} THEN Ok(<<1366, 768>>)
                  ELSE ParseViewport(CHOOSE v \in args.viewport : TRUE)
      format == IF args.no_summary THEN Ok("JsonLines")
                ELSE IF args.summary THEN Ok("Summary") ELSE ParseFormat(args.output)
      categories == ParseCategories(args.categories)
  IN  IF \/ args.url.scheme = "none" \/ selector = Blank
         \/ ~ (wait.ok /\ actions.ok /\ headers.ok /\ viewport.ok /\ format.ok /\ categories.ok)
      THEN Failed
      ELSE Ok([url |-> args.url, selector |-> selector, categories |-> categories.value,
               custom_properties |-> args.props, wait |-> wait.value, actions |-> actions.value,
               headers |-> headers.value, viewport |-> viewport.value, format |-> format.value,
               toggles |-> [t \in Toggles |-> \/ t \in args.on \ args.off /\ ~ args.full
                                              \/ t = "ax" /\ args.ax_tree],
               ax_tree |-> args.ax_tree,
               effects |-> args.effects, pretty |-> args.pretty, hidden |-> args.hidden,
               storage_state |-> args.storage_state, rest |-> args.rest])

-----------------------------------------------------------------------------
(* The MCP server. *)

\* What a request of sniff_page asks for unless it says otherwise.
SniffPageRequest ==
  [categories |-> <<"all">>, wait |-> << >>, actions |-> << >>, headers |-> << >>,
   viewport |-> <<1366, 768>>, format |-> "jsonl", on |-> Toggles, full |-> FALSE,
   ax_tree |-> FALSE, effects |-> TRUE, storage_state |-> "", rest |-> "defaults",
   persist |-> TRUE, screenshot |-> FALSE, return |-> "summary"]

\* ServerDefaults::from_env: one value that is no string, and there are no default headers.
FromEnv(env) ==
  [headers |-> IF env.malformed \/ "number" \in Range(env.headers) THEN << >> ELSE env.headers,
   storage_state |-> env.storage_state, base_url |-> env.base_url]

\* resolve_url
ResolveUrl(url, base) ==
  IF base # "" /\ url.scheme = "relative" THEN [scheme |-> "web", host |-> base] ELSE url

ActionFromInput(input) ==
  IF \/ input.kind \notin {"click", "hover", "type", "upload"}
     \/ input.kind \in {"type", "upload"} /\ input.given = {}
     \/ input.kind = "upload" /\ input.given = {<< >>}
  THEN Failed
  ELSE Ok(Action(input.kind, input.selector,
                 IF input.kind \in {"type", "upload"} THEN CHOOSE g \in input.given : TRUE ELSE << >>,
                 IF input.timeout = {} THEN DefaultTimeoutMs ELSE CHOOSE t \in input.timeout : TRUE,
                 IF input.settle = {} THEN DefaultSettleMs ELSE CHOOSE t \in input.settle : TRUE))

\* build_sniff_config_with
BuildSniffConfigWith(request, defaults) ==
  LET wait == IF request.wait = << >> THEN Ok(DefaultPipeline(request.selector))
              ELSE Collect([i \in DOMAIN request.wait |-> ParseWaitStrategy(request.wait[i])])
      actions == Collect([i \in DOMAIN request.actions |-> ActionFromInput(request.actions[i])])
      viewport == ParseViewport(request.viewport)
      format == ParseFormat(request.format)
      categories == ParseCategories(request.categories)
      own == request.headers
  IN  IF ~ (wait.ok /\ actions.ok /\ viewport.ok /\ format.ok /\ categories.ok) THEN Failed
      ELSE Ok([url |-> ResolveUrl(request.url, defaults.base_url), selector |-> request.selector,
               categories |-> categories.value, custom_properties |-> << >>,
               wait |-> wait.value, actions |-> actions.value,
               headers |-> [h \in DOMAIN own \cup DOMAIN defaults.headers |->
                              IF h \in DOMAIN own THEN own[h] ELSE defaults.headers[h]],
               viewport |-> viewport.value, format |-> format.value,
               toggles |-> [t \in Toggles |-> \/ t \in request.on /\ ~ request.full
                                              \/ t = "ax" /\ request.ax_tree],
               ax_tree |-> request.ax_tree, effects |-> request.effects, pretty |-> FALSE,
               hidden |-> {}, storage_state |->
                 IF request.storage_state # "" THEN request.storage_state ELSE defaults.storage_state,
               rest |-> request.rest])
=============================================================================
