---------------------------- MODULE CaptureCommand ----------------------------
(***************************************************************************)
(* `sniff capture` (crates/sniff-css/src/commands/capture.rs) and the MCP  *)
(* tool sniff_page (crates/sniff-css-mcp/src/server.rs) around a capture:  *)
(* what was asked for, the items of a batch, and where the payloads go.    *)
(* The capture itself is PagePipeline's and FlutterCapture's; here it      *)
(* succeeds or fails.                                                      *)
(***************************************************************************)
EXTENDS Invocation, CaptureRequest

\* What a command line can say of an interaction: a selector with colons is none for type: or upload:,
\* which take no times; one that ends in a number is none for click:; no text or name is empty.
Expressible(input) ==
  /\ input.selector \in Seq(Token) \ {<< >>, <<Blank>>}
  /\ IF input.kind \in {"type", "upload"}
     THEN /\ Len(input.selector) = 1 /\ input.timeout \cup input.settle = {}
          /\ \A given \in input.given :
               /\ input.given = {given}
               /\ IF input.kind = "type" THEN given \in Seq(Token) \ {<< >>, <<Blank>>}
                                         ELSE given \in Seq(STRING \ {""})
     ELSE ~ Last(input.selector).digits

ASSUME RequestsExpressible ==
  \A r \in Runs : r.verb = "page" =>
    /\ r.request.url.scheme # "none" /\ r.request.selector # Blank
    /\ IsFiniteSet(DOMAIN r.request.headers)
    /\ \A h \in DOMAIN r.request.headers : h # "" /\ r.request.headers[h] # ""
    /\ \A k \in DOMAIN r.request.actions : Expressible(r.request.actions[k])

-----------------------------------------------------------------------------
(* sniff capture *)

\* input.rs, merge: the fields of an item replace those of the command line.
Merge(base, item) ==
  [field \in DOMAIN base |-> IF field \in DOMAIN item.fields THEN item.fields[field] ELSE base[field]]

\* --json is the output for machines.
ApplyGlobal(args) ==
  IF run.json THEN [args EXCEPT !.output = "json", !.summary = FALSE, !.no_summary = FALSE] ELSE args

\* --dry-run: the configuration that the item asks for.
Validates(item) == item.ok /\ IntoConfig(Merge(run.args, item), run.env).ok

CaptureRequests ==
  /\ phase = "capture" /\ run.verb = "capture"
  /\ IF run.batch /\ Len(run.items) \notin 1..BatchMax
     THEN Fail(Invalid) /\ UNCHANGED results
     ELSE IF run.dry_run
     THEN /\ results' = [i \in DOMAIN run.items |-> [ok |-> Validates(run.items[i])]]
          /\ Fail(IF \A i \in DOMAIN run.items : Validates(run.items[i]) THEN 0 ELSE Invalid)
     ELSE phase' = "operation" /\ UNCHANGED <<results, exit>>
  /\ UNCHANGED <<run, files, clock>>

\* What is missing for the item to be captured: the flutter backend needs a device.
Refusal(item) ==
  LET args == ApplyGlobal(Merge(run.args, item))
  IN  IF ~ item.ok THEN "malformed"
      ELSE IF ~ IntoConfig(args, run.env).ok THEN "config"
      ELSE IF IsFlutter(args) /\ args.avd = "" /\ args.device = "" /\ FlutterDevice(args.url) = ""
      THEN "device" ELSE "none"

CodeOf(why) == IF why \in {"malformed", "device"} THEN Invalid ELSE Internal

\* Mutated: a batch persists where it is told to, only
AsTold(args) == args.persist

\* A batch never throws a payload away: without a destination it goes to the store.
Destination(args) == IF run.batch /\ args.persist = {} THEN {""} ELSE args.persist

\* snapshot_file_name
Named(url, selector, ext) == <<clock, url, selector, ext>>

\* emit: the payload replaces what its file held.
Emit(i, args, config) ==
  LET url  == IF IsFlutter(args) THEN [scheme |-> "flutter", host |->
                IF args.device # "" THEN args.device ELSE FlutterDevice(args.url)] ELSE config.url
      path == IF Destination(args) = {""}
              THEN Named(url, config.selector, IF config.format = "Json" THEN "json" ELSE "jsonl")
              ELSE <<CHOOSE p \in Destination(args) : TRUE>>
  IN  /\ results' = Append(results, [ok |-> TRUE, path |-> IF Destination(args) = {} THEN << >> ELSE path])
      /\ files' = IF Destination(args) = {} THEN files ELSE Overwrite(files, path, i)

\* run_item: refused, failed by the browser or the device, or emitted.
Operation(works) ==
  /\ phase = "operation"
  /\ Len(results) < Len(run.items)
  /\ LET i    == Len(results) + 1
         args == ApplyGlobal(Merge(run.args, run.items[i]))
         why  == Refusal(run.items[i])
     IN  IF why = "none" /\ works
         THEN Emit(i, args, IntoConfig(args, run.env).value) /\ UNCHANGED <<phase, exit>>
         ELSE /\ IF run.batch THEN results' = Append(results, [ok |-> FALSE]) /\ UNCHANGED <<phase, exit>>
                              ELSE Fail(CodeOf(why)) /\ UNCHANGED results
              /\ UNCHANGED files
  /\ UNCHANGED <<run, clock>>

\* run_batch, after its items: one that failed fails the batch.
Complete ==
  /\ phase = "operation"
  /\ Len(results) = Len(run.items)
  /\ Fail(IF \A i \in DOMAIN results : results[i].ok THEN 0 ELSE Invalid)
  /\ UNCHANGED <<run, files, results, clock>>

ClockTicks ==
  /\ phase = "operation"
  /\ clock < MaxClock
  /\ clock' = clock + 1
  /\ UNCHANGED <<run, files, results, phase, exit>>

-----------------------------------------------------------------------------
(* sniff_page *)

\* The handle is only asked for after the capture: without persist there is none to return.
SniffPage(works) ==
  /\ phase = "capture" /\ run.verb = "page"
  /\ LET built == BuildSniffConfigWith(run.request, FromEnv(run.env))
         kept(exts) == [p \in {Named(built.value.url, built.value.selector, e) : e \in exts} |-> 1]
         persisted == {e \in {"jsonl"} : run.request.persist} \cup {e \in {"png"} : run.request.screenshot}
     IN  IF ~ built.ok \/ ~ works
         THEN results' = <<[ok |-> FALSE]>> /\ UNCHANGED files
         ELSE /\ files' = kept(persisted) @@ files
              /\ results' = <<IF run.request.return = "reference" /\ ~ run.request.persist THEN [ok |-> FALSE]
                              ELSE [ok |-> TRUE, config |-> built.value]>>
  /\ phase' = "done"
  /\ UNCHANGED <<run, exit, clock>>

CaptureNext ==
  \/ CaptureRequests \/ Complete \/ ClockTicks
  \/ \E works \in BOOLEAN : Operation(works) \/ SniffPage(works)

-----------------------------------------------------------------------------

\* "Lote nunca descarta payload": the handle of every item of a batch that succeeded names
\* the file with its payload, but for a later item of the batch that was to go to the same
\* file: one named to both, or one of the same second, page, selector and kind.
PayloadReachable ==
  run.verb = "capture" /\ run.batch /\ ~ run.dry_run =>
    \A i \in DOMAIN results : results[i].ok =>
      /\ results[i].path \in DOMAIN files
      /\ \/ files[results[i].path] = i
         \/ \E j \in DOMAIN results : j > i /\ results[j].ok /\ results[j].path = results[i].path

\* The command line that asks for what a request of sniff_page asks for.
SpecOf(input) ==
  LET number(given, default) == <<Ms(IF given = {} THEN default ELSE CHOOSE n \in given : TRUE)>>
      text == CHOOSE g \in input.given : TRUE
  IN  [kind |-> input.kind, tokens |-> input.selector \o
         IF input.kind \in {"type", "upload"}
         THEN IF input.given = {} THEN << >>
              ELSE IF input.kind = "type" THEN text
              ELSE <<IF text = << >> THEN Blank ELSE List(text)>>
         ELSE (IF input.timeout \cup input.settle = {} THEN << >>
               ELSE number(input.timeout, DefaultTimeoutMs))
              \o (IF input.settle = {} THEN << >> ELSE number(input.settle, DefaultSettleMs))]

CommandLine(request) ==
  [url |-> request.url, selector |-> request.selector, categories |-> request.categories, props |-> << >>,
   wait |-> request.wait, actions |-> [k \in DOMAIN request.actions |-> SpecOf(request.actions[k])],
   shortcuts |-> [click |-> << >>, hover |-> << >>, type |-> << >>, upload |-> << >>],
   header |-> SetToSeq({<<h, request.headers[h]>> : h \in DOMAIN request.headers}),
   storage_state |-> request.storage_state, viewport |-> {request.viewport}, output |-> request.format,
   summary |-> FALSE, no_summary |-> FALSE, pretty |-> FALSE, hidden |-> {}, on |-> request.on,
   off |-> Toggles \ request.on, full |-> request.full, ax_tree |-> request.ax_tree,
   effects |-> request.effects, rest |-> request.rest, backend |-> "auto"]

\* Captures of the two surfaces compare: a request that sniff_page takes is the same capture
\* as the command line that spells it out, and both refuse the same ones, when the server has
\* no defaults that the command line lacks, and SNIFF_DEFAULT_HEADERS holds texts.
SurfacesAgree ==
  run.verb = "page" /\ results # << >> /\ run.env.base_url = "" /\ run.env.storage_state = ""
                    /\ ~ run.env.malformed /\ "number" \notin Range(run.env.headers) =>
    LET cli == IntoConfig(CommandLine(run.request), run.env)
        mcp == BuildSniffConfigWith(run.request, FromEnv(run.env))
    IN  /\ cli.ok = mcp.ok
        /\ results[1].ok => results[1].config = cli.value
=============================================================================
