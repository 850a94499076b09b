--------------------------- MODULE MCSniffCommands ---------------------------
(* Invocations of the commands.  Small pages that are captured, diffed and checked: lists of
   cards, with and without anchors; layers that overlap; elements under clipping and
   transformed ancestors; text over translucent layers.  Captures that are asked for: requests
   that vary one or two things from a plain one, batches that inherit from the command line.
   Files that `sniff init` updates. *)
EXTENDS SniffCommands, OfflineCommands

Ix(s) == 1..Len(s)

Px(n)   == [n |-> n, u |-> "px"]
Num(n)  == [n |-> n, u |-> ""]
Keyword(w) == [n |-> 0, u |-> w]
Lum(n, alpha) == [n |-> n, u |-> alpha]

MCCategory ==
  [p \in {"width", "min-width", "box-sizing", "overflow-x", "overflow-y", "padding-left",
          "padding-right", "margin-top", "margin-block-start"} |-> "box_model"]
  @@ [p \in {"display", "position", "top", "left", "z-index", "contain"} |-> "layout"]
  @@ [p \in {"font-size", "font-weight", "line-height", "text-overflow", "white-space"} |-> "typography"]
  @@ [p \in {"color", "background-color", "background-image", "opacity", "outline-width",
             "outline-style", "box-shadow", "filter", "isolation"} |-> "visual"]
  @@ [p \in {"transform", "perspective"} |-> "transform"]
  @@ [p \in {"animation-iteration-count", "animation-duration", "transition-property"} |-> "animation"]
  @@ [p \in {"cursor", "pointer-events", "user-select"} |-> "interaction"]
  @@ [p \in {"--accent"} |-> "css_variables"]

MCSlim == {"width", "z-index", "color", "background-color", "margin-top", "font-size", "opacity"}
MCKept == {"display", "position", "z-index", "opacity", "box-sizing", "cursor", "pointer-events",
           "user-select", "font-size", "font-weight", "line-height", "color", "width", "min-width",
           "transform", "perspective", "filter", "box-shadow", "background-color",
           "background-image", "white-space", "overflow-x", "overflow-y", "isolation",
           "animation-duration", "animation-iteration-count", "transition-property"}
MCPhysical == "margin-block-start" :> "margin-top"
MCNoise == {Px(0), Num(0), Keyword("none"), Keyword("normal"), Keyword("auto"), Keyword("visible")}

MCSignature == <<"display", "z-index", "width", "color", "opacity", "background-color">>
MCRootSignature == {"display", "color", "opacity", "background-color", "font-family"}

Plain == [tag |-> "DIV", z |-> {}, stacking |-> FALSE, visible |-> TRUE, grade |-> "FULL", focusable |-> FALSE,
          named |-> FALSE, text |-> FALSE, contrast |-> [aa |-> "none", aaa |-> "none"]]
Worded  == [Plain EXCEPT !.tag = "P", !.text = TRUE]
Button  == [Plain EXCEPT !.tag = "BUTTON", !.text = TRUE, !.focusable = TRUE]


El(tag, anchor, match, css, rect, facet, kids) ==
  [tag |-> tag, anchor |-> anchor, match |-> match, passes |-> TRUE, css |-> css,
   pseudo |-> Empty, rect |-> rect, facet |-> facet, kids |-> kids]

HeadEl == El("head", "", FALSE, "display" :> Keyword("none"), << >>, [Plain EXCEPT !.visible = FALSE], << >>)
Html(css, kids) ==
  El("html", "", FALSE, Empty, << >>, Plain,
     <<HeadEl, El("body", "", FALSE, css, << >>, Plain, kids)>>)

Page(html, globals, steps) ==
  [html |-> html, depth |-> 3, globals |-> globals, steps |-> steps,
   ax |-> FALSE, viewport |-> 1000]

-----------------------------------------------------------------------------
(* Cards: a list whose cards come, go, change places and change. *)

Accent == "--accent" :> Keyword("blue")

CardCss(width, margin) ==
  "width" :> Px(width) @@ "margin-top" :> Px(margin) @@ "margin-block-start" :> Px(margin)
  @@ "display" :> Keyword("block") @@ "outline-width" :> Px(0) @@ Accent

Card(anchor, width, margin) ==
  El("card", anchor, TRUE, CardCss(width, margin), <<0, 0, width, 500>>, Worded, << >>)

Tall   == Card("", 1000, 40)
Wide   == Card("", 1002, 40)
Flush  == [Card("", 1000, 0) EXCEPT !.pseudo = "color" :> Lum(20, "opaque")]
Nested == [Card("", 1000, 40) EXCEPT !.kids = <<El("price", "", FALSE, CardCss(300, 0), << >>, Worded, << >>)>>]
Alt    == [Card("", 1000, 40) EXCEPT !.css = @ @@ "color" :> Lum(20, "opaque"), !.passes = FALSE]

Lists == <<  <<Tall>>, <<Tall, Wide>>, <<Wide, Tall>>, <<Flush, Tall, Wide>>,
             <<Nested, Tall>>, <<Tall, Alt, Wide>>,
             <<Card("#a", 1000, 40), Card("#b", 900, 40)>>, <<Card("#b", 900, 40), Card("#a", 1000, 40)>> >>

NoActions == << >>

ListOf(cards) == Html(Accent, <<El("list", "", FALSE, CardCss(1000, 0), << >>, Plain, cards)>>)

\* What was clicked to come to the list: a card that added the others, a card that did nothing.
Target(cards) == [path |-> <<<<"card", 1>>>>, rect |-> cards[1].rect]
Click(before, after, limit) ==
  [kind |-> "click", selector |-> ".card", target |-> Target(after), before |-> ListOf(before),
   after |-> ListOf(after), view |-> <<1000, 800>>, limit |-> limit]

Of(cards) == Page(ListOf(cards), Accent,
  IF Len(cards) = 2 THEN <<Click(<<cards[1]>>, cards, 0), Click(<<Tall, Flush>>, cards, 1)>>
  ELSE IF Len(cards) = 3 THEN <<Click(cards, cards, 2)>> ELSE NoActions)

\* The list itself is captured, its cards in it.
AsOne(cards) ==
  Page(Html(Empty, <<El("list", "", TRUE, CardCss(1000, 0), << >>, Plain,
                        [i \in DOMAIN cards |-> [cards[i] EXCEPT !.match = FALSE]])>>),
       Empty, NoActions)

-----------------------------------------------------------------------------
(* Layers: boxes of three sizes at x, of a z-index or none, in all orders. *)

Box(x, width, z, opacity) ==
  El("box", "", TRUE, "position" :> Keyword("absolute") @@ "top" :> Px(0) @@ "opacity" :> Num(opacity)
                      @@ IF z = {} THEN Empty ELSE "z-index" :> Num(CHOOSE k \in z : TRUE),
     <<x, 0, width, 1000>>, [Plain EXCEPT !.z = z], << >>)

\* One that only the page knows to be a stacking context.
Contained == [Box(200, 300, {3}, 10) EXCEPT !.css = "position" :> Keyword("static") @@ "contain" :> Keyword("paint") @@ @]

Boxes == <<Box(0, 1000, {}, 10), Box(100, 400, {2}, 10), Box(300, 500, {1}, 10), Box(900, 500, {-1}, 5), Contained>>
In(b, kids) == [b EXCEPT !.kids = kids]

Layers ==
  [k \in {"layers"} \X Ix(Boxes) \X Ix(Boxes) \X Ix(Boxes) |->
     Page(Html(Empty, <<Boxes[k[2]], Boxes[k[3]], Boxes[k[4]]>>), Empty, NoActions)]
  @@ [k \in {"inside"} \X Ix(Boxes) \X Ix(Boxes) \X Ix(Boxes) |->
     Page(Html(Empty, <<In(Boxes[k[2]], <<[Boxes[k[3]] EXCEPT !.match = FALSE]>>), Boxes[k[4]]>>),
          Empty, NoActions)]

\* Ancestors: sticky and fixed elements under boxes that clip, transform, or do nothing.
Sticky == El("bar", "", FALSE, "position" :> Keyword("sticky"), <<0, 0, 1200, 300>>, Button, << >>)
Fixed  == El("toast", "", FALSE, "position" :> Keyword("fixed"), <<0, 0, 200, 100>>, Button, << >>)
Wraps  == <<"overflow-x" :> Keyword("hidden"), "transform" :> Keyword("matrix"),
            "display" :> Keyword("flex") @@ "overflow-y" :> Keyword("clip")>>
Wrap(css, kids) == El("wrap", "", FALSE, css, <<0, 0, 900, 900>>, Plain, kids)

Nests ==
  [k \in {"nest"} \X Ix(Wraps) \X Ix(Wraps) |->
     Page(Html(Empty, <<[Wrap(Wraps[k[2]], <<Wrap(Wraps[k[3]], <<Sticky, Fixed>>), Sticky>>)
                          EXCEPT !.match = TRUE]>>), Empty, NoActions)]

\* Colours: text over layers over the document.
Layer(bg, image, kids) ==
  El("layer", "", FALSE, "background-color" :> bg @@
       (IF image THEN "background-image" :> Keyword("url") ELSE Empty), <<0, 0, 900, 900>>, Plain, kids)
Paragraph == El("p", "", FALSE, "color" :> Lum(10, "opaque") @@ "font-size" :> Px(160), <<0, 0, 400, 200>>, Worded, << >>)
Whole(page) == [page EXCEPT !.html.match = TRUE]
Tints == <<Lum(80, "opaque"), Lum(20, "translucent"), Lum(0, "transparent")>>

\* The document element has a layer of its own, or only the body.
Roots == <<Empty, "background-color" :> Lum(50, "opaque"), "background-color" :> Lum(50, "translucent")>>

Colours ==
  [k \in {"tints"} \X Ix(Tints) \X Ix(Tints) \X Ix(Tints) \X BOOLEAN \X Ix(Roots) |->
     [Whole(Page(Html("background-color" :> Tints[k[2]],
                      <<Layer(Tints[k[3]], k[5], <<Layer(Tints[k[4]], FALSE, <<Paragraph>>)>>)>>),
                 Empty, NoActions)) EXCEPT !.html.css = Roots[k[6]]]]

\* A button that shows nothing when it has the focus.
Unfocused ==
  El("go", "", TRUE, "outline-width" :> Px(0) @@ "outline-style" :> Keyword("none") @@ "box-shadow" :> Keyword("none"),
     <<0, 0, 400, 300>>, Button, << >>)

\* What a click does: pages of a large and a small box, hidden, moved, recoloured, gone; one
\* with a script, one of a box far down, twice; a box that changes its place under ancestors too
\* far up to be in its path; an SVG that holds a shape, nothing, or a box that is not its own.
Hero  == Box(0, 1000, {}, 10)
Badge == Box(900, 100, {2}, 10)
In3(kids) == Wrap(Empty, <<Wrap(Empty, <<Wrap(Empty, kids)>>)>>)
In4(tag, kids) == [Wrap(Empty, <<In3(kids)>>) EXCEPT !.tag = tag]
Icon(kids) == El("icon", "", FALSE, Empty, <<0, 0, 200, 200>>, [Plain EXCEPT !.tag = "svg"], kids)
Foreign(kids) == El("foreign", "", FALSE, Empty, <<0, 0, 200, 200>>, [Plain EXCEPT !.tag = "foreignObject"], kids)
Moments ==
  <<  <<Hero, Badge>>, <<[Hero EXCEPT !.css = @ @@ "color" :> Lum(20, "opaque")], Badge>>,
      <<[Hero EXCEPT !.rect[2] = 300], [Badge EXCEPT !.css = @ @@ "color" :> Lum(20, "opaque")]>>,
      <<Box(0, 1000, {}, 0), [Badge EXCEPT !.rect[1] = 904]>>, <<Hero>>,
      <<Hero, Badge, El("script", "", FALSE, Empty, << >>, [Plain EXCEPT !.tag = "SCRIPT"], << >>)>>,
      <<In3(<<Hero>>), In3(<<Hero>>)>>, <<In3(<<[Hero EXCEPT !.rect[2] = 300]>>), In3(<<Hero>>)>>,
      <<In4("main", <<Badge>>), In4("side", << >>)>>, <<In4("main", << >>), In4("side", <<Badge>>)>>,
      <<Icon(<<Badge>>)>>, <<Icon(<< >>)>>, <<Icon(<<Foreign(<<Badge>>)>>)>>  >>

Then(b, a, limit) ==
  [kind |-> "click", selector |-> ".box", target |-> [path |-> <<<<"box", 1>>>>, rect |-> Hero.rect],
   before |-> Html(Empty, b), after |-> Html(Empty, a), view |-> <<1000, 800>>, limit |-> limit]

Clicks ==
  [k \in {"click"} \X Ix(Moments) \X Ix(Moments) |->
     Page(Html(Empty, Moments[k[3]]), Empty,
          [limit \in 1..2 |-> Then(Moments[k[2]], Moments[k[3]], limit - 1)])]

Cards == [k \in {"cards"} \X Ix(Lists) |-> Of(Lists[k[2]])]
Lone  == [k \in {"list"} \X Ix(Lists) |-> AsOne(Lists[k[2]])]

MCPages == Cards @@ Lone @@ Layers @@ Nests @@ Colours @@ Clicks
           @@ <<"unfocused">> :> Page(Html(Empty, <<Unfocused>>), Empty, NoActions)

\* The documents, and what they consist of down to eight generations.
And(els) == els \cup UNION {Range(el.kids) : el \in els}
MCElements == And(And(And(And(And(And(And(And(UNION {DocumentsOf(page) : page \in Range(MCPages)}))))))))

-----------------------------------------------------------------------------
(* Invocations. *)

Cfg(format, compact) == [format |-> format, compact |-> compact, grouped |-> TRUE]
Full    == Cfg("jsonl", FALSE)
Compact == Cfg("jsonl", TRUE)
Flat    == Cfg("jsonl-flat", TRUE)

Opts(tolerance) ==
  [tolerance |-> tolerance, ignore |-> {}, ignore_structural |-> FALSE, no_actions |-> FALSE,
   rules |-> FALSE, uniform |-> FALSE]

Invoke(verb, b, h, cb, ch, opts, items, batch) ==
  [verb |-> verb, mcp |-> FALSE, page |-> [base |-> b, head |-> h], cfg |-> [base |-> cb, head |-> ch],
   batch |-> batch, piped |-> FALSE, dry_run |-> FALSE, items |-> items, opts |-> opts]

Diff(b, h, cb, ch, opts) == Invoke("diff", b, h, cb, ch, opts, <<"files">>, FALSE)
Check(page, cfg) == Invoke("check", page, page, cfg, cfg, Opts(0), <<"files">>, FALSE)

Diffs ==
  {Diff(of[1], of[2], c, c, Opts(0)) :
     of \in ((DOMAIN Cards) \X (DOMAIN Cards)) \cup ((DOMAIN Lone) \X (DOMAIN Lone)), c \in {Full, Compact, Flat}}
  \cup {Diff(b, h, Full, Full, Opts(4)) : b, h \in DOMAIN Cards}
  \cup {Diff(<<"click", 1, b>>, <<"click", 1, h>>, Full, Full, Opts(t)) : b, h \in {1, 3, 4, 6}, t \in {0, 5}}
  \cup {Diff(<<"list", 2>>, <<"list", 1>>, c, c, o) :
          c \in {Full, [Full EXCEPT !.grouped = FALSE]},
          o \in {[Opts(0) EXCEPT !.ignore = {"width"}], [Opts(0) EXCEPT !.ignore_structural = TRUE],
                 [Opts(0) EXCEPT !.no_actions = TRUE]}}

\* One invocation on its own, batches with an item of each kind, an empty batch and one too
\* long, a batch that is only tried, batches with stdin among their items.
Items == {<<"files", "malformed", "files">>, <<"missing", "files">>, << >>, <<"files", "files", "files", "files">>}
Batches ==
  {Invoke(verb, <<"cards", 2>>, <<"cards", 1>>, Full, c, Opts(0), items, TRUE) :
     verb \in {"diff", "check"}, items \in Items,
     c \in {Full, Cfg("summary", TRUE), Cfg("json", FALSE)}}
  \cup {[Invoke("diff", <<"cards", 2>>, <<"cards", 1>>, Full, Full, Opts(0), <<i, j, "stdin">>, TRUE)
           EXCEPT !.piped = piped] :
          piped \in BOOLEAN, i, j \in {"malformed"} \cup DOMAIN Operands}
  \cup {[Invoke("check", <<"cards", 2>>, <<"cards", 2>>, Full, Full, Opts(0), items, TRUE) EXCEPT !.piped = piped] :
          piped \in BOOLEAN, items \in [1..3 -> {"files", "stdin", "missing"}]}
  \cup {Invoke("diff", <<"cards", 5>>, <<"cards", 1>>, Compact, Compact, Opts(0), <<i>>, FALSE) :
          i \in {"malformed"} \cup DOMAIN Operands}
  \cup {Invoke("check", <<"cards", 1>>, <<"cards", 1>>, Full, Full, Opts(0), <<i>>, FALSE) :
          i \in {"files", "stdin", "missing"}}
  \cup {[Invoke("diff", <<"cards", 1>>, <<"cards", 1>>, Full, Full, Opts(0), <<"files", "malformed">>, TRUE)
           EXCEPT !.dry_run = TRUE]}

\* The same through the MCP server, which takes one pair and has no dry run.
Tools ==
  {[r EXCEPT !.mcp = TRUE, !.opts.rules = rules, !.opts.uniform = uniform] :
     rules, uniform \in BOOLEAN,
     r \in {Check(page, Compact) : page \in {<<"unfocused">>, <<"cards", 4>>}}
          \cup {Invoke(verb, <<"cards", 5>>, <<"cards", 1>>, c, c, Opts(0), <<i>>, FALSE) :
                   verb \in {"diff", "check"}, c \in {Compact, Flat}, i \in {"files", "missing"}}}

MCRuns ==
  Diffs \cup Batches \cup Tools
  \cup {Check(page, Full) : page \in DOMAIN Layers \cup DOMAIN Nests \cup DOMAIN Colours \cup DOMAIN Cards \cup DOMAIN Clicks}
  \cup {Check(page, Compact) : page \in DOMAIN Nests}

-----------------------------------------------------------------------------
(* Captures that are asked for. *)

T(t)  == Word(t)

Web(host)  == [scheme |-> "web", host |-> host]
Wait(name, tokens) == [name |-> name, tokens |-> tokens]
NoHeaders  == [h \in {} |-> ""]

Shell == [malformed |-> FALSE, headers |-> NoHeaders, storage_state |-> "", base_url |-> ""]
Shells ==
  {Shell, [Shell EXCEPT !.malformed = TRUE], [Shell EXCEPT !.headers = "token" :> "team"],
   [Shell EXCEPT !.headers = "token" :> "team" @@ "retries" :> "number"],
   [Shell EXCEPT !.storage_state = "team.json"], [Shell EXCEPT !.base_url = "cms"]}

Plainly == [CaptureArgs EXCEPT !.url = Web("site"), !.selector = T("card"), !.output = "jsonl"]

-----------------------------------------------------------------------------
(* sniff_page *)

Input(kind, selector, given, timeout, settle) ==
  [kind |-> kind, selector |-> selector, given |-> given, timeout |-> timeout, settle |-> settle]

NthChild == <<T("li"), T("nth-child(2)")>>  \* li:nth-child(2)

Inputs ==
  {Input(kind, sel, {}, timeout, settle) : kind \in {"click", "hover", "drag"},
     sel \in {<<T("btn")>>, NthChild}, timeout \in {{}, {0}, {3000}}, settle \in {{}, {50}}}
  \cup {Input("type", <<T("field")>>, given, {}, {}) :
     given \in {{}, {<<T("text")>>}, {<<T("at"), Ms(10), Ms(30)>>}}}
  \cup {Input("upload", <<T("file")>>, given, {}, {}) : given \in {{}, {<< >>}, {<<"a.png", "b.png">>}}}

Waits ==
  {Wait("delay", <<Ms(500)>>), Wait("delay", << >>), Wait("delay", <<T("soon")>>),
   Wait("network_idle", <<Ms(400)>>), Wait("network_idle", <<Ms(400), Ms(9000), Ms(1)>>),
   Wait("fonts_loaded", << >>), Wait("selector", <<T("card"), Ms(10)>>), Wait("selector", << >>),
   Wait("element_ready", <<T("card"), List(<<"visible", "size">>)>>),
   Wait("element_ready", <<T("card"), List(<<"visible", "big">>)>>),
   Wait("app_flag", <<T("ready")>>), Wait("forever", << >>)}

Request == SniffPageRequest @@ [url |-> Web("site"), selector |-> T("card")]

Requested ==
  {[Request EXCEPT !.actions = <<input>>] : input \in Inputs}
  \cup {[Request EXCEPT !.actions = <<i, Input("click", NthChild, {}, {1}, {})>>] : i \in Inputs}
  \cup {[Request EXCEPT !.wait = <<w>>] : w \in Waits}
  \cup {[Request EXCEPT !.viewport = v, !.format = f] :
          v \in {<<390, 844>>, <<0, 844>>, <<390>>}, f \in {"ndjson", "slim", "jsonl_flat", "json", "yaml"}}
  \cup {[Request EXCEPT !.on = on, !.full = full, !.ax_tree = tree] :
          on \in {{}, {"ax"}, {"compact", "contrast"}, Toggles}, full, tree \in BOOLEAN}
  \cup {[Request EXCEPT !.categories = c] : c \in {<<"visual", "">>, << >>, <<"colour">>}}
  \cup {[Request EXCEPT !.persist = p, !.screenshot = s, !.return = r] :
          p, s \in BOOLEAN, r \in {"summary", "reference"}}

Pagings ==
  {[verb |-> "page", request |-> r, env |-> Shell] : r \in Requested}
  \cup {[verb |-> "page", env |-> e,
         request |-> [Request EXCEPT !.headers = h, !.url = u, !.storage_state = s]] :
          e \in Shells, h \in {NoHeaders, "token" :> "own", "lang" :> "pt" @@ "token" :> "own"},
          u \in {Web("site"), [scheme |-> "relative", host |-> "dashboard"]}, s \in {"", "own.json"}}

-----------------------------------------------------------------------------
(* sniff capture *)

Capturing(args, env, json, batch, dry_run, items) ==
  [verb |-> "capture", args |-> args, env |-> env, json |-> json, batch |-> batch,
   dry_run |-> dry_run, items |-> items]

Malformed == [ok |-> FALSE]
Fields(f) == [ok |-> TRUE, fields |-> f]
NoFields  == Fields([k \in {} |-> ""])
Flutter   == [scheme |-> "flutter", host |-> ""]

ItemsOf ==
  {Malformed, NoFields, Fields("output" :> "yaml"), Fields("output" :> "json"),
   Fields("persist" :> {"kept"}), Fields("url" :> Flutter),
   Fields("url" :> [Flutter EXCEPT !.host = "emulator-5554"]), Fields("backend" :> "flutter" @@ "device" :> "phone"),
   Fields("shortcuts" :> [Plainly.shortcuts EXCEPT !.click = <<<<T("btn"), Ms(1), Ms(2), Ms(3)>>>>]),
   Fields("selector" :> T("menu") @@ "persist" :> {""}), Fields("no_summary" :> TRUE),
   Fields("summary" :> TRUE @@ "header" :> <<<<"token", "mine">>, <<"token", "">>>>)}

Bases == {Plainly, [Plainly EXCEPT !.persist = {"base"}], [Plainly EXCEPT !.output = "yaml"]}

Captures ==
  {Capturing(a, Shell, json, FALSE, dry, <<i>>) : a \in Bases, json, dry \in BOOLEAN, i \in ItemsOf}
  \cup {Capturing(a, Shell, json, TRUE, dry, <<i, j>>) :
          a \in Bases, json, dry \in BOOLEAN, i, j \in ItemsOf}
  \cup {Capturing(Plainly, e, FALSE, TRUE, FALSE, items) : e \in Shells,
          items \in {<< >>, <<NoFields, NoFields, NoFields>>, <<NoFields, NoFields, NoFields, NoFields>>}}

-----------------------------------------------------------------------------
(* sniff init: every file of up to three lines, run twice. *)

LineKinds == {"one", "two", "", MarkerBegin, MarkerEnd}
MCTextLine   == LineKinds \cup {"protocol"}
TextsOf(n) == {[lines |-> l, open |-> o] : l \in [1..n -> LineKinds], o \in BOOLEAN}
Texts == {text \in {Nothing} \cup UNION {TextsOf(n) : n \in 1..3} : text.open => Last(text.lines) # ""}

Old == [lines |-> <<"one", "", "", MarkerBegin, "two", MarkerEnd, "", "", "two">>, open |-> FALSE]

MCEdits == {Old, [lines |-> <<"two">>, open |-> TRUE]}

Initializing(file, items, batch, dry_run) ==
  [verb |-> "init", agents |-> file, items |-> items, batch |-> batch, dry_run |-> dry_run]

Inits ==
  {Initializing({text}, <<"plain", "plain">>, TRUE, FALSE) : text \in Texts}
  \cup {Initializing(file, items, TRUE, dry) : file \in {{}, {Old}}, dry \in BOOLEAN,
           items \in {<<"malformed", "plain", "plain">>, <<"force", "plain">>, << >>}}
  \cup {Initializing(file, <<i>>, FALSE, FALSE) : file \in {{}, {Old}}, i \in {"plain", "force", "malformed"}}

AllRuns == MCRuns \cup Captures \cup Pagings \cup Inits
=============================================================================
