------------------------------ MODULE Contrast ------------------------------
(***************************************************************************)
(* WCAG contrast: the background behind an element as the page's script    *)
(* resolves it (extractor.rs, effectiveBackground) and as                  *)
(* crates/sniff-core/src/contrast.rs does from the captured tree, and the  *)
(* verdicts.  A colour is its relative luminance in hundredths, with       *)
(* "opaque", "translucent" (half) or "transparent" as its alpha, or        *)
(* "named" when the parser does not resolve it.                            *)
(***************************************************************************)
EXTENDS Integers, Sequences

Absent == [n |-> 0, u |-> "absent"]

Css(css, p) == IF p \in DOMAIN css THEN css[p] ELSE Absent

Solid(lum) == [kind |-> "solid", lum |-> lum]
Image      == [kind |-> "image", lum |-> 0]
Unknown    == [kind |-> "unknown", lum |-> 0]

HasImage(css) == Css(css, "background-image").u \notin {"absent", "none"}

Blend(over, under) == (over + under) \div 2

\* Mutated: a translucent layer over an image is taken for the layer's own colour
BlendOverAnything(css, below) ==
  LET bg == Css(css, "background-color")
  IN  CASE HasImage(css) -> Image
        [] ~ HasImage(css) /\ bg.u = "opaque" -> Solid(bg.n)
        [] ~ HasImage(css) /\ bg.u = "translucent" -> Solid(Blend(bg.n, below.lum))
        [] OTHER -> below

\* resolve_background: this element's layer over what its ancestors resolved to.
ResolveBackground(css, below) ==
  LET bg == Css(css, "background-color")
  IN  CASE HasImage(css) -> Image
        [] ~ HasImage(css) /\ bg.u = "opaque" -> Solid(bg.n)
        [] ~ HasImage(css) /\ bg.u = "translucent" /\ below.kind = "solid" ->
             Solid(Blend(bg.n, below.lum))
        [] OTHER -> below

\* The canvas above the document element shows its opaque background, or the body's.
Canvas(html, body) ==
  IF Css(html, "background-color").u = "opaque" THEN Solid(Css(html, "background-color").n)
  ELSE IF Css(body, "background-color").u = "opaque" THEN Solid(Css(body, "background-color").n)
  ELSE Unknown

\* effectiveBackground, up the chain of ancestors (the element first) to the canvas.
EffectiveBackground(chain, canvas) ==
  LET behind[k \in 1..(Len(chain) + 1)] ==
        IF k > Len(chain) THEN canvas
        ELSE LET bg == Css(chain[k], "background-color")
                 below == behind[k + 1]
             IN  IF HasImage(chain[k]) THEN Image
                 ELSE IF bg.u = "opaque" THEN Solid(bg.n)
                 ELSE IF bg.u = "translucent" /\ below.kind = "solid"
                 THEN Solid(Blend(bg.n, below.lum)) ELSE below
  IN  behind[1]

-----------------------------------------------------------------------------
\* contrast_ratio(a, b) >= num / 10, with luminances in hundredths.
RatioAtLeast(a, b, num) ==
  LET hi == IF a > b THEN a ELSE b
      lo == IF a > b THEN b ELSE a
  IN  10 * (hi + 5) >= num * (lo + 5)

\* is_large_text; lengths are in tenths of a pixel.
IsLargeText(css) ==
  LET size == Css(css, "font-size").n
  IN  \/ size >= 240
      \/ size * 10 >= 1866 /\ Css(css, "font-weight").n >= 700

Classify(fg, bg, css) ==
  [aa  |-> IF RatioAtLeast(fg, bg, IF IsLargeText(css) THEN 30 ELSE 45) THEN "pass" ELSE "fail",
   aaa |-> IF RatioAtLeast(fg, bg, IF IsLargeText(css) THEN 45 ELSE 70) THEN "pass" ELSE "fail"]

NotMeasured  == [aa |-> "none", aaa |-> "none"]
Unmeasurable == [aa |-> "unknown", aaa |-> "unknown"]

\* The verdict of apply_contrast_node for text of these styles on this background.
ContrastOn(css, bg) ==
  LET fg == Css(css, "color")
  IN  IF bg.kind # "solid" \/ fg.u \notin {"opaque", "translucent"} THEN Unmeasurable
      ELSE Classify(IF fg.u = "translucent" THEN Blend(fg.n, bg.lum) ELSE fg.n, bg.lum, css)

\* derive_contrast_values: from one element's own styles.
DeriveContrastValues(css) ==
  LET fg == Css(css, "color")
      bg == Css(css, "background-color")
  IN  CASE fg.u \in {"absent", "named"} \/ bg.u \in {"absent", "named"} -> NotMeasured
        [] fg.u \notin {"absent", "named"} /\ bg.u \notin {"absent", "named"} ->
             IF HasImage(css) \/ fg.u # "opaque" \/ bg.u # "opaque" THEN Unmeasurable
             ELSE Classify(fg.n, bg.n, css)
=============================================================================
