------------------------------ MODULE Playlist ------------------------------
(***************************************************************************)
(* HLS playlists as the proxy rewrites them: a sequence of lines, each     *)
(* with the attributes the code looks at.  The text of a line is left out. *)
(***************************************************************************)
EXTENDS Integers, SequencesExt

CONSTANTS Source     \* the session's upstream URL

(* tag: "header" (#EXTM3U), "variant" (#EXT-X-STREAM-INF), "subs" and      *)
(* "audio" (#EXT-X-MEDIA), "segment" (#EXTINF), "uri" (a bare line).       *)
(* size: a variant's pixels and bandwidth.  via: where its URI leads.      *)
(*   "" it has none            "upstream", "spaced" upstream, without and  *)
(*   "proxy" through the proxy                      with a blank in it     *)
(*   "here" to this server     "odd" resolveMediaURL gives up on it: it    *)
(*                             does not parse, or is not HTTP with a host  *)
Line(tag, group, size, uri, via) ==
  [tag |-> tag, group |-> group, size |-> size, uri |-> uri, via |-> via]

URI == [name : STRING, host : STRING]
NoUri == [name |-> "", host |-> ""]
Ext == "goflix-ext"                       \* the group injected renditions share

Header == Line("header", "", <<0, 0>>, NoUri, "")
Variant(group, size) == Line("variant", group, size, NoUri, "")
Bare(uri, via) == Line("uri", "", <<0, 0>>, uri, via)
SubRenditionLine(sub) ==
  Line("subs", Ext, <<0, 0>>, [name |-> sub, host |-> ""], "here")

UpstreamLine == [tag : STRING, group : STRING, size : Nat \X Nat, uri : URI,
                 via : {"", "upstream", "spaced", "odd"}]

Has(text, tag) == \E i \in 1..Len(text) : text[i].tag = tag

(***************************************************************************)
(* A URI, in an attribute or on a line of its own, is led through the      *)
(* proxy, and its host becomes one the session may fetch from.  What       *)
(* cannot be resolved stays as it is, and so does a bare line with a blank.*)
(***************************************************************************)
ProxyURL(line) == IF line.via \in {"upstream", "spaced"} THEN [line EXCEPT !.via = "proxy"]
                                                        ELSE line

Rewritten(line) == IF line.tag = "uri" /\ line.via = "spaced" THEN line ELSE ProxyURL(line)

\* Fault: the hosts of attributes are forgotten.
DiscoveredOnLines(text) ==
  {text[i].uri.host : i \in {j \in 1..Len(text) : text[j].tag = "uri"
                                                 /\ Rewritten(text[j]).via = "proxy"}}

Discovered(text) ==
  {text[i].uri.host : i \in {j \in 1..Len(text) : Rewritten(text[j]).via = "proxy"}}

(***************************************************************************)
(* External subtitles: declared in a master that has none of its own, and  *)
(* named by every variant.                                                 *)
(***************************************************************************)
Declared(subs) == [i \in 1..Len(subs) |-> SubRenditionLine(subs[i])]

Insert(text, first, lines) ==
  SubSeq(text, 1, first) \o lines \o SubSeq(text, first + 1, Len(text))

FirstHeader(text) == SelectInSeq(text, LAMBDA l : l.tag = "header")
TakesSubs(text, subs) ==
  /\ subs # << >> /\ Has(text, "variant") /\ ~Has(text, "subs")
  /\ FirstHeader(text) # 0

\* Fault: a variant keeps its own group.
InjectUnlinked(text, subs) ==
  LET Linked(line) == IF line.tag = "variant" /\ line.group = ""
                      THEN [line EXCEPT !.group = Ext] ELSE line
      linked == [i \in 1..Len(text) |-> Linked(text[i])]
  IN  IF TakesSubs(text, subs)
      THEN Insert(linked, FirstHeader(text), Declared(subs)) ELSE text

InjectSubRenditions(text, subs) ==
  LET Linked(line) == IF line.tag = "variant"
                      THEN [line EXCEPT !.group = Ext] ELSE line
      linked == [i \in 1..Len(text) |-> Linked(text[i])]
  IN  IF TakesSubs(text, subs)
      THEN Insert(linked, FirstHeader(text), Declared(subs)) ELSE text

\* source: the session's, or none if it has ended.
SynthMediaMaster(subs, source) ==
  <<Header>> \o Declared(subs)
             \o <<Variant(Ext, <<0, 4>>), Bare(source, "proxy")>>

\* A session root without a master gets one.
IsWrapped(text, subs, isSessionRoot) ==
  subs # << >> /\ ~Has(text, "variant") /\ isSessionRoot /\ ~Has(text, "subs")

RewriteManifest(text, subs, isSessionRoot, source) ==
  LET out == [i \in 1..Len(text) |-> Rewritten(text[i])] IN
  CASE subs # << >> /\ Has(out, "variant") -> InjectSubRenditions(out, subs)
    [] IsWrapped(out, subs, isSessionRoot) -> SynthMediaMaster(subs, source)
    [] OTHER -> out

(***************************************************************************)
(* The variant the read-ahead follows: the one with the most pixels, then  *)
(* the highest bandwidth, then the first.  A variant owns the next bare    *)
(* line; the lines in between go with it.                                  *)
(***************************************************************************)
NextUri(text, i) ==
  SelectInSubSeq(text, i + 1, Len(text), LAMBDA l : l.tag = "uri")

Better(a, b) == a[1] > b[1] \/ (a[1] = b[1] /\ a[2] > b[2])

NoneYet == [upto |-> 0, best |-> <<Variant("", <<-1, -1>>)>>, out |-> << >>]

Scan(text, acc, i) ==
  LET j == NextUri(text, i) IN
  IF i <= acc.upto \/ (text[i].tag = "variant" /\ j = 0) THEN acc
  ELSE IF text[i].tag # "variant"
       THEN [upto |-> acc.upto, best |-> acc.best, out |-> Append(acc.out, text[i])]
       ELSE [upto |-> j, out |-> acc.out,
             best |-> IF Better(text[i].size, acc.best[1].size)
                      THEN <<text[i], text[j]>> ELSE acc.best]

Scanned(text) ==
  LET scan[i \in 0..Len(text)] ==
        IF i = 0 THEN NoneYet ELSE Scan(text, scan[i - 1], i)
  IN  scan

ForceHighestQuality(text) ==
  LET end == Scanned(text)[Len(text)] IN
  IF end.best = NoneYet.best THEN end.out ELSE end.out \o end.best

LastPlaylistLine(text) ==
  LET last == SelectLastInSeq(text, LAMBDA l : l.tag = "uri") IN
  IF last = 0 THEN NoUri ELSE text[last].uri

WarmedVariant(text) == LastPlaylistLine(ForceHighestQuality(text))

(***************************************************************************)
(* What a rewritten playlist must be.                                      *)
(***************************************************************************)
(* Every variant's subtitle group is declared.                             *)
GroupsDeclared(text) ==
  \A i \in 1..Len(text) : text[i].tag = "variant" /\ text[i].group # "" =>
    \E j \in 1..Len(text) : text[j].tag = "subs" /\ text[j].group = text[i].group

(* The variant that is warmed is one of the playlist's, none has more      *)
(* pixels, and none as many and more bandwidth, where every variant has a  *)
(* bare line of its own.                                                   *)
BestIsWarmed(text) ==
  LET variants == {i \in 1..Len(text) : text[i].tag = "variant"}
      Owned(i) == /\ NextUri(text, i) # 0
                  /\ \A j \in variants : j > i => j > NextUri(text, i)
  IN  variants # {} /\ (\A i \in variants : Owned(i)) =>
        \E i \in variants :
          /\ WarmedVariant(text) = text[NextUri(text, i)].uri
          /\ \A j \in variants :
               LET other == text[j].size  best == text[i].size IN
               other[1] < best[1] \/ (other[1] = best[1] /\ other[2] <= best[2])

=============================================================================
