------------------------------- MODULE Catalog -------------------------------
(***************************************************************************)
(* The catalog store: one cache per kind of list, refreshed from TMDB, and *)
(* their copy in the table catalog_items.  A refresh fetches its lists,    *)
(* replaces its cache when anything came back, then copies all caches, one *)
(* after another, and replaces the whole table by the copy.  The first     *)
(* refreshes after a start run one after another (the boot chain); every   *)
(* tick starts all of them at once.                                        *)
(***************************************************************************)
EXTENDS Integers, SequencesExt

CONSTANTS KindOrder,   \* the caches, in the order a copy reads them
          Answers,     \* what TMDB may answer, per kind: sequences of titles
          LegacyFiles, \* what an old catalog_snapshot.json may hold
          HomeRows,    \* the home page's rows, top to bottom
          RowCap,      \* titles a row shows at most
          MaxTicks     \* bound: ticks of the refresh loop

Kinds == Range(KindOrder)

\* What the home page reads of a title: cat is a tag it is listed under.
Films == [type : STRING, id : STRING, cat : STRING, rating : Nat]

Rows == [cat : STRING, src : Kinds, tags : Seq(STRING),
         how : {"joined", "interleaved", "rated"}]

Nothing == [k \in Kinds |-> << >>]

ASSUME CatalogAssumption ==
  /\ IsInjective(KindOrder) /\ RowCap \in Nat \ {0} /\ MaxTicks \in Nat
  /\ \A k \in Kinds : << >> \in Answers[k] /\ Answers[k] \subseteq Seq(Films)
  /\ KindOrder \in Seq(Kinds)
  /\ LegacyFiles \subseteq [Kinds -> Seq(Films)]

\* homeRowOrder: no two rows have a name, and two lists are interleaved.
ASSUME HomeAssumption ==
  /\ HomeRows \in Seq(Rows)
  /\ \A n, h \in 1..Len(HomeRows) : HomeRows[n].cat = HomeRows[h].cat => n = h
  /\ \A n \in 1..Len(HomeRows) :
       HomeRows[n].how = "interleaved" => Len(HomeRows[n].tags) = 2

VARIABLES cache,      \* the caches in memory
          table,      \* catalog_items
          legacy,     \* the old snapshot file's caches; Nothing once migrated
          refresher,  \* per kind: the refresh under way, if any
          chain,       \* the boot chain's position in KindOrder
          ticks,
          unread,     \* history: this start could not read the table
          mixed       \* history: a cache changed under another refresh's copy

catalogVars == <<cache, table, legacy, refresher, chain, ticks, unread, mixed>>

NoRefresh == [at |-> "idle", next |-> 1, got |-> Nothing, chained |-> FALSE]

CatalogInit ==
  /\ cache = Nothing /\ table = Nothing /\ legacy \in LegacyFiles
  /\ refresher = [k \in Kinds |-> NoRefresh]
  /\ chain = Len(KindOrder) + 1 /\ ticks = 0
  /\ unread = FALSE /\ mixed = FALSE

(***************************************************************************)
(* A start: the old file fills an empty table, the table fills the caches, *)
(* and the boot chain begins.                                              *)
(***************************************************************************)
MigrateCatalogJSON ==
  /\ IF table # Nothing \/ legacy = Nothing
     THEN UNCHANGED <<table, legacy>>
     ELSE \/ UNCHANGED <<table, legacy>>                 \* the save failed
          \/ table' = legacy /\ legacy' \in {legacy, Nothing}  \* or the rename
  /\ UNCHANGED <<cache, refresher, chain, ticks, unread, mixed>>

LoadSnapshot ==
  /\ \/ unread' = FALSE
        /\ cache' = [k \in Kinds |-> IF cache[k] = << >> THEN table[k]
                                                         ELSE cache[k]]
     \/ unread' = TRUE /\ UNCHANGED cache
  /\ chain' = 1 /\ mixed' = unread'
  /\ UNCHANGED <<table, legacy, refresher, ticks>>

CatalogCrash ==
  /\ cache' = Nothing /\ refresher' = [k \in Kinds |-> NoRefresh]
  /\ chain' = Len(KindOrder) + 1 /\ unread' = FALSE /\ mixed' = FALSE
  /\ UNCHANGED <<table, legacy, ticks>>

(***************************************************************************)
(* Refreshes.                                                              *)
(***************************************************************************)
Begun(r, k, chained) ==
  IF r[k].at = "idle"
  THEN [r EXCEPT ![k] = [NoRefresh EXCEPT !.at = "fetching", !.chained = chained]]
  ELSE r                                       \* TryLock failed: skipped

BootChain ==
  /\ chain <= Len(KindOrder)
  /\ ~\E k \in Kinds : refresher[k].chained
  /\ LET k == KindOrder[chain] IN
       /\ refresher' = Begun(refresher, k, TRUE)
       /\ chain' = chain + 1
  /\ UNCHANGED <<cache, table, legacy, ticks, unread, mixed>>

RefreshTick ==
  /\ ticks < MaxTicks
  /\ ticks' = ticks + 1
  /\ refresher' = [k \in Kinds |-> Begun(refresher, k, FALSE)[k]]
  /\ UNCHANGED <<cache, table, legacy, chain, unread, mixed>>

Writing(k) == refresher[k].at \in {"copying", "saving"}

Store(k) ==
  /\ refresher[k].at = "fetching"
  /\ \E a \in Answers[k] :
       cache' = [cache EXCEPT ![k] = IF a = << >> THEN cache[k] ELSE a]
  /\ mixed' = \/ \E j \in Kinds \ {k} : Writing(j)
              \/ mixed /\ cache' = Nothing          \* nothing to save yet
  /\ refresher' = [refresher EXCEPT ![k].at = "copying"]
  /\ UNCHANGED <<table, legacy, chain, ticks, unread>>

CopyCache(k) ==
  /\ refresher[k].at = "copying"
  /\ LET r == refresher[k]
         j == KindOrder[r.next] IN
       refresher' = [refresher EXCEPT ![k] =
         [r EXCEPT !.got[j] = cache[j], !.next = r.next + 1,
                   !.at = IF r.next = Len(KindOrder) THEN "saving" ELSE @]]
  /\ UNCHANGED <<cache, table, legacy, chain, ticks, unread, mixed>>

\* Fault: only the refresh's own rows are put in.
SaveOwnOnly(k) ==
  /\ refresher[k].at = "saving"
  /\ \/ /\ table' = [Nothing EXCEPT ![k] = refresher[k].got[k]]
        /\ UNCHANGED mixed
     \/ UNCHANGED table /\ mixed' = TRUE
  /\ refresher' = [refresher EXCEPT ![k] = NoRefresh]
  /\ UNCHANGED <<cache, legacy, chain, ticks, unread>>

SaveCatalogCaches(k) ==
  /\ refresher[k].at = "saving"
  /\ \/ /\ table' = IF refresher[k].got = Nothing THEN table
                                                  ELSE refresher[k].got
        /\ UNCHANGED mixed
     \/ UNCHANGED table /\ mixed' = TRUE             \* rolled back and logged
  /\ refresher' = [refresher EXCEPT ![k] = NoRefresh]
  /\ UNCHANGED <<cache, legacy, chain, ticks, unread>>

RefreshStep == \/ BootChain \/ RefreshTick
               \/ \E k \in Kinds : \/ Store(k) \/ CopyCache(k)
                                   \/ SaveCatalogCaches(k)

(***************************************************************************)
(* The home page.  A row names the cache and the tags it draws from and    *)
(* how it orders them.                                                     *)
(***************************************************************************)
Item(s, i) == IF i <= Len(s) THEN <<s[i]>> ELSE << >>

InterleaveMovies(a, b) ==
  FlattenSeq([i \in 1..(Len(a) + Len(b)) |-> Item(a, i) \o Item(b, i)])

Tagged(s, tag) ==
  FlattenSeq([i \in 1..Len(s) |-> IF s[i].cat = tag THEN <<s[i]>> ELSE << >>])

\* Stable: who is rated higher, or the same and not listed later.
NotBelow(s, i) ==
  {j \in 1..Len(s) : \/ s[j].rating > s[i].rating
                     \/ s[j].rating = s[i].rating /\ j <= i}

ByRating(s) ==
  [n \in 1..Len(s) |-> s[CHOOSE i \in 1..Len(s) : Cardinality(NotBelow(s, i)) = n]]

RowItems(row) ==
  LET lists == [n \in 1..Len(row.tags) |-> Tagged(cache[row.src], row.tags[n])] IN
  IF row.how = "interleaved" THEN InterleaveMovies(lists[1], lists[2])
  ELSE IF row.how = "rated" THEN ByRating(FlattenSeq(lists))
  ELSE FlattenSeq(lists)

Title(m) == <<m.type, m.id>>
Titles(s) == {Title(s[i]) : i \in 1..Len(s)}

\* A title under the name of its row, unless the row is full or it was seen.
Shown(got, m, seen, row) ==
  IF Len(got) >= RowCap \/ Title(m) \in seen \cup Titles(got) THEN got
  ELSE Append(got, [type |-> m.type, id |-> m.id, cat |-> row.cat, rating |-> m.rating])

Chosen(items, seen, row) ==
  LET got[i \in 0..Len(items)] ==
        IF i = 0 THEN << >> ELSE Shown(got[i - 1], items[i], seen, row)
  IN  got[Len(items)]

\* Fault: only the row's own titles count.
AddRowUnseen(page, row) == page \o Chosen(RowItems(row), {}, row)

AddRow(page, row) == page \o Chosen(RowItems(row), Titles(page), row)

HomeView ==
  LET upto[n \in 0..Len(HomeRows)] ==
        IF n = 0 THEN << >> ELSE AddRow(upto[n - 1], HomeRows[n])
  IN  upto[Len(HomeRows)]

(***************************************************************************)
(* Properties.                                                             *)
(***************************************************************************)

(* A list that was saved is never lost again: failed fetches keep the old  *)
(* cache, a start fills the caches before the first refresh copies them,   *)
(* and the table is replaced as a whole.  Only a start that cannot read    *)
(* the table, or an older copy saved last (mixed), gives up what it held.  *)
NothingForgotten ==
  [][~unread /\ ~mixed => \A k \in Kinds : table[k] # << >> => table'[k] # << >>]_table

InRow(page, row) == {i \in 1..Len(page) : page[i].cat = row.cat}

(* The home page shows no title twice and no row above its cap; a title a  *)
(* row draws from is on the page, in that row or above it, unless the row  *)
(* is full; and a row of rated titles runs from the best downwards.        *)
RowIsSound(page, n) ==
  LET row == HomeRows[n]
      mine == InRow(page, row)
      shown == {Title(page[i]) : i \in UNION {InRow(page, HomeRows[h]) : h \in 1..n}}
  IN  /\ Cardinality(mine) <= RowCap
      /\ Titles(RowItems(row)) \subseteq shown \/ Cardinality(mine) = RowCap
      /\ row.how = "rated" =>
           \A i, j \in mine : i < j => page[i].rating >= page[j].rating

PageIsSound(page) ==
  /\ \A i, j \in 1..Len(page) : Title(page[i]) = Title(page[j]) => i = j
  /\ \A n \in 1..Len(HomeRows) : RowIsSound(page, n)

HomeIsSound == PageIsSound(HomeView)

=============================================================================
