-------------------------------- MODULE Listing --------------------------------
(***************************************************************************)
(* The lists of the API.  A client reads a list page by page; each answer  *)
(* is a query of its own over the rows that match, in an order, with a     *)
(* limit and an offset, and a count.  Rows that are equal in what a list   *)
(* is sorted by come in any order, in every answer anew; a list that asks  *)
(* for no order has rows that are all equal.  Left out: what the columns   *)
(* and patterns are, and changes of the rows between two pages.            *)
(***************************************************************************)
EXTENDS Naturals, FiniteSets, SequencesExt

CONSTANTS Rows,        \* ids, as numbers
          Own, Other,  \* the tenant that asks, and another
          Keys,        \* values a list is sorted by
          MaxFilters,  \* filters in one request
          Limit        \* rows in a page

\* Filters by text and by choice among values.
Texts == {"name", "text"}
Choice == {"kind"}

VARIABLES list,        \* the kind of list that is read
          rows,        \* its table
          query,       \* the filters that are given
          answered,    \* the rows in the pages so far
          total        \* the count in the last page

vars == <<list, rows, query, answered, total>>

Unread == 100          \* no page has been read

(***************************************************************************)
(* The lists: how the filters are joined, and whether the order a client   *)
(* asks for ends with the id                                               *)
(***************************************************************************)

List(joins, lastById) == [joins |-> joins, lastById |-> lastById]

\* Breeds join texts by OR, and the result with the kinds by AND.
Breeds == List("texts", TRUE)

BreedGroups == List("or", TRUE)

CoatColors == List("or", FALSE)

HorseOwners == List("or", FALSE)

HorseServices == List("or", FALSE)

SiteSettings == List("or", FALSE)

PriceGroups == List("or", FALSE)

\* The tenant is one more alternative.
Photos == List("or with tenant", FALSE)

Prices == List("and", FALSE)

HorseList == List("and", FALSE)

CmsNews == List("and", FALSE)

UserAccounts == List("and", TRUE)

CallbackRequests == List("and", TRUE)

\* Two lists without filters.
PublicNews == List("none", TRUE)

ServicesOfHorse == List("none", TRUE)

Lists == {Breeds, BreedGroups, CoatColors, HorseOwners, HorseServices, SiteSettings, PriceGroups,
          Photos, Prices, HorseList, CmsNews, UserAccounts, CallbackRequests, PublicNews, ServicesOfHorse}

Fits(r, filters) == filters = {} \/ rows[r].fits \cap filters # {}

Mine(r) == rows[r].tenant = Own

Matches(r) ==
    CASE list.joins = "or with tenant" -> Mine(r) \/ query \cap rows[r].fits # {}
      [] list.joins = "texts" ->
           Mine(r) /\ Fits(r, query \cap Texts) /\ query \cap Choice \subseteq rows[r].fits
      [] list.joins = "or" -> Mine(r) /\ Fits(r, query)
      [] OTHER -> Mine(r) /\ query \subseteq rows[r].fits

Matching == {r \in Rows : Matches(r)}

\* The order has no last word.
BugBefore(r, q) == rows[r].key < rows[q].key

Before(r, q) ==
    \/ rows[r].key < rows[q].key
    \/ rows[r].key = rows[q].key /\ list.lastById /\ r < q

\* The orders in which the database may return the rows.
Orders ==
    {o \in SetToSeqs(Matching) : \A i, j \in DOMAIN o : i < j => ~Before(o[j], o[i])}

Init ==
    /\ list \in Lists
    /\ query \in {q \in SUBSET (Texts \cup Choice) : Cardinality(q) <= MaxFilters}
    /\ list.joins = "none" => query = {}
    /\ rows \in [Rows -> [tenant : {Own, Other}, key : Keys, fits : SUBSET query]]
    /\ answered = <<>>
    /\ total = Unread

\* The next page, and the count of all rows that match.
Read ==
    /\ Len(answered) < total
    /\ \E o \in Orders :
           answered' = answered \o SubSeq(o, Len(answered) + 1, Min({Len(answered) + Limit, Len(o)}))
    /\ total' = Cardinality(Matching)
    /\ UNCHANGED <<list, rows, query>>

Next == Read

Spec == Init /\ [][Next]_vars

(***************************************************************************)
(* Properties                                                              *)
(***************************************************************************)

Complete == total # Unread /\ Len(answered) >= total

\* Where the order ends with the id, the pages together have every row that
\* matches once, as many as the count says.
PagesPartition ==
    Complete /\ list.lastById =>
        /\ ToSet(answered) = Matching
        /\ Len(answered) = Cardinality(Matching) /\ total = Len(answered)
================================================================================
