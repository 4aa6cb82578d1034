------------------------------ MODULE MCCatalogue ------------------------------
(***************************************************************************)
(* User accounts and the parts around the catalogue of the site, none of   *)
(* which shares state with another: names and slugs (requests one by one,  *)
(* and two at a time), values of site settings, the life of news, the      *)
(* lists, the migrations under all of these tables, and the broker         *)
(* connection.  MCInit chooses the one that goes on; the others are absent *)
(* or keep their initial state.                                            *)
(***************************************************************************)
EXTENDS UserRecords, TLC

CONSTANTS Single, Ids, Unset, Blank, NoRow, Refused,
          PairIds,               \* rows for requests that are handled at the same time
          MaxWrites, Watched,
          Settings, NoSetting,
          Items, Titles, Nothing, NoItem, MaxTime,
          Rows, Own, Other, Keys, MaxFilters, Limit,
          ReportAfter, MaxErrors, MaxOutages,
          Nobody

VARIABLES which,
          table, records, session,
          settings, editor,
          stories, now, editing,
          list, read, query, answered, total,
          version, schema, data, writes, last,
          link, _consecutive_failures, _escalated, outages, attempts, noise, reports

\* Names that differ or have the same slug, a slug longer than a third of the
\* column, one that is empty, and slugs that look like generated ones.
AloneNames == {<<"a">>, <<"A">>, <<"shch">>, <<"!">>}
AloneSlugs == {<<"a", "-", "1">>, <<"shch">>}

Alone == INSTANCE Catalogue
    WITH rows <- records, Sessions <- Single, Names <- AloneNames, Slugs <- AloneSlugs,
         MaxLength <- 3, Overlap <- FALSE

RaceNames == {<<"a">>, <<"A">>}
RaceSlugs == {<<"a", "-", "1">>}

Race == INSTANCE Catalogue
    WITH rows <- records, Ids <- PairIds, Names <- RaceNames, Slugs <- RaceSlugs,
         MaxLength <- 3, Overlap <- TRUE

ASSUME RowConstants == Alone!SlugConstants /\ Race!SlugConstants

Values == INSTANCE SiteSettings

Story == INSTANCE News WITH news <- stories, Editors <- Sessions

Tables == INSTANCE Migrations

\* Two facts about the revisions alone, whatever is stored.
ASSUME RevisionsFit == Tables!VersionsFit /\ Tables!FactsFit

Lists == INSTANCE Listing WITH rows <- read

Nats == INSTANCE Broker

rowVars == <<table, records, session>>
settingVars == <<settings, editor>>
newsVars == <<stories, now, editing>>
listVars == <<list, read, query, answered, total>>
schemaVars == <<version, schema, data, writes, last>>
natsVars == <<link, _consecutive_failures, _escalated, outages, attempts, noise, reports>>

InitRows ==
    CASE which = "names" -> Alone!Init
      [] which = "race" -> Race!Init
      [] OTHER -> table = NoRow /\ records = NoRow /\ session = NoRow

InitLists ==
    IF which = "lists" THEN Lists!Init
    ELSE list = Nobody /\ read = Nobody /\ query = Nobody /\ answered = Nobody /\ total = Nobody

MCInit ==
    /\ which \in {"accounts", "names", "race", "values", "story", "lists", "schema", "nats"}
    /\ Init
    /\ which # "accounts" => overlap /\ rows[Founder].name = CHOOSE n \in Usernames : TRUE
    /\ InitRows
    /\ Values!Init
    /\ Story!Init
    /\ InitLists
    /\ Tables!Init
    /\ Nats!Init

allVars ==
    <<which, vars, rowVars, settingVars, newsVars, listVars, schemaVars, natsVars>>

MCNext ==
    \/ /\ which = "accounts" /\ Next
       /\ UNCHANGED <<which, rowVars, settingVars, newsVars, listVars, schemaVars, natsVars>>
    \/ /\ which = "names" /\ Alone!Next
       /\ UNCHANGED <<which, vars, settingVars, newsVars, listVars, schemaVars, natsVars>>
    \/ /\ which = "race" /\ Race!Next
       /\ UNCHANGED <<which, vars, settingVars, newsVars, listVars, schemaVars, natsVars>>
    \/ /\ which = "values" /\ Values!Next
       /\ UNCHANGED <<which, vars, rowVars, newsVars, listVars, schemaVars, natsVars>>
    \/ /\ which = "story" /\ Story!Next
       /\ UNCHANGED <<which, vars, rowVars, settingVars, listVars, schemaVars, natsVars>>
    \/ /\ which = "lists" /\ Lists!Next
       /\ UNCHANGED <<which, vars, rowVars, settingVars, newsVars, schemaVars, natsVars>>
    \/ /\ which = "schema" /\ Tables!Next
       /\ UNCHANGED <<which, vars, rowVars, settingVars, newsVars, listVars, natsVars>>
    \/ /\ which = "nats" /\ Nats!Next
       /\ UNCHANGED <<which, vars, rowVars, settingVars, newsVars, listVars, schemaVars>>

\* Concurrent requests are interchangeable, and so are rows.
Symmetry == Permutations(Sessions) \cup Permutations(Ids)

MCSpec == MCInit /\ [][MCNext]_allVars

(***************************************************************************)
(* Properties of the parts; those of UserRecords keep their names          *)
(***************************************************************************)

\* Of requests for a name or a slug only losers of a race, and slugs no service
\* cuts, end with a server error.
RacersOnlyFail ==
    /\ which = "names" => Alone!OnlyRacesFail
    /\ which = "race" => Race!OnlyRacesFail

\* Names differ where the services look them up, and usernames always.
AllNamesDiffer ==
    /\ which = "accounts" => TypeOK
    /\ which = "names" => Alone!NamesDiffer
    /\ which = "race" => Race!NamesDiffer

\* Overlapping updates of type and value leave a value of the type.
ValueFitsType == Values!ValueFitsType

\* Each version has its tables, on the way up and on the way down.
SchemaIsOfVersion == which = "schema" => Tables!SchemaIsOfVersion

\* What a release could store does not stop the upgrade to the next.
LegalDataMigrates == Tables!LegalDataMigrates

\* News appear and disappear on the site on purpose.
VisibilityOnPurpose == Story!VisibilityOnPurpose

\* The pages of a list whose order is total are the rows that match.
PagesPartition == which = "lists" => Lists!PagesPartition

\* An outage of the broker is reported once.
OutageReportedOnce == which = "nats" => Nats!OutageReportedOnce
================================================================================
