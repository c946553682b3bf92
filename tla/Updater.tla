------------------------------ MODULE Updater -------------------------------
(***************************************************************************)
(* The auto-updater (src/updater/mod.rs), the update commands of the       *)
(* command line (src/cmd/update.rs), and the stream of releases all three  *)
(* search (src/updater/releases.rs).  GitHub lists releases newest first   *)
(* in pages, and new ones may be published between two page requests,      *)
(* which moves every release down the list.                                *)
(*                                                                         *)
(* A version is its place in the semver order and its pre-release          *)
(* identifiers.  An identifier is the channel it names, or None, and       *)
(* whether that name is all of it ("beta") or only part of it ("beta1").   *)
(***************************************************************************)
EXTENDS Lists, FiniteSetsExt

CONSTANTS
  Releases,         \* the releases that may be published
  Setting,          \* settings.update.channel: a channel or "semver"
  CurrentVersion,   \* the version that is running
  CurrentPre,       \* its pre-release identifiers
  Wanted,           \* the version the download command is asked for
  Count,            \* the -n of the list command
  GH_PAGE_SIZE,     \* releases in a page
  MaxPublished,     \* bound on the releases published
  None

PreChannels == {"devnet", "testnet", "alpha", "beta"}
Channels == PreChannels \cup {"release"}
Identifiers == [name : PreChannels \cup {None}, plain : BOOLEAN]

ASSUME UpdaterAssumption ==
  /\ Releases \subseteq [version : Nat, pre : Seq(Identifiers), asset : BOOLEAN]
  /\ Setting \in Channels \cup {"semver"}
  /\ CurrentVersion \in Nat
  /\ CurrentPre \in Seq(Identifiers)
  /\ Wanted \in Nat
  /\ Count \in Nat \ {0}
  /\ GH_PAGE_SIZE \in Nat \ {0}
  /\ MaxPublished \in Nat
  /\ None \notin Releases
  /\ None \notin Channels
  /\ None \notin {0, 1}

VARIABLES
  command,     \* what main runs: server, list or download
  pc,          \* select, fetching, downloading, installing, returned, failed
  shutdown,    \* the shutdown trigger has fired
  published,   \* what GitHub lists, newest first
  page,        \* the page being fetched
  release,     \* the release the search found
  printed,     \* the releases the list command has printed
  found,       \* how the last completed search ended: None, "none", "release"
  \* for the properties only:
  listing,     \* what was listed when the search's first page was answered
  lost         \* a request of the search failed

search_vars == <<page, release, printed, found, listing, lost>>
updater_vars == <<command, pc, published, search_vars>>
vars == <<updater_vars, shutdown>>

\* Channel::from_version
from_version(pre) ==
  LET named == {i \in DOMAIN pre : pre[i].plain /\ pre[i].name # None}
  IN IF named = {} THEN "release" ELSE pre[Min(named)].name

\* Release::in_channel
in_channel(r, channel) ==
  IF channel = "release" THEN r.pre = <<>>
  ELSE \E i \in DOMAIN r.pre : r.pre[i].name = channel

\* Channel::from_str
Channel == IF Setting = "semver" THEN from_version(CurrentPre) ELSE Setting

\* The filters of Updater::run and of the list and download commands.
IsUpdate(r) == in_channel(r, Channel) /\ r.version > CurrentVersion
IsListed(r) == in_channel(r, Channel)
IsAskedFor(r) == r.version = Wanted /\ in_channel(r, from_version(r.pre))

Eligible(r) ==
  /\ r.asset
  /\ CASE command = "server" -> IsUpdate(r)
       [] command = "list" -> IsListed(r)
       [] command = "download" -> IsAskedFor(r)

\* The releases of items that pass the filter, in their order.
Filtered(items) == Filter(items, {r \in Releases : Eligible(r)})

\* Defect: the page is popped from its end as it was received.
fetch_releases_not_reversed(n) ==
  LET items == SubSeq(published, (n - 1) * GH_PAGE_SIZE + 1,
                      Min({n * GH_PAGE_SIZE, Len(published)}))
  IN [i \in 1..Len(items) |-> items[Len(items) + 1 - i]]

\* A page in the order in which all() yields its releases: fetch_releases
\* reverses it, and pop takes from the end.
fetch_releases(n) ==
  SubSeq(published, (n - 1) * GH_PAGE_SIZE + 1, Min({n * GH_PAGE_SIZE, Len(published)}))

\* Defect: every second page is skipped.
NextPage_skips(n) == n + 2

NextPage(n) == n + 1

(***************************************************************************)
(* The search.  In the server it starts on a tick of the timer and the     *)
(* shutdown trigger is looked at only in the select!; a command does not   *)
(* look at the trigger at all.                                             *)
(***************************************************************************)
Shutdown ==
  /\ pc = "select"
  /\ shutdown
  /\ pc' = "returned"
  /\ UNCHANGED <<command, shutdown, published, search_vars>>

Tick ==
  /\ pc = "select"
  /\ pc' = "fetching"
  /\ page' = 1
  /\ lost' = FALSE
  /\ UNCHANGED <<command, shutdown, published, release, printed, found, listing>>

\* Where a search that found nothing, or that printed what it found, leads.
AfterSearch == IF command = "server" THEN "select" ELSE "returned"

\* try_next takes the first release that passes the filter, next and take the
\* first Count of them; when neither has had enough, the next page follows a
\* page that was not empty, and the first page even when it was.
Take(matching) ==
  /\ IF command = "list"
       THEN /\ printed' = SubSeq(printed \o matching, 1,
                                 Min({Count, Len(printed) + Len(matching)}))
            /\ UNCHANGED release
       ELSE /\ release' = IF matching = <<>> THEN release ELSE Head(matching)
            /\ UNCHANGED printed

Enough(matching) ==
  IF command = "list" THEN Len(printed) + Len(matching) >= Count ELSE matching # <<>>

FetchOk ==
  /\ pc = "fetching"
  /\ listing' = IF page = 1 THEN published ELSE listing
  /\ LET items == fetch_releases(page)
         matching == Filtered(items)
     IN /\ Take(matching)
        /\ \/ /\ Enough(matching)
              /\ found' = "release"
              /\ pc' = IF command = "list" THEN "returned" ELSE "downloading"
              /\ UNCHANGED page
           \/ /\ ~Enough(matching)
              /\ items = <<>> /\ page > 1
              /\ found' = "none"
              /\ pc' = AfterSearch
              /\ UNCHANGED page
           \/ /\ ~Enough(matching)
              /\ items # <<>> \/ page = 1
              /\ page' = NextPage(page)
              /\ UNCHANGED <<pc, found>>
  /\ UNCHANGED <<command, shutdown, published, lost>>

\* curl fails or its output is not a list of releases.  filtered() drops the
\* error and the stream ends after it, so the search finds nothing more.
FetchError ==
  /\ pc = "fetching"
  /\ listing' = IF page = 1 THEN published ELSE listing
  /\ lost' = TRUE
  /\ found' = "none"
  /\ pc' = AfterSearch
  /\ UNCHANGED <<command, shutdown, published, page, release, printed>>

\* ReleaseAsset::download, in the server.
Download ==
  /\ pc = "downloading" /\ command = "server"
  /\ pc' \in {"installing", "failed"}
  /\ UNCHANGED <<command, shutdown, published, search_vars>>

\* The same in the download command, which prints what came of it and ends.  It
\* fails before that without a current directory, also when it is given a path.
DownloadOnly ==
  /\ pc = "downloading" /\ command = "download"
  /\ pc' \in {"returned", "failed"}
  /\ UNCHANGED <<command, shutdown, published, search_vars>>

install ==
  /\ pc = "installing"
  /\ pc' \in {"returned", "failed"}
  /\ UNCHANGED <<command, shutdown, published, search_vars>>

Step == Shutdown \/ Tick \/ FetchOk \/ FetchError \/ Download \/ DownloadOnly \/ install

\* External: a release is published.
Publish(r) ==
  /\ r \notin Range(published)
  /\ Len(published) < MaxPublished
  /\ published' = <<r>> \o published
  /\ UNCHANGED <<command, pc, shutdown, search_vars>>

\* A disabled updater returns at once.
UpdaterInit ==
  /\ command \in {"server", "list", "download"}
  /\ pc \in IF command = "server" THEN {"select", "returned"} ELSE {"fetching"}
  /\ shutdown = FALSE
  /\ published = <<>>
  /\ page = 1
  /\ release = None
  /\ printed = <<>>
  /\ found = None
  /\ listing = <<>>
  /\ lost = FALSE
-----------------------------------------------------------------------------
(***************************************************************************)
(* Properties                                                              *)
(***************************************************************************)
\* The search of run and of the download command finds a release that passes
\* the filter, and paging passes over no better one: it is the first that
\* passes in the list as the first page found it, or one published since then,
\* that later publications moved to a page not yet fetched.
FirstEligible ==
  found = "release" /\ command # "list" =>
    /\ Eligible(release)
    /\ \/ release \notin Range(listing)
       \/ \E i \in 1..Len(listing) :
            /\ release = listing[i]
            /\ \A j \in 1..i-1 : ~Eligible(listing[j])

\* A search none of whose requests failed and that logs "no update found", or
\* prints "No release found", has seen every release listed when it began, and
\* none of them passes; the list command has then printed all that do, though
\* perhaps some of them twice.
NoneMeansNone ==
  found = "none" /\ ~lost /\ pc # "fetching" =>
    \A r \in Range(listing) : Eligible(r) => command = "list" /\ r \in Range(printed)
=============================================================================
