---------------------------- MODULE InstrumentMap ----------------------------
(***************************************************************************)
(* Items of the portfolio, the instruments they stand for, and the         *)
(* companies that providers of filings know them by: services/instruments  *)
(* .py and repositories/instruments.py behind sync-instruments and         *)
(* PUT and DELETE /portfolio/{id}/instrument.                              *)
(*                                                                         *)
(* An instrument is named by its market and symbol, of which there is one  *)
(* that is active; no code makes one inactive.                             *)
(***************************************************************************)
EXTENDS Integers, FiniteSets, TLC

CONSTANTS
    MappedItems,
    Listings,        \* markets with symbols
    ListingOf,       \* item -> its listing
    Fits,            \* item -> listings of markets that _compatible accepts for it
    AdrListings,     \* of the asset type ADR
    ProviderCompanies,
    MappingAnswers,  \* what a provider says: company -> its listing
    Unlinked

VARIABLES
    link,            \* item -> instrument_id, or Unlinked
    instrument,      \* listing -> verification_status of its InstrumentRecord
    mapping          \* key of a company, or of none -> [instrument, status]

mapVars == <<link, instrument, mapping>>

InstrumentVerificationStatus == {"VERIFIED", "AMBIGUOUS", "UNVERIFIED"}

MappingRecord ==
    [instrument : Listings, status : {"VERIFIED", "CONFLICTING", "UNRESOLVED"}]

\* A mapping without a company is known by its status and listing.
MappingKeys ==
    ({"COMPANY"} \X ProviderCompanies) \cup ({"CONFLICTING", "UNRESOLVED"} \X Listings)

Candidates(answer, l) == {c \in DOMAIN answer : answer[c] = l}

MappingStatus(answer, l) ==
    CASE Cardinality(Candidates(answer, l)) = 1 -> "VERIFIED"
      [] Cardinality(Candidates(answer, l)) > 1 -> "CONFLICTING"
      [] Candidates(answer, l) = {} /\ l \in AdrListings -> "UNSUPPORTED"
      [] OTHER -> "UNRESOLVED"

\* Of an instrument that is made now; one that is there keeps its own.
VerificationOf(status) ==
    CASE status = "VERIFIED" -> "VERIFIED" [] status = "CONFLICTING" -> "AMBIGUOUS"
      [] OTHER -> "UNVERIFIED"

KeyOf(answer, l) ==
    IF MappingStatus(answer, l) = "VERIFIED" THEN <<"COMPANY", CHOOSE c \in DOMAIN answer : answer[c] = l>>
    ELSE <<MappingStatus(answer, l), l>>

\* The row that a check leaves, of the one company or of none.
MappingOf(answer, l) == [instrument |-> l, status |-> MappingStatus(answer, l)]

\* sync_companies, of the items that are followed,
\* that a command names and that the limit of fifty leaves.
SyncCompanies(answer, items) ==
    LET found == {l \in {ListingOf[i] : i \in items} : MappingStatus(answer, l) # "UNSUPPORTED"}
        keyed(k) == CHOOSE l \in found : KeyOf(answer, l) = k
    IN  /\ instrument' =
              instrument @@ [l \in found |-> VerificationOf(MappingStatus(answer, l))]
        /\ mapping' =
              [k \in {KeyOf(answer, l) : l \in found} |-> MappingOf(answer, keyed(k))] @@ mapping
        /\ UNCHANGED link

\* map_portfolio.
MapPortfolio(i, l) ==
    /\ l \in DOMAIN instrument \cap Fits[i]
    /\ link' = [link EXCEPT ![i] = l]
    /\ UNCHANGED <<instrument, mapping>>

UnmapPortfolio(i) ==
    /\ link' = [link EXCEPT ![i] = Unlinked]
    /\ UNCHANGED <<instrument, mapping>>

MapInit ==
    /\ link = [i \in MappedItems |-> Unlinked]
    /\ instrument = [l \in {} |-> "UNVERIFIED"]
    /\ mapping = [k \in {} |-> Unlinked]

MapNext ==
    \/ \E answer \in MappingAnswers, items \in SUBSET MappedItems \ {{}} :
          SyncCompanies(answer, items)
    \/ \E i \in MappedItems, l \in Listings : MapPortfolio(i, l)
    \/ \E i \in MappedItems : UnmapPortfolio(i)

\* The instruments whose events concern an item: the one it is linked to, and
\* that of its market and symbol once a company is known for it.
InstrumentsOf(i) ==
    {l \in DOMAIN instrument :
        \/ l = link[i]
        \/ /\ l = ListingOf[i]
           /\ \E k \in DOMAIN mapping : mapping[k] = [instrument |-> l, status |-> "VERIFIED"]}

MapTypeOK ==
    /\ link \in [MappedItems -> Listings \cup {Unlinked}]
    /\ DOMAIN instrument \subseteq Listings
    /\ \A l \in DOMAIN instrument : instrument[l] \in InstrumentVerificationStatus
    /\ DOMAIN mapping \subseteq MappingKeys
    /\ \A k \in DOMAIN mapping :
          mapping[k] \in MappingRecord /\ mapping[k].instrument \in DOMAIN instrument
=============================================================================
