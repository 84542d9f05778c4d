-------------------------------- MODULE Site --------------------------------
(***************************************************************************)
(* The parts of the site around the bookings.  They share no table and no  *)
(* file, and each request is handled by one of them, so a step of the site *)
(* is a step of one part.                                                  *)
(***************************************************************************)
EXTENDS RateLimiter, Accounts, Catalogue, Uploads, Reorder

CONSTANT Movers  \* bound: the sets of parts that move in one behaviour

Parts == {"limiter", "accounts", "catalogue", "uploads", "reorder"}

ASSUME SiteAssumption == Movers \subseteq SUBSET Parts

VARIABLE moving  \* the parts that move, the others stay where they started

siteVars == <<moving, limiterVars, accountVars, catalogueVars, uploadVars, reorderVars>>

SiteInit ==
  /\ moving \in Movers
  /\ LimiterInit /\ AccountsInit /\ CatalogueInit /\ UploadsInit /\ ReorderInit

SiteNext ==
  /\ UNCHANGED moving
  /\ \/ /\ "limiter" \in moving /\ LimiterNext
        /\ UNCHANGED <<accountVars, catalogueVars, uploadVars, reorderVars>>
     \/ /\ "accounts" \in moving /\ AccountsNext
        /\ UNCHANGED <<limiterVars, catalogueVars, uploadVars, reorderVars>>
     \/ /\ "catalogue" \in moving /\ CatalogueNext
        /\ UNCHANGED <<limiterVars, accountVars, uploadVars, reorderVars>>
     \/ /\ "uploads" \in moving /\ UploadsNext
        /\ UNCHANGED <<limiterVars, accountVars, catalogueVars, reorderVars>>
     \/ /\ "reorder" \in moving /\ ReorderNext
        /\ UNCHANGED <<limiterVars, accountVars, catalogueVars, uploadVars>>

SiteSpec == SiteInit /\ [][SiteNext]_siteVars

\* Every part keeps its types; foreign keys hold rows that are there, whatever
\* the cascades of concurrent deletes took along.
SiteTypeOK ==
  /\ moving \subseteq Parts
  /\ "limiter"   \in moving => LimiterTypeOK
  /\ "accounts"  \in moving => AccountsTypeOK
  /\ "catalogue" \in moving => CatalogueTypeOK
  /\ "uploads"   \in moving => UploadsTypeOK
  /\ "reorder"   \in moving => ReorderTypeOK

=============================================================================
