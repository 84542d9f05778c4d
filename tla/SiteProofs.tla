----------------------------- MODULE SiteProofs -----------------------------
(***************************************************************************)
(* What is proved of each part holds of the site, whichever parts move and *)
(* however their steps alternate.                                          *)
(***************************************************************************)
EXTENDS Site, RateLimiterProofs, AccountsProofs, OfficeProofs, UploadsProofs

\* A step of the site is a step of one part, or leaves it where it is.
LEMMA StepOfAPart ==
  ASSUME [SiteNext]_siteVars
  PROVE  /\ [LimiterNext]_limiterVars
         /\ [AccountsNext]_accountVars
         /\ [CatalogueNext]_catalogueVars
         /\ [UploadsNext]_uploadVars
         /\ [ReorderNext]_reorderVars
BY DEF SiteNext, siteVars

\* No part takes a step its own specification does not allow: what holds of a
\* part alone holds of it within the site.
LEMMA PartsStandAlone ==
  SiteSpec => /\ LimiterSpec /\ AccountsSpec /\ CatalogueSpec
              /\ UploadsSpec /\ ReorderSpec
<1>1. SiteInit => /\ LimiterInit /\ AccountsInit /\ CatalogueInit
                  /\ UploadsInit /\ ReorderInit
  BY DEF SiteInit
<1>2. [SiteNext]_siteVars => /\ [LimiterNext]_limiterVars
                             /\ [AccountsNext]_accountVars
                             /\ [CatalogueNext]_catalogueVars
                             /\ [UploadsNext]_uploadVars
                             /\ [ReorderNext]_reorderVars
  BY StepOfAPart
<1> QED
  BY <1>1, <1>2, PTL
     DEF SiteSpec, LimiterSpec, AccountsSpec, CatalogueSpec, UploadsSpec, ReorderSpec

\* Every part keeps its types and every foreign key holds a row that is there,
\* whatever the parts do side by side.
THEOREM SiteTypesHold == SiteSpec => []SiteTypeOK
<1>1. SiteInit => moving \subseteq Parts
  BY SiteAssumption DEF SiteInit
<1>2. moving \subseteq Parts /\ [SiteNext]_siteVars => (moving \subseteq Parts)'
  BY DEF SiteNext, siteVars
<1>3. LimiterInv => LimiterTypeOK
  BY DEF LimiterInv
<1>4. AccountsInv => AccountsTypeOK
  BY DEF AccountsInv
<1>5. UploadsInv => UploadsTypeOK
  BY DEF UploadsInv
<1>6. ReorderInv => ReorderTypeOK
  BY DEF ReorderInv
<1>7. /\ moving \subseteq Parts
      /\ LimiterTypeOK /\ AccountsTypeOK /\ CatalogueTypeOK /\ UploadsTypeOK /\ ReorderTypeOK
      => SiteTypeOK
  BY DEF SiteTypeOK
<1> QED
  BY <1>1, <1>2, <1>3, <1>4, <1>5, <1>6, <1>7, PartsStandAlone, LimiterInductive,
     AccountsInductive, CatalogueTypes, UploadsInductive, ReorderInductive, PTL DEF SiteSpec

=============================================================================
