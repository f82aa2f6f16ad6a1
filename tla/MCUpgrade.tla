------------------------------ MODULE MCUpgrade -----------------------------
\* The upgrade of a store in the small world.
EXTENDS UpgradeSafety, MCWorld

MCOldChains ==
  {<<MCGenesis>>,
   <<MCGenesis, <<"lock">>, <<"pay">>>>,
   <<MCGenesis, <<"lock", "claim">>>>,
   <<MCGenesis, <<"lock">>, <<"claim">>>>}
=============================================================================
