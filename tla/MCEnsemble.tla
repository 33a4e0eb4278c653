----------------------------- MODULE MCEnsemble -----------------------------
EXTENDS Ensemble
=============================================================================
