----------------------------- MODULE MCUpdater ------------------------------
\* Values for the constants of Updater that a configuration cannot write.
EXTENDS Updater
MCVersion == {<<0, 2>>, <<0, 2, 1>>}
MCInstalled == <<0, 1, 9>>
=============================================================================
