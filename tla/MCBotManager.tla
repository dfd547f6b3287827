---------------------------- MODULE MCBotManager ----------------------------
(* BotManager and Migrator for TLC.                                        *)
EXTENDS BotManager

\* The first file is in the baseline; the second copies rows and keeps their
\* source; the third is 0004.  Two files may be pending at once.
TheScripts == << <<"ddl">>, <<"ddl", "copy">>, <<"ddl", "ddl", "copy", "drop", "drop">> >>
TheResellers == {1, 2}
=============================================================================
