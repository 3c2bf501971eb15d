--------------------------- MODULE MCBrokerProcess ---------------------------
EXTENDS BrokerProcess

\* Two of the tables, and one of the columns added to the second.
MCTables == {"requests", "violations"}
MCNewColumns == {<<"violations", "runtime">>}
MCScript ==
  <<Create("requests"), Create("violations"), AddColumn("violations", "runtime")>>
MCOldTables == {"requests", "violations"}
==============================================================================
