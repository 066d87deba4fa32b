--------------------------- MODULE MCConfigReload ---------------------------
EXTENDS ConfigReload
CONSTANTS e1, e2
MCEditors == {e1, e2}
=============================================================================
