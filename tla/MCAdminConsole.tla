--------------------------- MODULE MCAdminConsole ---------------------------
EXTENDS AdminConsole
=============================================================================
