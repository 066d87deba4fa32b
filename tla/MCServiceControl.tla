-------------------------- MODULE MCServiceControl --------------------------
EXTENDS ServiceControl

MCPlatforms == {"systemd", "launchd", "windows"}
WindowsOnly == {"windows"}
=============================================================================
