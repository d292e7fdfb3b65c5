------------------------- MODULE MCServiceManifest -------------------------
\* The jobs of MCPodManifest, on either back end.
EXTENDS MCPodManifest, ServiceManifest
=============================================================================
