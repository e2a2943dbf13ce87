------------------------------ MODULE MCSscpNet -------------------------------
EXTENDS SscpNet
MCPaths == {Urls}
===============================================================================
