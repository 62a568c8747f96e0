--------------------------- MODULE MCDemoConsole ----------------------------
EXTENDS DemoConsole

MCKey == {"actor", "world", "ticket", "pay", "owner"}

MCSlot == MCKey \cup Client

MCPosts ==
    {<<"add", <<>>>>, <<"warp", <<>>>>, <<"reset", <<>>>>, <<"ticket", <<>>>>,
     <<"verify", <<"kyc">>>>, <<"verify", <<"accredited">>>>, <<"refuse", <<"kyc">>>>,
     <<"revoke", <<"kyc", "accredited">>>>, <<"restore", <<"kyc">>>>}
=============================================================================
