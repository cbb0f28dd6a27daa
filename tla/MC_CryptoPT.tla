----------------------------- MODULE MC_CryptoPT -----------------------------
EXTENDS CryptoPT, TLC

CONSTANTS renewal, certResult

\* Edge Core reports a certificate renewal result and a certificate result.
MCInbound == {renewal, certResult}
MCReq == (renewal :> "certificate_renewal_result")
         @@ (certResult :> "crypto_get_certificate_result")

=============================================================================
