----------------------------- MODULE MC_FotaPT -----------------------------
EXTENDS FotaPT, TLC

CONSTANTS wFloat, wInt, mGood, mMissing, mForeign, mWrongVendor

\* Edge Core writes the float set point /3308/0/5900, or the int resource
\* /10255/0/0; both are writable resources of the example device.
WriteFloat == WriteTo(CHOOSE r \in WritableResources : r.path = <<3308, 0, 5900>>)
WriteInt == WriteTo(CHOOSE r \in WritableResources : r.path = <<10255, 0, 0>>)
\* Manifests: matching IDs; a field missing; both IDs foreign.
ManifestGood == [kind |-> "manifest", uri |-> TRUE, complete |-> TRUE,
                 vendorOk |-> TRUE, classOk |-> TRUE]
ManifestMissing == [ManifestGood EXCEPT !.complete = FALSE]
ManifestForeign == [ManifestGood EXCEPT !.vendorOk = FALSE, !.classOk = FALSE]
\* Only the vendor ID differs from VENDORID.
ManifestWrongVendor == [ManifestGood EXCEPT !.vendorOk = FALSE]

\* The passing run: every handler branch.
MCInbound == {wFloat, wInt, mGood, mMissing}
MCReq == (wFloat :> WriteFloat) @@ (wInt :> WriteInt) @@ (mGood :> ManifestGood)
         @@ (mMissing :> ManifestMissing)


\* Edge Core writes the int resource.
MCInboundIntWrite == {wInt}
\* Edge Core sends a manifest whose vendor ID is foreign.
MCInboundWrongVendor == {mWrongVendor}
\* Edge Core sends a valid manifest.
MCInboundGoodManifest == {mGood}
MCReqAll == MCReq @@ (mForeign :> ManifestForeign) @@ (mWrongVendor :> ManifestWrongVendor)

=============================================================================
