----------------------------- MODULE DetailFields -----------------------------
(***************************************************************************)
(* The fields of the details of a style: which operation saves each, how a *)
(* client's value becomes a stored one, and which column an edit shows.    *)
(* Values are "null", NoText, and "0", "1", "2", which stand for the       *)
(* flags, the identifiers of a catalog, the numbers and the texts.         *)
(***************************************************************************)
EXTENDS Integers

\* An operation that saves one field is its column and its shape, and each of
\* the code's is written out with one of these four: StyleDetails says, in
\* FieldRead and FieldSave, what a shape reads, compares and saves.
Catalog(column) == [column |-> column, kind |-> "catalog"]
Flag(column) == [column |-> column, kind |-> "flag"]
Number(column) == [column |-> column, kind |-> "number"]
Text(column) == [column |-> column, kind |-> "text"]

\* The operations, in the order of the code.
SaveProvider == Catalog("provider")
SaveCso == Catalog("cso")
SaveCategory == Catalog("category")
SaveExitPort == Catalog("exitPort")
SaveSegment == Catalog("segment")
SaveAtc == Flag("atc")
SaveOrigin == Catalog("origin")
SaveRatio == Catalog("ratio")
SaveSize == Catalog("size")
SaveShippingMethod == Catalog("shippingMethod")
SavePackingMethod == Catalog("packingMethod")
SaveHanger == Flag("hanger")
SaveVstTag == Flag("vstTag")
SavePrice == Number("price")
SavePriceSATO == Number("sato")
SaveFob == Number("fob")
SaveTechFile == Flag("techFile")
SaveSizeSpec == Flag("sizeSpec")
SaveInternetDescription == Text("internetDescription")
SaveNegotiatior == Text("negotiatior")
SaveDesigner == Text("designer")
SaveMerchandiser == Text("merchandiser")
SaveProductManager == Text("productManager")
SaveBrandManager == Text("brandManager")
SaveRse == Catalog("rse")
SaveGauge == Text("gauge")
SaveFabricWight == Text("fabricWight")
SaveFabricConstruction == Text("fabricConstruction")
SaveFabricWeaving == Text("fabricWeaving")
SaveComposition == Text("composition")
SaveAdditionalAccesory == Text("additionalAccesory")
SaveFobReferencial == Number("fobReferencial")
SaveReferencialProvider == Text("referencialProvider")
SaveCollection == Text("collection")
SaveEvent == Text("event")
SaveSeasonSticker == Catalog("seasonSticker")

\* saveStylesDetails: the operation of a type of field.
SavedBy ==
  [Provider |-> SaveProvider, Cso |-> SaveCso, Category |-> SaveCategory,
   ExitPort |-> SaveExitPort, Segment |-> SaveSegment, Atc |-> SaveAtc,
   Origin |-> SaveOrigin, Ratio |-> SaveRatio, Size |-> SaveSize,
   ShippingMethod |-> SaveShippingMethod,
   PackingMethod |-> SavePackingMethod, Hanger |-> SaveHanger,
   VstTag |-> SaveVstTag, Price |-> SavePrice, PriceSATO |-> SavePriceSATO,
   Fob |-> SaveFob, TechFile |-> SaveTechFile, SizeSpec |-> SaveSizeSpec,
   InternetDescription |-> SaveInternetDescription,
   Negotiatior |-> SaveNegotiatior, Designer |-> SaveDesigner,
   Merchandiser |-> SaveMerchandiser, PM |-> SaveProductManager,
   BM |-> SaveBrandManager, Rse |-> SaveRse, Gauge |-> SaveGauge,
   FabricWight |-> SaveFabricWight,
   FabricConstruction |-> SaveFabricConstruction,
   FabricWeaving |-> SaveFabricWeaving, Composition |-> SaveComposition,
   AdditionalAccesory |-> SaveAdditionalAccesory,
   FobReferencial |-> SaveFobReferencial,
   ReferencialProvider |-> SaveReferencialProvider,
   Collection |-> SaveCollection, Event |-> SaveEvent,
   SeasonSticker |-> SaveSeasonSticker]

DetailsType == DOMAIN SavedBy

\* getFieldsEdit: the column an edit shows for a type of field.
ShownAs ==
  [Provider |-> "provider", Cso |-> "cso", Category |-> "category",
   ExitPort |-> "exitPort", Segment |-> "segment", Atc |-> "atc",
   Origin |-> "origin", Ratio |-> "ratio", Size |-> "size",
   ShippingMethod |-> "shippingMethod", PackingMethod |-> "packingMethod",
   Hanger |-> "hanger", VstTag |-> "vstTag", Price |-> "price",
   PriceSATO |-> "sato", Fob |-> "fob", TechFile |-> "techFile",
   SizeSpec |-> "sizeSpec", InternetDescription |-> "internetDescription",
   Negotiatior |-> "negotiatior", Designer |-> "designer",
   Merchandiser |-> "merchandiser", PM |-> "productManager",
   BM |-> "brandManager", Rse |-> "rse", Gauge |-> "gauge",
   FabricWight |-> "fabricWight",
   FabricConstruction |-> "fabricConstruction",
   FabricWeaving |-> "fabricWeaving", Composition |-> "composition",
   AdditionalAccesory |-> "additionalAccesory",
   FobReferencial |-> "fobReferencial",
   ReferencialProvider |-> "referencialProvider",
   Collection |-> "collection", Event |-> "event",
   SeasonSticker |-> "seasonSticker"]

Column(t) == SavedBy[t].column
Kind(t) == SavedBy[t].kind

\* What the columns of a new row hold when nothing is said of them.
Blank(t) == IF Kind(t) = "flag" THEN "0" ELSE "null"

NoText == "no_text"

\* The values a column may hold.
ValuesOf(t) ==
  CASE Kind(t) = "catalog" -> {"null", "1", "2"}
    [] Kind(t) = "flag" -> {"0", "1"}
    [] Kind(t) = "number" -> {"null", "0", "1", "2"}
    [] OTHER -> {"null", NoText, "1", "2"}

\* The value stored for the text a client sends.  An empty text is no
\* identifier: the query it ends in fails.
Stored(t, sent) ==
  CASE Kind(t) = "catalog" -> IF sent = NoText THEN "error" ELSE sent
    [] Kind(t) = "flag" -> IF sent = "1" THEN "1" ELSE "0"
    [] Kind(t) = "number" -> IF sent = NoText THEN "0" ELSE sent
    [] OTHER -> sent

\* What the form of the details takes: an identifier that is missing keeps
\* the one there is and -1 clears it; it sends the vstTag and it is not read.
InForm(t) == t # "VstTag"
FromForm(t, asked, now) ==
  IF ~InForm(t) \/ asked = "absent" THEN now
  ELSE IF Kind(t) = "catalog" /\ asked = "-1" THEN "null"
  ELSE asked

\* The fields a SKU is created with, whose change removes it.
InSku(t) == t \in {"Provider", "Size"}
=============================================================================
